---------------------------- MODULE CheckInProofs ----------------------------
(***************************************************************************)
(* Theorems about CheckIn, for any sets of requests and staff, any number  *)
(* of batches, invocations, faults and crashes.                            *)
(***************************************************************************)
EXTENDS CheckIn, TLAPS

Early   == {"idle", "expire", "find", "create"}
Unused  == {"refresh", "reread", "reserve", "claim", "takeover"}
Busy    == Calling \cup {"finalize"}
Checked == {"receipt", "context"} \cup Unused \cup Busy

(* Sessions, receipts, tickets and ROLLER agree.                             *)
RowsAgree ==
  /\ \A s, t \in Sessions : sess[s].status \in Active /\ sess[t].status \in Active => s = t
  /\ \A s \in lapsed : sess[s].status # "ready"
  /\ \A s \in Sessions : sess[s].status = "redeemed" <=> key[s].status = "succeeded"
  /\ used <=> \E s \in Sessions : sess[s].status = "redeemed"
  /\ used => roller = Batches

(* The fresh key of a session that nobody has redeemed is p's own.           *)
Holds(p) == LET s == mem[p].s IN
  /\ key[s] = [status |-> "in_progress", holder |-> p, stale |-> FALSE]
  /\ sess[s].status = "ready" /\ ~used

(* What a process has found on its way is still so.                          *)
OnItsWay(p) ==
  /\ pc[p] \in Early /\ p \in Starts => sess[p].status = "none"
  /\ pc[p] \in Early \ {"idle"} => p \in Starts
  /\ pc[p] \notin Early \cup {"done"} \/ mem[p].tries > 0 => mem[p].s \in Sessions
  /\ pc[p] = "lapse" => mem[p].s \in lapsed
  /\ pc[p] \in Checked => sess[mem[p].s].status \in {"ready", "redeemed"}
  /\ pc[p] \in Unused => ~used \/ sess[mem[p].s].status = "redeemed"
  /\ pc[p] \in Calling => Holds(p)
  /\ pc[p] = "finalize" => roller = Batches /\ (Holds(p) \/ sess[mem[p].s].status = "redeemed")
  /\ mem[p].seen \subseteq roller
  /\ pc[p] = "post" => Batches \ mem[p].left \subseteq roller
  /\ pc[p] = "delay" => mem[p].tries < Tries

IInv == TypeOK /\ RowsAgree /\ \A p \in Procs : OnItsWay(p)

(* What the assumption says of the constants. *)
LEMMA Constants ==
  /\ Tries \in Nat /\ Tries >= 1 /\ MaxFaults \in Nat /\ MaxCrashes \in Nat
  /\ Batches # {} /\ Purchase \in Sessions /\ Starts \subseteq Sessions /\ Purchase \notin Starts
  /\ Starts \subseteq Procs /\ MaxAttempts = 3
<1>1. Tries \in Nat \ {0} /\ MaxFaults \in Nat /\ MaxCrashes \in Nat /\ Batches # {}
      /\ Purchase \notin Starts
  BY CheckInAssumption
<1> QED BY <1>1 DEF Sessions, Procs, Requests, MaxAttempts

(* The initial state satisfies the inductive invariant.                      *)
LEMMA InitInv == Init => IInv
<1> SUFFICES ASSUME Init PROVE IInv
  OBVIOUS
<1> DEFINE bought == [NoSession EXCEPT !.status = "guest", !.sync = "pending"]
           start == [s |-> None, seen |-> {}, left |-> {}, again |-> FALSE, tries |-> 0]
<1>1. /\ NoSession \in Session /\ bought \in Session /\ NoKey \in Key /\ start \in Memory
      /\ NoSession.status = "none" /\ bought.status = "guest"
  <2>1. NoSession \in Session /\ NoSession.status = "none"
    BY Constants DEF NoSession, Session, Statuses
  <2>3. bought \in Session /\ bought.status = "guest"
    BY <2>1 DEF Session, Statuses
  <2>4. NoKey \in Key
    BY DEF NoKey, Key
  <2>5. start \in Memory
    BY Constants DEF Memory
  <2> QED BY <2>1, <2>3, <2>4, <2>5
<1> HIDE DEF bought, start
<1>2. /\ sess \in [Sessions -> Session]
      /\ \A s \in Sessions : sess[s].status \in {"none", "guest"}
                              /\ (s # Purchase => sess[s].status = "none")
  <2>1. CASE sess = [s \in Sessions |-> NoSession]
    BY <1>1, <2>1
  <2>2. CASE sess = [[s \in Sessions |-> NoSession] EXCEPT ![Purchase] = bought]
    BY <1>1, <2>2, Constants
  <2> QED BY <2>1, <2>2 DEF Init, bought
<1>3. TypeOK
  <2>1. key \in [Sessions -> Key]
    BY <1>1 DEF Init
  <2>2. mem \in [Procs -> Memory]
    BY <1>1 DEF Init, start
  <2>3. pc \in [Procs -> Steps]
    BY DEF Init, Steps
  <2>4. /\ lapsed \in SUBSET Sessions /\ used \in BOOLEAN
        /\ roller \in SUBSET Batches /\ late \in SUBSET Batches
    BY DEF Init
  <2>5. faults \in 0..MaxFaults /\ crashes \in 0..MaxCrashes
    BY Constants DEF Init
  <2> QED BY <1>2, <2>1, <2>2, <2>3, <2>4, <2>5 DEF TypeOK
<1>4. RowsAgree
  BY <1>2, Constants DEF Init, RowsAgree, NoKey, Active
<1>5. ASSUME NEW p \in Procs PROVE OnItsWay(p)
  <2>1. pc[p] = "idle" /\ mem[p].seen = {} /\ mem[p].tries = 0
    BY DEF Init
  <2>2. p \in Starts => sess[p].status = "none"
    BY <1>2, Constants
  <2> QED BY <2>1, <2>2 DEF OnItsWay, Early, Unused, Busy, Checked, Calling
<1> QED BY <1>3, <1>4, <1>5 DEF IInv

-----------------------------------------------------------------------------
(* Frames.                                                                   *)

(* A process that does not move keeps what it knows when sessions do not     *)
(* leave "ready" or "redeemed", ROLLER only gains entries and nobody touches *)
(* the key it holds.                                                         *)
LEMMA OthersKeep ==
  ASSUME NEW q \in Procs, OnItsWay(q), pc'[q] = pc[q], mem'[q] = mem[q], used' = used,
         q \in Starts /\ sess[q].status = "none" => sess'[q].status = "none",
         \A s \in Sessions : sess[s].status \in {"ready", "redeemed"}
                               => sess'[s].status = sess[s].status,
         lapsed \subseteq lapsed', roller \subseteq roller', roller' \subseteq Batches,
         pc[q] \in Busy /\ Holds(q) => key'[mem[q].s] = key[mem[q].s]
  PROVE  OnItsWay(q)'
<1>1. pc[q] \in Checked => mem[q].s \in Sessions
  BY DEF OnItsWay, Checked, Unused, Busy, Calling, Early
<1>2. pc[q] \in Busy /\ Holds(q) => Holds(q)'
  BY <1>1 DEF Holds, Checked
<1> QED BY <1>1, <1>2 DEF OnItsWay, Checked, Busy

(* The next step of one process. *)
LEMMA GotoTyped ==
  ASSUME TypeOK, NEW p \in Procs, NEW step \in Steps, Goto(p, step)
  PROVE  /\ pc' \in [Procs -> Steps] /\ pc'[p] = step
         /\ \A q \in Procs \ {p} : pc'[q] = pc[q]
BY DEF TypeOK, Goto

(* What a process remembers. *)
LEMMA MemTyped ==
  ASSUME TypeOK, NEW p \in Procs, NEW m \in Memory, mem' = [mem EXCEPT ![p] = m]
  PROVE  /\ mem' \in [Procs -> Memory] /\ mem'[p] = m
         /\ \A q \in Procs \ {p} : mem'[q] = mem[q]
BY DEF TypeOK

LEMMA MemoryParts ==
  ASSUME TypeOK, NEW p \in Procs
  PROVE  /\ mem[p] \in Memory /\ mem[p].s \in Sessions \cup {None}
         /\ mem[p].seen \subseteq Batches /\ mem[p].left \subseteq Batches
         /\ mem[p].again \in BOOLEAN /\ mem[p].tries \in 0..Tries
BY DEF TypeOK, Memory

(* Counting a fault or a crash. *)
LEMMA CountTyped ==
  ASSUME TypeOK, NoFault \/ Fault \/ Loss
  PROVE  faults' \in 0..MaxFaults /\ crashes' \in 0..MaxCrashes
BY Constants DEF TypeOK, NoFault, Fault, Loss

(* A step of one process that changes no row. *)
LEMMA MoveKeeps ==
  ASSUME IInv, NEW p \in Procs, UNCHANGED <<sess, lapsed, used, key>>,
         roller \subseteq roller', roller' \subseteq Batches, late' \subseteq Batches,
         faults' \in 0..MaxFaults, crashes' \in 0..MaxCrashes,
         pc' \in [Procs -> Steps], mem' \in [Procs -> Memory],
         \A q \in Procs \ {p} : pc'[q] = pc[q] /\ mem'[q] = mem[q],
         OnItsWay(p)'
  PROVE  IInv'
<1>1. TypeOK'
  BY DEF IInv, TypeOK
<1>2. RowsAgree'
  BY DEF IInv, RowsAgree
<1>3. ASSUME NEW q \in Procs, q # p PROVE OnItsWay(q)'
  BY <1>3, OthersKeep DEF IInv
<1> QED BY <1>1, <1>2, <1>3 DEF IInv

(* A step of one process that changes sessions, none of them redeemed.       *)
LEMMA SessionsKeep ==
  ASSUME IInv, NEW p \in Procs, UNCHANGED <<lapsed, used, key, roller, late>>,
         sess' \in [Sessions -> Session],
         \A s \in Sessions : sess[s].status \in {"ready", "redeemed"}
                               => sess'[s].status = sess[s].status,
         \A s \in Sessions : sess'[s].status = "redeemed" => sess[s].status = "redeemed",
         \A s \in Sessions \ {p} : sess[s].status = "none" => sess'[s].status = "none",
         \A s, t \in Sessions : sess'[s].status \in Active /\ sess'[t].status \in Active => s = t,
         \A s \in lapsed : sess'[s].status # "ready",
         faults' \in 0..MaxFaults, crashes' \in 0..MaxCrashes,
         pc' \in [Procs -> Steps], mem' \in [Procs -> Memory],
         \A q \in Procs \ {p} : pc'[q] = pc[q] /\ mem'[q] = mem[q],
         OnItsWay(p)'
  PROVE  IInv'
<1>1. TypeOK'
  BY DEF IInv, TypeOK
<1>2. RowsAgree'
  BY DEF IInv, RowsAgree
<1>3. ASSUME NEW q \in Procs, q # p PROVE OnItsWay(q)'
  <2>1. q \in Starts /\ sess[q].status = "none" => sess'[q].status = "none"
    BY <1>3, Constants
  <2> QED BY <1>3, <2>1, OthersKeep DEF IInv, TypeOK
<1> QED BY <1>1, <1>2, <1>3 DEF IInv

(* A step of one process that changes a key which no other running process   *)
(* holds, and which is no receipt before or after.                           *)
LEMMA KeyKeeps ==
  ASSUME IInv, NEW p \in Procs, UNCHANGED <<sess, lapsed, used, roller, late>>,
         NEW s \in Sessions, NEW k \in Key, key' = [key EXCEPT ![s] = k],
         k.status # "succeeded", key[s].status # "succeeded",
         \A q \in Procs \ {p} : pc[q] \in Busy /\ Holds(q) => mem[q].s # s,
         faults' \in 0..MaxFaults, crashes' \in 0..MaxCrashes,
         pc' \in [Procs -> Steps], mem' \in [Procs -> Memory],
         \A q \in Procs \ {p} : pc'[q] = pc[q] /\ mem'[q] = mem[q],
         OnItsWay(p)'
  PROVE  IInv'
<1>1. key' \in [Sessions -> Key] /\ key'[s] = k /\ \A t \in Sessions \ {s} : key'[t] = key[t]
  BY DEF IInv, TypeOK
<1>2. TypeOK'
  BY <1>1 DEF IInv, TypeOK
<1>3. RowsAgree'
  BY <1>1 DEF IInv, RowsAgree
<1>4. ASSUME NEW q \in Procs, q # p PROVE OnItsWay(q)'
  <2>1. OnItsWay(q) /\ pc'[q] = pc[q] /\ mem'[q] = mem[q]
    BY <1>4 DEF IInv
  <2>2. pc[q] \in Busy => mem[q].s \in Sessions
    BY <2>1 DEF OnItsWay, Busy, Calling, Early
  <2>3. pc[q] \in Busy /\ Holds(q) => key'[mem[q].s] = key[mem[q].s]
    BY <1>1, <1>4, <2>2
  <2> QED BY <2>1, <2>3, OthersKeep DEF IInv, TypeOK
<1> QED BY <1>2, <1>3, <1>4 DEF IInv

-----------------------------------------------------------------------------
(* The session starts, ready requests and confirmations.                     *)

(* A step that only moves p. *)
LEMMA StepOnly ==
  ASSUME IInv, NEW p \in Procs, NEW step \in Steps, Goto(p, step), Stay,
         NoFault \/ Fault \/ Loss, NEW m \in Memory, mem' = [mem EXCEPT ![p] = m],
         OnItsWay(p)'
  PROVE  IInv'
<1>1. /\ pc' \in [Procs -> Steps] /\ mem' \in [Procs -> Memory]
      /\ \A q \in Procs \ {p} : pc'[q] = pc[q] /\ mem'[q] = mem[q]
  BY GotoTyped, MemTyped DEF IInv
<1>2. faults' \in 0..MaxFaults /\ crashes' \in 0..MaxCrashes
  BY CountTyped DEF IInv
<1> QED BY <1>1, <1>2, MoveKeeps DEF Stay, IInv, TypeOK

(* The simplest cases: the process ends, or goes on with what it remembers.  *)
LEMMA StepKeepsMemory ==
  ASSUME IInv, NEW p \in Procs, NEW step \in Steps, Goto(p, step), Stay, UNCHANGED mem,
         NoFault \/ Fault \/ Loss, OnItsWay(p)'
  PROVE  IInv'
<1>1. mem[p] \in Memory /\ mem' = [mem EXCEPT ![p] = mem[p]]
  BY DEF IInv, TypeOK
<1> QED BY <1>1, StepOnly

LEMMA ReadBookingKeeps == ASSUME IInv, NEW p \in Procs, ReadBooking(p) PROVE IInv'
<1>1. PICK step \in {"done", "expire"} : Goto(p, step)
  BY DEF ReadBooking
<1>2. p \in Starts /\ pc[p] = "idle" /\ Stay /\ NoFault /\ UNCHANGED mem /\ step \in Steps
  BY <1>1 DEF ReadBooking, At, Steps
<1>3. pc'[p] = step
  BY <1>1, <1>2, GotoTyped DEF IInv
<1>4. OnItsWay(p)'
  BY <1>1, <1>2, <1>3 DEF IInv, OnItsWay, Stay, Early, Checked, Unused, Busy, Calling
<1> QED BY <1>1, <1>2, <1>4, StepKeepsMemory

(* What has lapsed was not ready. *)
LEMMA ExpireOldKeeps == ASSUME IInv, NEW p \in Procs, ExpireOld(p) PROVE IInv'
<1> DEFINE gone(s) == sess[s].status \in Active /\ s \in lapsed
<1>1. /\ pc[p] = "expire" /\ Goto(p, "find") /\ mem' = mem
      /\ UNCHANGED <<lapsed, used, key, roller, late>> /\ NoFault
      /\ sess' = [s \in Sessions |-> IF gone(s) THEN [sess[s] EXCEPT !.status = "expired"]
                                     ELSE sess[s]]
  BY DEF ExpireOld, At
<1>2. \A s \in Sessions : /\ sess[s] \in Session /\ sess'[s] \in Session
                          /\ gone(s) => sess[s].status = "guest" /\ sess'[s].status = "expired"
                          /\ ~gone(s) => sess'[s] = sess[s]
  BY <1>1 DEF IInv, TypeOK, Session, Statuses, RowsAgree, Active
<1>3. sess' \in [Sessions -> Session]
  BY <1>1, <1>2
<1> HIDE DEF gone
<1>4. /\ pc' \in [Procs -> Steps] /\ pc'[p] = "find"
      /\ \A q \in Procs \ {p} : pc'[q] = pc[q]
  BY <1>1, GotoTyped DEF IInv, Steps
<1>5. p \in Starts /\ p \in Sessions /\ sess[p].status = "none"
  BY <1>1, Constants DEF IInv, OnItsWay, Early
<1>6. sess'[p].status = "none"
  BY <1>2, <1>5
<1>7. OnItsWay(p)'
  BY <1>1, <1>4, <1>5, <1>6 DEF IInv, OnItsWay, Early, Checked, Unused, Busy, Calling
<1>8. /\ \A s \in Sessions : sess[s].status \in {"ready", "redeemed"}
                                => sess'[s].status = sess[s].status
      /\ \A s \in Sessions : sess'[s].status = "redeemed" => sess[s].status = "redeemed"
      /\ \A s \in Sessions : sess[s].status = "none" => sess'[s].status = "none"
      /\ \A s \in Sessions : sess'[s].status \in Active => sess[s].status \in Active
      /\ \A s \in Sessions : sess'[s].status = "ready" => sess[s].status = "ready"
  BY <1>2 DEF Active
<1>9. /\ \A s, t \in Sessions : sess'[s].status \in Active /\ sess'[t].status \in Active => s = t
      /\ \A s \in lapsed : sess'[s].status # "ready"
  BY <1>8 DEF IInv, RowsAgree, TypeOK
<1>10. faults' \in 0..MaxFaults /\ crashes' \in 0..MaxCrashes
  BY <1>1, CountTyped DEF IInv
<1> QED BY <1>1, <1>3, <1>4, <1>7, <1>8, <1>9, <1>10, SessionsKeep DEF IInv, TypeOK

LEMMA FindActiveKeeps == ASSUME IInv, NEW p \in Procs, FindActive(p) PROVE IInv'
<1>1. pc[p] = "find" /\ Stay /\ NoFault /\ mem[p] \in Memory
  BY DEF FindActive, At, IInv, TypeOK
<1>2. CASE Goto(p, "create") /\ UNCHANGED mem
  <2>1. pc'[p] = "create" /\ "create" \in Steps
    BY <1>2, GotoTyped DEF IInv, Steps
  <2>2. OnItsWay(p)'
    BY <1>1, <1>2, <2>1 DEF IInv, OnItsWay, Stay, Early, Checked, Unused, Busy, Calling
  <2> QED BY <1>1, <1>2, <2>1, <2>2, StepKeepsMemory
<1>3. ASSUME NEW s \in OpenSessions, mem' = [mem EXCEPT ![p].s = s],
             NEW step \in {"attest", "done"}, Goto(p, step)
      PROVE  IInv'
  <2>1. s \in Sessions /\ step \in Steps
    BY <1>3 DEF OpenSessions, Steps
  <2> DEFINE m == [mem[p] EXCEPT !.s = s]
  <2>2. m \in Memory /\ m.s = s /\ m.seen = mem[p].seen /\ mem' = [mem EXCEPT ![p] = m]
    BY <1>1, <1>3, <2>1 DEF Memory, IInv, TypeOK
  <2> HIDE DEF m
  <2>3. pc'[p] = step /\ mem'[p] = m
    BY <1>3, <2>1, <2>2, GotoTyped, MemTyped DEF IInv
  <2>4. OnItsWay(p)'
    BY <1>1, <1>3, <2>1, <2>2, <2>3
       DEF IInv, OnItsWay, Stay, Early, Checked, Unused, Busy, Calling
  <2> QED BY <1>1, <1>3, <2>1, <2>2, <2>4, StepOnly
<1> QED BY <1>2, <1>3 DEF FindActive

(* The index leaves room for one active session. *)
LEMMA CreateSessionKeeps == ASSUME IInv, NEW p \in Procs, CreateSession(p) PROVE IInv'
<1>1. /\ pc[p] = "create" /\ NoFault /\ UNCHANGED <<lapsed, used, key, roller, late>>
      /\ mem[p] \in Memory /\ p \in Starts /\ p \in Sessions /\ sess[p].status = "none"
  BY Constants DEF CreateSession, At, IInv, TypeOK, OnItsWay, Early
<1>2. CASE Goto(p, "done") /\ UNCHANGED <<sess, mem>>
  <2>1. pc'[p] = "done" /\ "done" \in Steps
    BY <1>2, GotoTyped DEF IInv, Steps
  <2>2. OnItsWay(p)'
    BY <1>1, <1>2, <2>1 DEF IInv, OnItsWay, Early, Checked, Unused, Busy, Calling
  <2> QED BY <1>1, <1>2, <2>1, <2>2, StepKeepsMemory DEF Stay
<1>3. CASE /\ ~ActiveExists
           /\ sess' = [sess EXCEPT ![p] = [NoSession EXCEPT !.status = "guest"]]
           /\ mem' = [mem EXCEPT ![p].s = p]
           /\ Goto(p, "attest")
  <2> DEFINE new == [NoSession EXCEPT !.status = "guest"]
             m == [mem[p] EXCEPT !.s = p]
  <2>1. new \in Session /\ new.status = "guest"
    <3>1. NoSession \in Session
      BY Constants DEF NoSession, Session, Statuses
    <3> QED BY <3>1 DEF Session, Statuses
  <2>2. m \in Memory /\ m.s = p /\ m.seen = mem[p].seen /\ mem' = [mem EXCEPT ![p] = m]
    BY <1>1, <1>3 DEF Memory, IInv, TypeOK
  <2> HIDE DEF new, m
  <2>3. sess' = [sess EXCEPT ![p] = new]
    BY <1>3 DEF new
  <2>4. /\ sess' \in [Sessions -> Session] /\ sess'[p].status = "guest"
        /\ \A s \in Sessions \ {p} : sess'[s] = sess[s]
    BY <1>1, <2>1, <2>3 DEF IInv, TypeOK
  <2>5. /\ pc' \in [Procs -> Steps] /\ pc'[p] = "attest"
        /\ \A q \in Procs \ {p} : pc'[q] = pc[q]
    BY <1>3, GotoTyped DEF IInv, Steps
  <2>6. /\ mem' \in [Procs -> Memory] /\ mem'[p] = m
        /\ \A q \in Procs \ {p} : mem'[q] = mem[q]
    BY <2>2, MemTyped DEF IInv
  <2>7. OnItsWay(p)'
    BY <1>1, <2>2, <2>5, <2>6
       DEF IInv, OnItsWay, Early, Checked, Unused, Busy, Calling
  <2>8. faults' \in 0..MaxFaults /\ crashes' \in 0..MaxCrashes
    BY <1>1, CountTyped DEF IInv
  <2>9. /\ \A s, t \in Sessions : sess'[s].status \in Active /\ sess'[t].status \in Active => s = t
        /\ \A s \in lapsed : sess'[s].status # "ready"
        /\ \A s \in Sessions : sess[s].status \in {"ready", "redeemed"}
                                => sess'[s].status = sess[s].status
        /\ \A s \in Sessions : sess'[s].status = "redeemed" => sess[s].status = "redeemed"
        /\ \A s \in Sessions \ {p} : sess[s].status = "none" => sess'[s].status = "none"
    <3>1. \A s \in Sessions : sess[s].status \notin Active
      BY <1>3 DEF ActiveExists
    <3> QED BY <1>1, <2>4, <3>1 DEF IInv, RowsAgree, TypeOK, Active
  <2> QED BY <1>1, <2>4, <2>5, <2>6, <2>7, <2>8, <2>9, SessionsKeep
<1> QED BY <1>2, <1>3 DEF CreateSession

LEMMA FindAttestationKeeps == ASSUME IInv, NEW p \in Procs, FindAttestation(p) PROVE IInv'
<1>1. PICK step \in {"ready", "done"} : Goto(p, step)
  BY DEF FindAttestation
<1>2. pc[p] = "attest" /\ Stay /\ NoFault /\ UNCHANGED mem /\ step \in Steps
  BY <1>1 DEF FindAttestation, At, Steps
<1>3. pc'[p] = step
  BY <1>1, <1>2, GotoTyped DEF IInv
<1>4. OnItsWay(p)'
  BY <1>1, <1>2, <1>3 DEF IInv, OnItsWay, Stay, Early, Checked, Unused, Busy, Calling
<1> QED BY <1>1, <1>2, <1>4, StepKeepsMemory

(* Only an open session becomes ready. *)
LEMMA MakeReadyKeeps == ASSUME IInv, NEW p \in Procs, MakeReady(p) PROVE IInv'
<1> DEFINE s == mem[p].s
<1>1. /\ pc[p] = "ready" /\ NoFault /\ UNCHANGED <<lapsed, used, key, roller, late, mem>>
      /\ s \in Sessions /\ sess[s] \in Session
  BY DEF MakeReady, At, IInv, TypeOK, OnItsWay, Early
<1>2. CASE Goto(p, "done") /\ UNCHANGED sess
  <2>1. pc'[p] = "done" /\ "done" \in Steps
    BY <1>2, GotoTyped DEF IInv, Steps
  <2>2. OnItsWay(p)'
    BY <1>1, <1>2, <2>1 DEF IInv, OnItsWay, Early, Checked, Unused, Busy, Calling
  <2> QED BY <1>1, <1>2, <2>1, <2>2, StepKeepsMemory DEF Stay
<1>3. ASSUME Open(s), Goto(p, "dispatch"), NEW n \in BOOLEAN,
             sess' = [sess EXCEPT ![s].status = "ready", ![s].number = n]
      PROVE  IInv'
  <2> DEFINE new == [sess[s] EXCEPT !.status = "ready", !.number = n]
  <2>1. new \in Session /\ new.status = "ready" /\ sess' = [sess EXCEPT ![s] = new]
    BY <1>1, <1>3 DEF Session, Statuses, IInv, TypeOK
  <2> HIDE DEF new
  <2>2. /\ sess' \in [Sessions -> Session] /\ sess'[s].status = "ready"
        /\ \A t \in Sessions \ {s} : sess'[t] = sess[t]
        /\ sess[s].status \in Active /\ s \notin lapsed
    BY <1>1, <1>3, <2>1 DEF IInv, TypeOK, Open
  <2>3. /\ pc' \in [Procs -> Steps] /\ pc'[p] = "dispatch"
        /\ \A q \in Procs \ {p} : pc'[q] = pc[q]
    BY <1>3, GotoTyped DEF IInv, Steps
  <2>4. OnItsWay(p)'
    BY <1>1, <2>3 DEF IInv, OnItsWay, Early, Checked, Unused, Busy, Calling
  <2>5. faults' \in 0..MaxFaults /\ crashes' \in 0..MaxCrashes
    BY <1>1, CountTyped DEF IInv
  <2>6. /\ \A t, u \in Sessions : sess'[t].status \in Active /\ sess'[u].status \in Active => t = u
        /\ \A t \in lapsed : sess'[t].status # "ready"
        /\ \A t \in Sessions : sess[t].status \in {"ready", "redeemed"}
                                => sess'[t].status = sess[t].status
        /\ \A t \in Sessions : sess'[t].status = "redeemed" => sess[t].status = "redeemed"
        /\ \A t \in Sessions \ {p} : sess[t].status = "none" => sess'[t].status = "none"
    BY <1>1, <2>2 DEF IInv, RowsAgree, TypeOK, Active
  <2> QED BY <1>1, <2>2, <2>3, <2>4, <2>5, <2>6, SessionsKeep DEF IInv, TypeOK
<1> QED BY <1>2, <1>3 DEF MakeReady

LEMMA DispatchKeeps == ASSUME IInv, NEW p \in Procs, Dispatch(p) PROVE IInv'
<1>1. pc[p] = "dispatch" /\ Stay /\ mem[p] \in Memory /\ mem[p].s \in Sessions
  BY DEF Dispatch, At, IInv, TypeOK, OnItsWay, Early
<1>2. CASE Goto(p, "done") /\ Loss /\ UNCHANGED mem
  <2>1. pc'[p] = "done" /\ "done" \in Steps
    BY <1>2, GotoTyped DEF IInv, Steps
  <2>2. OnItsWay(p)'
    BY <1>1, <1>2, <2>1 DEF IInv, OnItsWay, Stay, Early, Checked, Unused, Busy, Calling
  <2> QED BY <1>1, <1>2, <2>1, <2>2, StepKeepsMemory
<1>3. CASE mem' = [mem EXCEPT ![p].tries = 1] /\ Goto(p, "precheck") /\ NoFault
  <2> DEFINE m == [mem[p] EXCEPT !.tries = 1]
  <2>1. 1 \in 0..Tries
    BY Constants
  <2>2. /\ m \in Memory /\ m.s = mem[p].s /\ m.seen = mem[p].seen
        /\ mem' = [mem EXCEPT ![p] = m]
    BY <1>1, <1>3, <2>1 DEF Memory, IInv, TypeOK
  <2> HIDE DEF m
  <2>3. pc'[p] = "precheck" /\ mem'[p] = m /\ "precheck" \in Steps
    BY <1>3, <2>2, GotoTyped, MemTyped DEF IInv, Steps
  <2>4. OnItsWay(p)'
    BY <1>1, <2>2, <2>3
       DEF IInv, OnItsWay, Stay, Early, Checked, Unused, Busy, Calling
  <2> QED BY <1>1, <1>3, <2>2, <2>3, <2>4, StepOnly
<1> QED BY <1>2, <1>3 DEF Dispatch

(* Ready requests and confirmations of a purchase. *)
LEMMA ReadyRequestKeeps ==
  ASSUME IInv, NEW p \in Procs, NEW s \in Sessions, ReadyRequest(p, s) PROVE IInv'
<1>1. /\ p \in Readies /\ pc[p] = "idle" /\ Stay /\ NoFault /\ mem[p] \in Memory
      /\ mem' = [mem EXCEPT ![p].s = s]
  BY DEF ReadyRequest, At, IInv, TypeOK
<1>2. PICK step \in {"lapse", "ready", "done"} :
        Goto(p, step) /\ (step = "lapse" => s \in lapsed)
  BY DEF ReadyRequest
<1> DEFINE m == [mem[p] EXCEPT !.s = s]
<1>3. m \in Memory /\ m.s = s /\ m.seen = mem[p].seen /\ mem' = [mem EXCEPT ![p] = m]
  BY <1>1 DEF Memory, IInv, TypeOK
<1> HIDE DEF m
<1>4. pc'[p] = step /\ mem'[p] = m /\ step \in Steps
  BY <1>2, <1>3, GotoTyped, MemTyped DEF IInv, Steps
<1>5. OnItsWay(p)'
  BY <1>1, <1>2, <1>3, <1>4 DEF IInv, OnItsWay, Stay, Early, Checked, Unused, Busy, Calling
<1> QED BY <1>1, <1>2, <1>3, <1>4, <1>5, StepOnly

LEMMA MarkExpiredKeeps == ASSUME IInv, NEW p \in Procs, MarkExpired(p) PROVE IInv'
<1> DEFINE s == mem[p].s
<1>1. /\ pc[p] = "lapse" /\ NoFault /\ UNCHANGED <<lapsed, used, key, roller, late, mem>>
      /\ s \in Sessions /\ s \in lapsed /\ sess[s] \in Session /\ Goto(p, "done")
  BY DEF MarkExpired, At, IInv, TypeOK, OnItsWay, Early
<1>2. /\ pc' \in [Procs -> Steps] /\ pc'[p] = "done"
      /\ \A q \in Procs \ {p} : pc'[q] = pc[q]
  BY <1>1, GotoTyped DEF IInv, Steps
<1>3. OnItsWay(p)'
  BY <1>1, <1>2 DEF IInv, OnItsWay, Early, Checked, Unused, Busy, Calling
<1>4. /\ sess' \in [Sessions -> Session]
      /\ \A t \in Sessions : sess'[t] = sess[t] \/ (/\ sess[t].status \in Active /\ t \in lapsed
                                                  /\ sess'[t].status = "expired")
  <2>1. CASE sess[s].status \in Active
    <3> DEFINE new == [sess[s] EXCEPT !.status = "expired"]
    <3>1. new \in Session /\ new.status = "expired" /\ sess' = [sess EXCEPT ![s] = new]
      BY <1>1, <2>1 DEF Session, Statuses, IInv, TypeOK, MarkExpired
    <3> HIDE DEF new
    <3> QED BY <1>1, <2>1, <3>1 DEF IInv, TypeOK
  <2>2. CASE sess[s].status \notin Active
    BY <2>2 DEF MarkExpired, IInv, TypeOK
  <2> QED BY <2>1, <2>2
<1>5. \A t \in lapsed : sess[t].status # "ready"
  BY DEF IInv, RowsAgree
<1>6. /\ \A t \in Sessions : sess'[t].status \in Active => sess'[t] = sess[t]
      /\ \A t \in lapsed : sess'[t].status # "ready"
      /\ \A t \in Sessions : sess[t].status \in {"ready", "redeemed"}
                              => sess'[t].status = sess[t].status
      /\ \A t \in Sessions : sess'[t].status = "redeemed" => sess[t].status = "redeemed"
      /\ \A t \in Sessions \ {p} : sess[t].status = "none" => sess'[t].status = "none"
  BY <1>4, <1>5 DEF Active, IInv, TypeOK
<1>7. \A t, u \in Sessions : sess'[t].status \in Active /\ sess'[u].status \in Active => t = u
  BY <1>6 DEF IInv, RowsAgree
<1>8. faults' \in 0..MaxFaults /\ crashes' \in 0..MaxCrashes
  BY <1>1, CountTyped DEF IInv
<1> QED BY <1>1, <1>2, <1>3, <1>4, <1>6, <1>7, <1>8, SessionsKeep DEF IInv, TypeOK

(* A step that changes other fields of one session than its status.          *)
LEMMA FieldKeeps ==
  ASSUME IInv, NEW p \in Procs, NEW s \in Sessions, NEW new \in Session,
         sess' = [sess EXCEPT ![s] = new], new.status = sess[s].status,
         UNCHANGED <<lapsed, used, key, roller, late>>, NoFault,
         NEW step \in Steps, Goto(p, step), NEW m \in Memory, mem' = [mem EXCEPT ![p] = m],
         OnItsWay(p)'
  PROVE  IInv'
<1>1. /\ sess' \in [Sessions -> Session]
      /\ \A t \in Sessions : sess'[t].status = sess[t].status
  BY DEF IInv, TypeOK
<1>2. /\ pc' \in [Procs -> Steps] /\ mem' \in [Procs -> Memory]
      /\ \A q \in Procs \ {p} : pc'[q] = pc[q] /\ mem'[q] = mem[q]
  BY GotoTyped, MemTyped DEF IInv
<1>3. faults' \in 0..MaxFaults /\ crashes' \in 0..MaxCrashes
  BY CountTyped DEF IInv
<1>4. /\ \A t, u \in Sessions : sess'[t].status \in Active /\ sess'[u].status \in Active => t = u
      /\ \A t \in lapsed : sess'[t].status # "ready"
  BY <1>1 DEF IInv, RowsAgree, TypeOK
<1> QED BY <1>1, <1>2, <1>3, <1>4, SessionsKeep

LEMMA ConfirmBookingKeeps ==
  ASSUME IInv, NEW p \in Procs, NEW s \in Sessions, ConfirmBooking(p, s) PROVE IInv'
<1>1. /\ p \in Confirms /\ pc[p] = "idle" /\ Goto(p, "dispatch") /\ NoFault
      /\ UNCHANGED <<lapsed, used, key, roller, late>>
      /\ mem[p] \in Memory /\ sess[s] \in Session
  BY DEF ConfirmBooking, At, IInv, TypeOK
<1> DEFINE new == [sess[s] EXCEPT !.sync = "confirmed"]
           m == [mem[p] EXCEPT !.s = s]
<1>2. /\ new \in Session /\ new.status = sess[s].status /\ sess' = [sess EXCEPT ![s] = new]
  BY <1>1 DEF Session, ConfirmBooking, IInv, TypeOK
<1>3. m \in Memory /\ m.s = s /\ m.seen = mem[p].seen /\ mem' = [mem EXCEPT ![p] = m]
  BY <1>1 DEF Memory, ConfirmBooking, IInv, TypeOK
<1> HIDE DEF new, m
<1>4. pc'[p] = "dispatch" /\ mem'[p] = m /\ "dispatch" \in Steps
  BY <1>1, <1>3, GotoTyped, MemTyped DEF IInv, Steps
<1>5. OnItsWay(p)'
  BY <1>1, <1>3, <1>4 DEF IInv, OnItsWay, Early, Checked, Unused, Busy, Calling
<1> QED BY <1>1, <1>2, <1>3, <1>4, <1>5, FieldKeeps

-----------------------------------------------------------------------------
(* The redeem lambda.                                                        *)

LEMMA PrecheckKeeps == ASSUME IInv, NEW p \in Procs, Precheck(p) PROVE IInv'
<1>1. PICK step \in {"receipt", "done"} : Goto(p, step) /\ (step = "receipt" => Admissible(mem[p].s))
  BY DEF Precheck
<1>2. pc[p] = "precheck" /\ Stay /\ NoFault /\ UNCHANGED mem /\ step \in Steps
  BY <1>1 DEF Precheck, At, Steps
<1>3. pc'[p] = step
  BY <1>1, <1>2, GotoTyped DEF IInv
<1>4. OnItsWay(p)'
  BY <1>1, <1>2, <1>3
     DEF IInv, OnItsWay, Stay, Early, Checked, Unused, Busy, Calling, Admissible
<1> QED BY <1>1, <1>2, <1>4, StepKeepsMemory

LEMMA StaffRequestKeeps ==
  ASSUME IInv, NEW p \in Procs, NEW s \in Sessions, StaffRequest(p, s) PROVE IInv'
<1>1. /\ p \in Staff /\ pc[p] = "idle" /\ Stay /\ NoFault /\ mem[p] \in Memory
      /\ mem' = [mem EXCEPT ![p].s = s]
  BY DEF StaffRequest, At, IInv, TypeOK
<1>2. PICK step \in {"receipt", "done"} : Goto(p, step) /\ (step = "receipt" => Admissible(s))
  BY DEF StaffRequest
<1> DEFINE m == [mem[p] EXCEPT !.s = s]
<1>3. m \in Memory /\ m.s = s /\ m.seen = mem[p].seen /\ mem' = [mem EXCEPT ![p] = m]
  BY <1>1 DEF Memory, IInv, TypeOK
<1> HIDE DEF m
<1>4. pc'[p] = step /\ mem'[p] = m /\ step \in Steps
  BY <1>2, <1>3, GotoTyped, MemTyped DEF IInv, Steps
<1>5. OnItsWay(p)'
  BY <1>1, <1>2, <1>3, <1>4
     DEF IInv, OnItsWay, Stay, Early, Checked, Unused, Busy, Calling, Admissible
<1> QED BY <1>1, <1>2, <1>3, <1>4, <1>5, StepOnly

LEMMA FindReceiptKeeps == ASSUME IInv, NEW p \in Procs, FindReceipt(p) PROVE IInv'
<1>1. PICK step \in {"finalize", "context"} :
        Goto(p, step) /\ (step = "finalize" => key[mem[p].s].status = "succeeded")
  BY DEF FindReceipt
<1>2. /\ pc[p] = "receipt" /\ Stay /\ NoFault /\ UNCHANGED mem /\ step \in Steps
      /\ mem[p].s \in Sessions /\ sess[mem[p].s].status \in {"ready", "redeemed"}
  BY <1>1 DEF FindReceipt, At, Steps, IInv, OnItsWay, Early, Checked
<1>3. pc'[p] = step
  BY <1>1, <1>2, GotoTyped DEF IInv
<1>4. step = "finalize" => sess[mem[p].s].status = "redeemed" /\ roller = Batches
  BY <1>1, <1>2 DEF IInv, RowsAgree
<1>5. OnItsWay(p)'
  BY <1>1, <1>2, <1>3, <1>4
     DEF IInv, OnItsWay, Stay, Early, Checked, Unused, Busy, Calling
<1> QED BY <1>1, <1>2, <1>5, StepKeepsMemory

(* An attempt that goes no further changes rows neither of its session nor   *)
(* of ROLLER, but for what it did on the way.                                *)
LEMMA FailsTyped ==
  ASSUME TypeOK, NEW p \in Procs, NEW again \in BOOLEAN, Fails(p, again)
  PROVE  /\ pc' \in [Procs -> Steps] /\ pc'[p] \in {"done", "fail"}
         /\ mem' \in [Procs -> Memory] /\ mem'[p].s = mem[p].s /\ mem'[p].seen = {}
         /\ mem'[p].tries = mem[p].tries
         /\ \A q \in Procs \ {p} : pc'[q] = pc[q] /\ mem'[q] = mem[q]
<1> DEFINE m == [mem[p] EXCEPT !.seen = {}, !.left = {}, !.again = again]
<1>1. m \in Memory /\ m.s = mem[p].s /\ m.seen = {} /\ m.tries = mem[p].tries
  BY MemoryParts DEF Memory
<1>2. mem' = [mem EXCEPT ![p] = m]
  BY DEF Fails
<1> HIDE DEF m
<1>3. PICK step \in {"done", "fail"} : Goto(p, step)
  BY DEF Fails
<1>4. step \in Steps
  BY <1>3 DEF Steps
<1> QED BY <1>1, <1>2, <1>3, <1>4, GotoTyped, MemTyped

LEMMA FailsKeeps ==
  ASSUME IInv, NEW p \in Procs, NEW again \in BOOLEAN, Fails(p, again),
         pc[p] \in Checked, UNCHANGED <<sess, lapsed, used, key>>,
         roller \subseteq roller', roller' \subseteq Batches, late' \subseteq Batches,
         NoFault \/ Fault
  PROVE  IInv'
<1>1. /\ pc' \in [Procs -> Steps] /\ pc'[p] \in {"done", "fail"}
      /\ mem' \in [Procs -> Memory] /\ mem'[p].s = mem[p].s /\ mem'[p].seen = {}
      /\ mem'[p].tries = mem[p].tries
      /\ \A q \in Procs \ {p} : pc'[q] = pc[q] /\ mem'[q] = mem[q]
  BY FailsTyped DEF IInv
<1>2. mem[p].s \in Sessions
  BY DEF IInv, OnItsWay, Checked, Unused, Busy, Calling, Early
<1>3. OnItsWay(p)'
  BY <1>1, <1>2 DEF OnItsWay, Early, Checked, Unused, Busy, Calling
<1>4. faults' \in 0..MaxFaults /\ crashes' \in 0..MaxCrashes
  BY CountTyped DEF IInv
<1> QED BY <1>1, <1>3, <1>4, MoveKeeps

LEMMA ReadContextKeeps == ASSUME IInv, NEW p \in Procs, ReadContext(p) PROVE IInv'
<1>1. /\ pc[p] \in {"context", "reread"} /\ Stay /\ NoFault /\ pc[p] \in Checked
      /\ mem[p].s \in Sessions
  BY DEF ReadContext, Checked, Unused, IInv, OnItsWay, Early
<1>2. CASE Fails(p, FALSE)
  BY <1>1, <1>2, FailsKeeps DEF Stay, IInv, TypeOK
<1>3. CASE /\ ~used /\ UNCHANGED mem
           /\ Goto(p, IF At(p, "context") THEN "refresh" ELSE "reserve")
  <2>1. PICK step \in {"refresh", "reserve"} : Goto(p, step)
    BY <1>3
  <2>2. pc'[p] = step /\ step \in Steps
    BY <2>1, GotoTyped DEF IInv, Steps
  <2>3. OnItsWay(p)'
    BY <1>1, <1>3, <2>2 DEF IInv, OnItsWay, Stay, Early, Checked, Unused, Busy, Calling
  <2> QED BY <1>1, <1>3, <2>1, <2>2, <2>3, StepKeepsMemory
<1> QED BY <1>2, <1>3 DEF ReadContext, Blocked

LEMMA RefreshKeeps == ASSUME IInv, NEW p \in Procs, Refresh(p) PROVE IInv'
<1>1. /\ pc[p] = "refresh" /\ Stay /\ pc[p] \in Checked /\ mem[p].s \in Sessions
      /\ mem[p] \in Memory
  BY DEF Refresh, At, Checked, Unused, IInv, OnItsWay, Early, TypeOK
<1>2. ASSUME NEW seen \in Shown, mem' = [mem EXCEPT ![p].seen = seen], Goto(p, "reread"), NoFault
      PROVE  IInv'
  <2>1. seen \subseteq roller /\ seen \in SUBSET Batches
    BY <1>2 DEF Shown, IInv, TypeOK
  <2> DEFINE m == [mem[p] EXCEPT !.seen = seen]
  <2>2. /\ m \in Memory /\ m.s = mem[p].s /\ m.seen = seen /\ m.tries = mem[p].tries
        /\ mem' = [mem EXCEPT ![p] = m]
    BY <1>1, <1>2, <2>1 DEF Memory, IInv, TypeOK
  <2> HIDE DEF m
  <2>3. pc'[p] = "reread" /\ mem'[p] = m /\ "reread" \in Steps
    BY <1>2, <2>2, GotoTyped, MemTyped DEF IInv, Steps
  <2>4. OnItsWay(p)'
    BY <1>1, <2>1, <2>2, <2>3 DEF IInv, OnItsWay, Stay, Early, Checked, Unused, Busy, Calling
  <2> QED BY <1>1, <1>2, <2>2, <2>3, <2>4, StepOnly
<1>3. ASSUME NEW again \in BOOLEAN, Fault, Fails(p, again) PROVE IInv'
  BY <1>1, <1>3, FailsKeeps DEF Stay, IInv, TypeOK
<1> QED BY <1>2, <1>3 DEF Refresh

-----------------------------------------------------------------------------
(* The idempotency key.                                                      *)

(* Forgetting is typed. *)
LEMMA ForgetTyped ==
  ASSUME TypeOK, NEW p \in Procs, mem' = Forget(p)
  PROVE  /\ mem' \in [Procs -> Memory] /\ mem'[p].s = mem[p].s /\ mem'[p].seen = {}
         /\ mem'[p].tries = mem[p].tries
         /\ \A q \in Procs \ {p} : mem'[q] = mem[q]
<1> DEFINE m == [mem[p] EXCEPT !.seen = {}, !.left = {}, !.again = FALSE]
<1>1. m \in Memory /\ m.s = mem[p].s /\ m.seen = {} /\ m.tries = mem[p].tries
  BY MemoryParts DEF Memory
<1>2. mem' = [mem EXCEPT ![p] = m]
  BY DEF Forget
<1> HIDE DEF m
<1> QED BY <1>1, <1>2, MemTyped

(* A process that is done knows no more than its session. *)
LEMMA DoneKeeps ==
  ASSUME IInv, NEW p \in Procs, Goto(p, "done"), mem' = Forget(p), Stay, NoFault,
         mem[p].s \in Sessions
  PROVE  IInv'
<1>1. /\ pc' \in [Procs -> Steps] /\ pc'[p] = "done"
      /\ \A q \in Procs \ {p} : pc'[q] = pc[q]
  BY GotoTyped DEF IInv, Steps
<1>2. /\ mem' \in [Procs -> Memory] /\ mem'[p].s = mem[p].s /\ mem'[p].seen = {}
      /\ mem'[p].tries = mem[p].tries
      /\ \A q \in Procs \ {p} : mem'[q] = mem[q]
  BY ForgetTyped DEF IInv
<1>3. OnItsWay(p)'
  BY <1>1, <1>2 DEF OnItsWay, Early, Checked, Unused, Busy, Calling
<1>4. faults' \in 0..MaxFaults /\ crashes' \in 0..MaxCrashes
  BY CountTyped DEF IInv
<1> QED BY <1>1, <1>2, <1>3, <1>4, MoveKeeps DEF Stay, IInv, TypeOK

(* Taking a key that is neither fresh nor a receipt: the session is ready,   *)
(* nobody else redeems it, and ROLLER has what is not sent again.            *)
LEMMA TakeKeeps ==
  ASSUME IInv, NEW p \in Procs, pc[p] \in {"reserve", "takeover"},
         NEW continued \in BOOLEAN, Take(p), Proceed(p, continued),
         LET k == key[mem[p].s] IN
           k.status \in {"none", "failed"} \/ (k.status = "in_progress" /\ k.stale),
         NoFault, UNCHANGED <<sess, lapsed, used, roller, late>>
  PROVE  IInv'
<1> DEFINE s == mem[p].s
           k == [status |-> "in_progress", holder |-> p, stale |-> FALSE]
           left == IF AllIn(mem[p].seen) THEN {} ELSE LeftToSend(p, continued)
           m == [mem[p] EXCEPT !.seen = {}, !.left = left]
           step == IF AllIn(mem[p].seen) THEN "finalize" ELSE "post"
<1>1. /\ s \in Sessions /\ sess[s].status \in {"ready", "redeemed"}
      /\ ~used \/ (sess[s].status = "redeemed" /\ mem[p].seen \subseteq roller)
  BY DEF IInv, OnItsWay, Early, Checked, Unused
<1>2. mem[p].seen \subseteq roller /\ roller \subseteq Batches
  BY DEF IInv, OnItsWay, TypeOK
<1>3. key[s].status # "succeeded" /\ sess[s].status = "ready" /\ ~used
  BY <1>1 DEF IInv, RowsAgree
<1>4. k \in Key /\ k.status # "succeeded" /\ key' = [key EXCEPT ![s] = k]
  BY DEF Key, Take
<1>5. left \in SUBSET Batches
  BY DEF LeftToSend
<1>6. /\ m \in Memory /\ m.s = s /\ m.seen = {} /\ m.left = left /\ m.tries = mem[p].tries
      /\ mem' = [mem EXCEPT ![p] = m]
  BY <1>5, MemoryParts DEF IInv, Memory, Proceed
<1>7. Goto(p, step) /\ step \in {"finalize", "post"} /\ step \in Steps
  BY DEF Proceed, Steps, Calling
<1>8. step = "finalize" => roller = Batches
  BY <1>2 DEF AllIn
<1>9. step = "post" => Batches \ left \subseteq roller
  BY <1>2 DEF LeftToSend
<1> HIDE DEF k, m, left, step
<1>10. /\ pc' \in [Procs -> Steps] /\ pc'[p] = step
       /\ mem' \in [Procs -> Memory] /\ mem'[p] = m
       /\ \A q \in Procs \ {p} : pc'[q] = pc[q] /\ mem'[q] = mem[q]
  BY <1>6, <1>7, GotoTyped, MemTyped DEF IInv
<1>11. key'[s] = k
  BY <1>1, <1>4 DEF IInv, TypeOK
<1>12. Holds(p)'
  BY <1>3, <1>6, <1>10, <1>11 DEF Holds, k
<1>13. OnItsWay(p)'
  BY <1>1, <1>3, <1>6, <1>7, <1>8, <1>9, <1>10, <1>12
     DEF OnItsWay, Early, Checked, Unused, Busy, Calling
<1>14. \A q \in Procs \ {p} : pc[q] \in Busy /\ Holds(q) => mem[q].s # s
  BY DEF Holds
<1>15. faults' \in 0..MaxFaults /\ crashes' \in 0..MaxCrashes
  BY CountTyped DEF IInv
<1> QED BY <1>1, <1>3, <1>4, <1>10, <1>13, <1>14, <1>15, KeyKeeps

LEMMA ReserveKeeps == ASSUME IInv, NEW p \in Procs, Reserve(p) PROVE IInv'
<1>1. pc[p] = "reserve" /\ NoFault /\ UNCHANGED <<sess, lapsed, used, roller, late>>
  BY DEF Reserve, At
<1>2. CASE key[mem[p].s].status = "none"
  BY <1>1, <1>2, TakeKeeps DEF Reserve
<1>3. CASE key[mem[p].s].status # "none"
  <2>1. Goto(p, "claim") /\ UNCHANGED <<key, mem>>
    BY <1>3 DEF Reserve
  <2>2. pc'[p] = "claim" /\ "claim" \in Steps
    BY <2>1, GotoTyped DEF IInv, Steps
  <2>3. OnItsWay(p)'
    BY <1>1, <2>1, <2>2 DEF IInv, OnItsWay, Early, Checked, Unused, Busy, Calling
  <2> QED BY <1>1, <2>1, <2>2, <2>3, StepKeepsMemory DEF Stay
<1> QED BY <1>2, <1>3

LEMMA ReadKeyKeeps == ASSUME IInv, NEW p \in Procs, ReadKey(p) PROVE IInv'
<1> DEFINE k == key[mem[p].s]
<1>1. /\ pc[p] = "claim" /\ Stay /\ NoFault /\ mem[p].s \in Sessions
      /\ sess[mem[p].s].status \in {"ready", "redeemed"}
  BY DEF ReadKey, At, IInv, OnItsWay, Early, Checked, Unused
<1>2. CASE k.status = "succeeded"
  <2>1. Goto(p, "finalize") /\ mem' = Forget(p)
    BY <1>2 DEF ReadKey
  <2>2. /\ pc' \in [Procs -> Steps] /\ pc'[p] = "finalize"
        /\ \A q \in Procs \ {p} : pc'[q] = pc[q]
    BY <2>1, GotoTyped DEF IInv, Steps
  <2>3. /\ mem' \in [Procs -> Memory] /\ mem'[p].s = mem[p].s /\ mem'[p].seen = {}
        /\ mem'[p].tries = mem[p].tries
        /\ \A q \in Procs \ {p} : mem'[q] = mem[q]
    BY <2>1, ForgetTyped DEF IInv
  <2>4. sess[mem[p].s].status = "redeemed" /\ roller = Batches
    BY <1>1, <1>2 DEF IInv, RowsAgree
  <2>5. OnItsWay(p)'
    BY <1>1, <2>2, <2>3, <2>4 DEF OnItsWay, Stay, Early, Checked, Unused, Busy, Calling
  <2>6. faults' \in 0..MaxFaults /\ crashes' \in 0..MaxCrashes
    BY <1>1, CountTyped DEF IInv
  <2> QED BY <1>1, <2>2, <2>3, <2>5, <2>6, MoveKeeps DEF Stay, IInv, TypeOK
<1>3. CASE k.status = "in_progress" /\ ~k.stale
  <2>1. Goto(p, "done") /\ mem' = Forget(p)
    BY <1>3 DEF ReadKey
  <2> QED BY <1>1, <2>1, DoneKeeps
<1>4. CASE ~(k.status = "succeeded" \/ (k.status = "in_progress" /\ ~k.stale))
  <2>1. Goto(p, "takeover") /\ UNCHANGED mem
    BY <1>4 DEF ReadKey
  <2>2. pc'[p] = "takeover" /\ "takeover" \in Steps
    BY <2>1, GotoTyped DEF IInv, Steps
  <2>3. OnItsWay(p)'
    BY <1>1, <2>1, <2>2 DEF IInv, OnItsWay, Stay, Early, Checked, Unused, Busy, Calling
  <2> QED BY <1>1, <2>1, <2>2, <2>3, StepKeepsMemory
<1> QED BY <1>2, <1>3, <1>4

LEMMA TakeOverKeeps == ASSUME IInv, NEW p \in Procs, TakeOver(p) PROVE IInv'
<1>1. /\ pc[p] = "takeover" /\ NoFault /\ UNCHANGED <<sess, lapsed, used, roller, late>>
      /\ mem[p].s \in Sessions
  BY DEF TakeOver, At, IInv, OnItsWay, Early
<1>2. CASE Takeable(key[mem[p].s])
  BY <1>1, <1>2, TakeKeeps DEF TakeOver, Takeable
<1>3. CASE ~Takeable(key[mem[p].s])
  <2>1. Goto(p, "done") /\ mem' = Forget(p) /\ UNCHANGED key
    BY <1>3 DEF TakeOver
  <2> QED BY <1>1, <2>1, DoneKeeps DEF Stay
<1> QED BY <1>2, <1>3

-----------------------------------------------------------------------------
(* The calls of ROLLER.                                                      *)

(* A step of the caller that holds the key, to a step at which it still      *)
(* does; ROLLER may have let a batch in meanwhile.                           *)
LEMMA CallerKeeps ==
  ASSUME IInv, NEW p \in Procs, pc[p] \in Calling, UNCHANGED <<sess, lapsed, used, key, late>>,
         roller \subseteq roller', roller' \subseteq Batches, NoFault \/ Fault,
         NEW step \in Busy, Goto(p, step),
         NEW m \in Memory, mem' = [mem EXCEPT ![p] = m],
         m.s = mem[p].s, m.seen = mem[p].seen, m.tries = mem[p].tries,
         step = "finalize" => roller' = Batches,
         step = "post" => Batches \ m.left \subseteq roller'
  PROVE  IInv'
<1>1. step \in Steps
  BY DEF Busy, Steps
<1>2. /\ pc' \in [Procs -> Steps] /\ pc'[p] = step
      /\ mem' \in [Procs -> Memory] /\ mem'[p] = m
      /\ \A q \in Procs \ {p} : pc'[q] = pc[q] /\ mem'[q] = mem[q]
  BY <1>1, GotoTyped, MemTyped DEF IInv
<1>3. /\ mem[p].s \in Sessions /\ sess[mem[p].s].status = "ready" /\ Holds(p)
      /\ mem[p].seen \subseteq roller
  BY DEF IInv, OnItsWay, Early, Calling, Holds
<1>4. Holds(p)'
  BY <1>2, <1>3 DEF Holds
<1>5. OnItsWay(p)'
  BY <1>2, <1>3, <1>4 DEF OnItsWay, Early, Checked, Unused, Busy, Calling
<1>6. faults' \in 0..MaxFaults /\ crashes' \in 0..MaxCrashes
  BY CountTyped DEF IInv
<1> QED BY <1>2, <1>5, <1>6, MoveKeeps DEF IInv, TypeOK

LEMMA PostKeeps == ASSUME IInv, NEW p \in Procs, NEW b \in Batches, Post(p, b) PROVE IInv'
<1>1. /\ pc[p] = "post" /\ pc[p] \in Calling /\ pc[p] \in Checked
      /\ UNCHANGED <<sess, lapsed, used, key>> /\ b \in mem[p].left
      /\ Batches \ mem[p].left \subseteq roller /\ roller \subseteq Batches /\ late \subseteq Batches
  BY DEF Post, At, NextBatch, Calling, Checked, Busy, IInv, OnItsWay, TypeOK
<1>2. CASE /\ roller' = roller \cup {b} /\ mem' = [mem EXCEPT ![p].left = @ \ {b}]
           /\ Goto(p, IF mem[p].left = {b} THEN "finalize" ELSE "post")
           /\ NoFault /\ UNCHANGED late
  <2> DEFINE m == [mem[p] EXCEPT !.left = @ \ {b}]
             step == IF mem[p].left = {b} THEN "finalize" ELSE "post"
  <2>1. /\ m \in Memory /\ m.s = mem[p].s /\ m.seen = mem[p].seen /\ m.tries = mem[p].tries
        /\ m.left = mem[p].left \ {b}
    BY MemoryParts DEF IInv, Memory
  <2>2. mem' = [mem EXCEPT ![p] = m] /\ Goto(p, step) /\ step \in Busy
    BY <1>2 DEF IInv, TypeOK, Busy, Calling
  <2>3. /\ step = "finalize" => roller' = Batches
        /\ step = "post" => Batches \ m.left \subseteq roller'
    BY <1>1, <1>2, <2>1
  <2> HIDE DEF m, step
  <2> QED BY <1>1, <1>2, <2>1, <2>2, <2>3, CallerKeeps
<1>3. CASE /\ NoFault \/ Fault
           /\ mem' = [mem EXCEPT ![p].left = {}]
           /\ Goto(p, "after409") /\ UNCHANGED <<roller, late>>
  <2> DEFINE m == [mem[p] EXCEPT !.left = {}]
  <2>1. m \in Memory /\ m.s = mem[p].s /\ m.seen = mem[p].seen /\ m.tries = mem[p].tries
    BY MemoryParts DEF IInv, Memory
  <2>2. mem' = [mem EXCEPT ![p] = m] /\ "after409" \in Busy
    BY <1>3 DEF IInv, TypeOK, Busy, Calling
  <2> HIDE DEF m
  <2>3. "after409" # "finalize" /\ "after409" # "post" /\ Goto(p, "after409")
    BY <1>3
  <2>4. UNCHANGED <<sess, lapsed, used, key, late>> /\ roller \subseteq roller'
        /\ roller' \subseteq Batches /\ (NoFault \/ Fault)
    BY <1>1, <1>3
  <2> QED BY <1>1, <2>1, <2>2, <2>3, <2>4, CallerKeeps
<1>4. CASE /\ Fault /\ roller' \in {roller, roller \cup {b}}
           /\ mem' = [mem EXCEPT ![p] = [@ EXCEPT !.left = {}, !.again = TRUE]]
           /\ Goto(p, "unkey") /\ UNCHANGED late
  <2> DEFINE m == [mem[p] EXCEPT !.left = {}, !.again = TRUE]
  <2>1. m \in Memory /\ m.s = mem[p].s /\ m.seen = mem[p].seen /\ m.tries = mem[p].tries
    BY MemoryParts DEF IInv, Memory
  <2>2. mem' = [mem EXCEPT ![p] = m] /\ "unkey" \in Busy
    BY <1>4 DEF Busy, Calling
  <2> HIDE DEF m
  <2>3. "unkey" # "finalize" /\ "unkey" # "post" /\ Goto(p, "unkey")
    BY <1>4
  <2>4. UNCHANGED <<sess, lapsed, used, key, late>> /\ roller \subseteq roller'
        /\ roller' \subseteq Batches /\ (NoFault \/ Fault)
    BY <1>1, <1>4
  <2> QED BY <1>1, <2>1, <2>2, <2>3, <2>4, CallerKeeps
<1>5. CASE /\ Fault /\ Fails(p, TRUE)
           /\ \/ roller' \in {roller, roller \cup {b}} /\ UNCHANGED late
              \/ late' = late \cup {b} /\ UNCHANGED roller
  <2>1. roller \subseteq roller' /\ roller' \subseteq Batches /\ late' \subseteq Batches
    BY <1>1, <1>5
  <2> QED BY <1>1, <1>5, <2>1, FailsKeeps
<1> QED BY <1>2, <1>3, <1>4, <1>5 DEF Post

LEMMA RecheckKeeps == ASSUME IInv, NEW p \in Procs, Recheck(p) PROVE IInv'
<1>1. /\ pc[p] = "after409" /\ pc[p] \in Calling /\ pc[p] \in Checked /\ Stay
      /\ roller \subseteq Batches /\ late \subseteq Batches
  BY DEF Recheck, At, Calling, Checked, Busy, IInv, TypeOK
<1> DEFINE m == [mem[p] EXCEPT !.again = FALSE]
<1>2. m \in Memory /\ m.s = mem[p].s /\ m.seen = mem[p].seen /\ m.tries = mem[p].tries
  BY MemoryParts DEF IInv, Memory
<1>3. ASSUME mem' = [mem EXCEPT ![p].again = FALSE] PROVE mem' = [mem EXCEPT ![p] = m]
  BY <1>3 DEF IInv, TypeOK
<1> HIDE DEF m
<1>4. ASSUME NEW step \in {"finalize", "unkey"}, Goto(p, step), NoFault \/ Fault,
             mem' = [mem EXCEPT ![p].again = FALSE], step = "finalize" => roller = Batches
      PROVE  IInv'
  <2>1. step \in Busy
    BY <1>4 DEF Busy, Calling
  <2> QED BY <1>1, <1>2, <1>3, <1>4, <2>1, CallerKeeps DEF Stay
<1>5. ASSUME NEW seen \in Shown, AllIn(seen) PROVE roller = Batches
  BY <1>5, Constants DEF Shown, AllIn
<1>6. CASE Fails(p, TRUE) /\ Fault
  BY <1>1, <1>6, FailsKeeps DEF Stay
<1> QED BY <1>4, <1>5, <1>6 DEF Recheck

(* Giving the key up. *)
LEMMA FailKeyKeeps == ASSUME IInv, NEW p \in Procs, FailKey(p) PROVE IInv'
<1> DEFINE s == mem[p].s
           k == [key[s] EXCEPT !.status = "failed", !.stale = FALSE]
<1>1. /\ pc[p] = "unkey" /\ NoFault /\ UNCHANGED <<sess, lapsed, used, roller, late>>
      /\ s \in Sessions /\ Holds(p) /\ Fails(p, mem[p].again) /\ mem[p].again \in BOOLEAN
  BY MemoryParts DEF FailKey, At, IInv, OnItsWay, Early, Calling
<1>2. k \in Key /\ k.status = "failed" /\ key' = [key EXCEPT ![s] = k]
  <2>1. key[s] \in Key
    BY <1>1 DEF IInv, TypeOK
  <2>2. k \in Key /\ k.status = "failed"
    BY <2>1 DEF Key
  <2>3. key' = [key EXCEPT ![s] = k]
    BY <1>1 DEF IInv, TypeOK, FailKey
  <2> QED BY <2>2, <2>3
<1> HIDE DEF k
<1>3. /\ pc' \in [Procs -> Steps] /\ pc'[p] \in {"done", "fail"}
      /\ mem' \in [Procs -> Memory] /\ mem'[p].s = mem[p].s /\ mem'[p].seen = {}
      /\ mem'[p].tries = mem[p].tries
      /\ \A q \in Procs \ {p} : pc'[q] = pc[q] /\ mem'[q] = mem[q]
  BY <1>1, FailsTyped DEF IInv
<1>4. OnItsWay(p)'
  BY <1>1, <1>3 DEF OnItsWay, Early, Checked, Unused, Busy, Calling
<1>5. key[s].status = "in_progress" /\ key[s].holder = p
  BY <1>1 DEF Holds
<1>6. \A q \in Procs \ {p} : pc[q] \in Busy /\ Holds(q) => mem[q].s # s
  BY <1>5 DEF Holds
<1>7. faults' \in 0..MaxFaults /\ crashes' \in 0..MaxCrashes
  BY <1>1, CountTyped DEF IInv
<1> QED BY <1>1, <1>2, <1>3, <1>4, <1>5, <1>6, <1>7, KeyKeeps

(* The receipt: whoever writes it is the one redeemer, or it is there        *)
(* already.                                                                  *)
LEMMA FinalizeKeeps == ASSUME IInv, NEW p \in Procs, Finalize(p) PROVE IInv'
<1> DEFINE s == mem[p].s
<1>1. /\ pc[p] = "finalize" /\ NoFault /\ UNCHANGED <<lapsed, roller, late, mem>>
      /\ used' = TRUE /\ Goto(p, "done") /\ s \in Sessions /\ roller = Batches
      /\ Holds(p) \/ sess[s].status = "redeemed"
      /\ sess[s] \in Session /\ key[s] \in Key
  BY DEF Finalize, At, IInv, OnItsWay, Early, TypeOK
<1>2. /\ pc' \in [Procs -> Steps] /\ pc'[p] = "done"
      /\ \A q \in Procs \ {p} : pc'[q] = pc[q]
  BY <1>1, GotoTyped DEF IInv, Steps
<1>3. /\ sess' \in [Sessions -> Session] /\ sess'[s].status = "redeemed"
      /\ \A t \in Sessions \ {s} : sess'[t] = sess[t]
  <2> DEFINE new == [sess[s] EXCEPT !.status = "redeemed"]
  <2>1. new \in Session /\ new.status = "redeemed" /\ sess' = [sess EXCEPT ![s] = new]
    BY <1>1 DEF Session, Statuses, Finalize, IInv, TypeOK
  <2> HIDE DEF new
  <2> QED BY <1>1, <2>1 DEF IInv, TypeOK
<1>4. key[s].status \in {"in_progress", "succeeded"}
  BY <1>1 DEF Holds, IInv, RowsAgree
<1>5. /\ key' \in [Sessions -> Key] /\ key'[s].status = "succeeded"
      /\ \A t \in Sessions \ {s} : key'[t] = key[t]
  <2> DEFINE k == [key[s] EXCEPT !.status = "succeeded"]
  <2>1. k \in Key /\ k.status = "succeeded" /\ key' = [key EXCEPT ![s] = k]
    BY <1>1, <1>4 DEF Key, Finalize, ReceiptKey, IInv, TypeOK
  <2> HIDE DEF k
  <2> QED BY <1>1, <2>1 DEF IInv, TypeOK
<1>6. faults' \in 0..MaxFaults /\ crashes' \in 0..MaxCrashes
  BY <1>1, CountTyped DEF IInv
<1>7. TypeOK'
  BY <1>1, <1>2, <1>3, <1>5, <1>6 DEF IInv, TypeOK
<1>8. RowsAgree'
  <2>1. \A t, u \in Sessions : sess'[t].status \in Active /\ sess'[u].status \in Active => t = u
    BY <1>3 DEF IInv, RowsAgree, Active
  <2>2. \A t \in lapsed : sess'[t].status # "ready"
    BY <1>3 DEF IInv, RowsAgree, TypeOK
  <2>3. \A t \in Sessions : sess'[t].status = "redeemed" <=> key'[t].status = "succeeded"
    BY <1>3, <1>5 DEF IInv, RowsAgree
  <2> QED BY <1>1, <1>3, <2>1, <2>2, <2>3 DEF RowsAgree
<1>9. ASSUME NEW q \in Procs, q # p PROVE OnItsWay(q)'
  <2>1. /\ pc'[q] = pc[q] /\ mem'[q] = mem[q] /\ OnItsWay(q)
    BY <1>1, <1>2, <1>9 DEF IInv
  <2>2. pc[q] \in Checked => mem[q].s \in Sessions
    BY <2>1 DEF OnItsWay, Checked, Unused, Busy, Calling, Early
  <2>3. q \in Starts /\ sess[q].status = "none" => sess'[q].status = "none"
    <3>1. sess[s].status # "none"
      BY <1>1 DEF Holds
    <3> QED BY <1>3, <3>1, Constants
  <2>4. \A t \in Sessions : sess[t].status \in {"ready", "redeemed"}
                              => sess'[t].status \in {sess[t].status, "redeemed"}
    BY <1>3
  <2>5. ~Holds(q) \/ pc[q] \notin Busy
    <3> SUFFICES ASSUME Holds(q), pc[q] \in Busy PROVE FALSE
      OBVIOUS
    <3>1. mem[q].s \in Sessions /\ sess[mem[q].s].status = "ready" /\ ~used
          /\ key[mem[q].s].holder = q
      BY <2>2 DEF Holds, Checked
    <3>2. Holds(p)
      BY <1>1, <3>1 DEF IInv, RowsAgree
    <3>3. mem[q].s = s /\ key[s].holder = p
      BY <1>1, <3>1, <3>2 DEF Holds, IInv, RowsAgree, Active
    <3> QED BY <1>9, <3>1, <3>3
  <2>6. pc[q] \in Unused => sess'[mem[q].s].status = "redeemed"
    <3> SUFFICES ASSUME pc[q] \in Unused, sess[mem[q].s].status # "redeemed"
                 PROVE  mem[q].s = s
      BY <1>1, <1>3, <2>2 DEF Checked
    <3>1. /\ mem[q].s \in Sessions /\ ~used /\ sess[mem[q].s].status = "ready"
      BY <2>1, <2>2 DEF OnItsWay, Checked
    <3>2. sess[s].status = "ready"
      BY <1>1, <3>1 DEF IInv, RowsAgree, Holds
    <3> QED BY <1>1, <3>1, <3>2 DEF IInv, RowsAgree, Active
  <2>7. pc[q] = "finalize" => sess'[mem[q].s].status = "redeemed"
    BY <2>1, <2>2, <2>4, <2>5 DEF OnItsWay, Checked, Busy
  <2>8. pc[q] \in Checked => sess'[mem[q].s].status \in {"ready", "redeemed"}
    BY <2>1, <2>2, <2>4 DEF OnItsWay
  <2>9. pc[q] \notin Calling
    BY <2>1, <2>5 DEF OnItsWay, Busy
  <2> QED BY <1>1, <2>1, <2>3, <2>6, <2>7, <2>8, <2>9 DEF OnItsWay
<1>10. OnItsWay(p)'
  BY <1>1, <1>2 DEF IInv, OnItsWay, Early, Checked, Unused, Busy, Calling
<1> QED BY <1>7, <1>8, <1>9, <1>10 DEF IInv

-----------------------------------------------------------------------------
(* Failures, retries and crashes.                                            *)

LEMMA RecordFailureKeeps == ASSUME IInv, NEW p \in Procs, RecordFailure(p) PROVE IInv'
<1> DEFINE s == mem[p].s
<1>1. /\ pc[p] = "fail" /\ NoFault /\ UNCHANGED <<lapsed, used, key, roller, late>>
      /\ s \in Sessions /\ sess[s] \in Session /\ mem' = Forget(p)
      /\ mem[p].tries \in 0..Tries
  BY MemoryParts DEF RecordFailure, At, IInv, OnItsWay, Early, TypeOK
<1>2. PICK step \in {"delay", "done"} : Goto(p, step) /\ (step = "delay" => mem[p].tries < Tries)
  BY DEF RecordFailure, AfterThrow
<1>3. PICK new \in Session : sess' = [sess EXCEPT ![s] = new] /\ new.status = sess[s].status
  <2>1. CASE sess[s].status # "ready"
    BY <1>1, <2>1 DEF RecordFailure, IInv, TypeOK
  <2>2. CASE sess[s].status = "ready"
    <3> DEFINE n == IF sess[s].attempts < MaxAttempts THEN sess[s].attempts + 1
                    ELSE sess[s].attempts
               auto == IF TriesAgain(p) THEN "retrying" ELSE "needs_staff"
               new == [sess[s] EXCEPT !.attempts = n, !.auto = auto]
    <3>1. sess[s].attempts \in 0..MaxAttempts
      BY <1>1 DEF Session
    <3>2. n \in 0..MaxAttempts
      BY <3>1, Constants
    <3> HIDE DEF n
    <3>3. new \in Session /\ new.status = sess[s].status
      BY <1>1, <3>2 DEF Session
    <3>4. sess' = [sess EXCEPT ![s] = new]
      BY <1>1, <2>2 DEF RecordFailure, IInv, TypeOK, n
    <3> QED BY <3>3, <3>4
  <2> QED BY <2>1, <2>2
<1>4. /\ mem' \in [Procs -> Memory] /\ mem'[p].s = s /\ mem'[p].seen = {}
      /\ mem'[p].tries = mem[p].tries /\ mem'[p] \in Memory
  BY <1>1, ForgetTyped DEF IInv
<1>5. mem' = [mem EXCEPT ![p] = mem'[p]]
  BY <1>1, <1>4 DEF Forget, IInv, TypeOK
<1>6. step \in Steps /\ pc'[p] = step
  BY <1>2, GotoTyped DEF IInv, Steps
<1>7. OnItsWay(p)'
  BY <1>1, <1>2, <1>4, <1>6 DEF OnItsWay, Early, Checked, Unused, Busy, Calling
<1> QED BY <1>1, <1>2, <1>3, <1>4, <1>5, <1>6, <1>7, FieldKeeps

LEMMA RetryKeeps == ASSUME IInv, NEW p \in Procs, Retry(p) PROVE IInv'
<1>1. /\ pc[p] = "delay" /\ Stay /\ NoFault /\ Goto(p, "precheck")
      /\ mem[p].tries < Tries /\ mem[p].s \in Sessions
  BY DEF Retry, At, IInv, OnItsWay, Early
<1> DEFINE m == [mem[p] EXCEPT !.tries = @ + 1]
<1>2. mem[p].tries + 1 \in 0..Tries
  BY <1>1, MemoryParts, Constants DEF IInv
<1>3. /\ m \in Memory /\ m.s = mem[p].s /\ m.seen = mem[p].seen
      /\ mem' = [mem EXCEPT ![p] = m]
  BY <1>2, MemoryParts DEF IInv, TypeOK, Memory, Retry
<1> HIDE DEF m
<1>4. pc'[p] = "precheck" /\ mem'[p] = m /\ "precheck" \in Steps
  BY <1>1, <1>3, GotoTyped, MemTyped DEF IInv, Steps
<1>5. OnItsWay(p)'
  BY <1>1, <1>3, <1>4 DEF IInv, OnItsWay, Stay, Early, Checked, Unused, Busy, Calling
<1> QED BY <1>1, <1>3, <1>4, <1>5, StepOnly

LEMMA CrashKeeps == ASSUME IInv, NEW p \in Procs, Crash(p) PROVE IInv'
<1>1. /\ pc[p] \notin {"idle", "delay", "done"} /\ Loss /\ mem' = Forget(p)
      /\ UNCHANGED <<sess, lapsed, used, key>>
      /\ mem[p].tries > 0 => mem[p].s \in Sessions
      /\ mem[p].tries \in 0..Tries
  BY MemoryParts DEF Crash, IInv, OnItsWay
<1>2. PICK step \in {"delay", "done"} :
        Goto(p, step) /\ (step = "delay" => mem[p].tries > 0 /\ mem[p].tries < Tries)
  BY DEF Crash, AfterThrow
<1>3. /\ roller \subseteq roller' /\ roller' \subseteq Batches /\ late' \subseteq Batches
  BY DEF Crash, IInv, TypeOK
<1>4. /\ mem' \in [Procs -> Memory] /\ mem'[p].s = mem[p].s /\ mem'[p].seen = {}
      /\ mem'[p].tries = mem[p].tries
      /\ \A q \in Procs \ {p} : mem'[q] = mem[q]
  BY <1>1, ForgetTyped DEF IInv
<1>5. step \in Steps
  BY <1>2 DEF Steps
<1>6. /\ pc' \in [Procs -> Steps] /\ pc'[p] = step
      /\ \A q \in Procs \ {p} : pc'[q] = pc[q]
  BY <1>2, <1>5, GotoTyped DEF IInv
<1>7. OnItsWay(p)'
  BY <1>1, <1>2, <1>4, <1>6 DEF OnItsWay, Early, Checked, Unused, Busy, Calling
<1>8. faults' \in 0..MaxFaults /\ crashes' \in 0..MaxCrashes
  BY <1>1, CountTyped DEF IInv
<1> QED BY <1>1, <1>3, <1>4, <1>6, <1>7, <1>8, MoveKeeps

(* The key of a running process does not age. *)
LEMMA KeyAgesKeeps == ASSUME IInv, NEW s \in Sessions, KeyAges(s) PROVE IInv'
<1> DEFINE k == [key[s] EXCEPT !.stale = TRUE]
<1>1. k \in Key /\ k.status = "in_progress" /\ key' = [key EXCEPT ![s] = k]
  BY DEF KeyAges, Key, IInv, TypeOK
<1> HIDE DEF k
<1>2. /\ UNCHANGED <<sess, lapsed, used, roller, late, pc, mem>>
      /\ key[s].status = "in_progress" /\ ~Running(key[s].holder) /\ NoFault
  BY DEF KeyAges
<1>3. key' \in [Sessions -> Key] /\ key'[s] = k /\ \A t \in Sessions \ {s} : key'[t] = key[t]
  BY <1>1 DEF IInv, TypeOK
<1>4. TypeOK'
  BY <1>2, <1>3 DEF IInv, TypeOK, NoFault
<1>5. RowsAgree'
  BY <1>1, <1>2, <1>3 DEF IInv, RowsAgree
<1>6. ASSUME NEW q \in Procs PROVE OnItsWay(q)'
  <2>1. OnItsWay(q) /\ (pc[q] \in Busy => mem[q].s \in Sessions)
    BY DEF IInv, OnItsWay, Busy, Calling, Early
  <2>2. pc[q] \in Busy /\ Holds(q) => mem[q].s # s
    BY <1>2 DEF Holds, Running, Busy
  <2> QED BY <1>2, <1>3, <2>1, <2>2, OthersKeep DEF IInv, TypeOK
<1> QED BY <1>4, <1>5, <1>6 DEF IInv

LEMMA SessionLapsesKeeps == ASSUME IInv, NEW s \in Sessions, SessionLapses(s) PROVE IInv'
<1>1. /\ UNCHANGED <<sess, used, key, roller, late, pc, mem>> /\ NoFault
      /\ lapsed' = lapsed \cup {s} /\ sess[s].status = "guest"
  BY DEF SessionLapses
<1>2. TypeOK'
  BY <1>1 DEF IInv, TypeOK, NoFault
<1>3. RowsAgree'
  BY <1>1 DEF IInv, RowsAgree
<1>4. ASSUME NEW q \in Procs PROVE OnItsWay(q)'
  BY <1>1, OthersKeep DEF IInv, TypeOK
<1> QED BY <1>2, <1>3, <1>4 DEF IInv

LEMMA EntryKeeps ==
  ASSUME IInv, NEW b \in Batches, LateCallLands(b) \/ EnteredAtKassan(b) PROVE IInv'
<1>1. /\ UNCHANGED <<sess, lapsed, used, key, pc, mem>> /\ NoFault
      /\ roller' = roller \cup {b} /\ late' \subseteq late
  BY DEF LateCallLands, EnteredAtKassan
<1>2. roller \subseteq Batches /\ roller' \subseteq Batches
  BY <1>1 DEF IInv, TypeOK
<1>3. TypeOK'
  BY <1>1, <1>2 DEF IInv, TypeOK, NoFault
<1>4. RowsAgree'
  BY <1>1, <1>2 DEF IInv, RowsAgree
<1>5. ASSUME NEW q \in Procs PROVE OnItsWay(q)'
  BY <1>1, <1>2, OthersKeep DEF IInv, TypeOK
<1> QED BY <1>3, <1>4, <1>5 DEF IInv

-----------------------------------------------------------------------------

(* Every step preserves the inductive invariant.                             *)
LEMMA StepInv == IInv /\ [Next]_vars => IInv'
<1> SUFFICES ASSUME IInv, [Next]_vars PROVE IInv'
  OBVIOUS
<1>1. ASSUME NEW p \in Procs, Arrive(p) PROVE IInv'
  BY <1>1, ReadBookingKeeps, ReadyRequestKeeps, ConfirmBookingKeeps, StaffRequestKeeps DEF Arrive
<1>2. ASSUME NEW p \in Procs, Work(p) PROVE IInv'
  <2>1. CASE \/ ExpireOld(p) \/ FindActive(p) \/ CreateSession(p) \/ FindAttestation(p)
             \/ MakeReady(p) \/ Dispatch(p) \/ MarkExpired(p)
    BY <1>2, <2>1, ExpireOldKeeps, FindActiveKeeps, CreateSessionKeeps, FindAttestationKeeps,
       MakeReadyKeeps, DispatchKeeps, MarkExpiredKeeps
  <2>2. CASE \/ Precheck(p) \/ FindReceipt(p) \/ ReadContext(p) \/ Refresh(p)
             \/ Reserve(p) \/ ReadKey(p) \/ TakeOver(p)
    BY <1>2, <2>2, PrecheckKeeps, FindReceiptKeeps, ReadContextKeeps, RefreshKeeps,
       ReserveKeeps, ReadKeyKeeps, TakeOverKeeps
  <2>3. CASE \/ \E b \in Batches : Post(p, b)
             \/ Recheck(p) \/ FailKey(p) \/ Finalize(p) \/ RecordFailure(p) \/ Retry(p)
    BY <1>2, <2>3, PostKeeps, RecheckKeeps, FailKeyKeeps, FinalizeKeeps, RecordFailureKeeps,
       RetryKeeps
  <2> QED BY <1>2, <2>1, <2>2, <2>3 DEF Work
<1>3. ASSUME NEW p \in Procs, Crash(p) PROVE IInv'
  BY <1>3, CrashKeeps
<1>4. ASSUME NEW s \in Sessions, KeyAges(s) \/ SessionLapses(s) PROVE IInv'
  BY <1>4, KeyAgesKeeps, SessionLapsesKeeps
<1>5. ASSUME NEW b \in Batches, LateCallLands(b) \/ EnteredAtKassan(b) PROVE IInv'
  BY <1>5, EntryKeeps
<1>6. CASE UNCHANGED vars
  BY <1>6 DEF vars, IInv, TypeOK, RowsAgree, OnItsWay, Holds
<1> QED BY <1>1, <1>2, <1>3, <1>4, <1>5, <1>6 DEF Next

(* The inductive invariant holds throughout.                                 *)
LEMMA InvAlways == Spec => []IInv
BY InitInv, StepInv, PTL DEF Spec

(* Sessions, keys and processes keep their types.                            *)
THEOREM CheckInTypes == Spec => []TypeOK
BY InvAlways, PTL DEF IInv

(* Automatic check-in and staff never redeem a visit at the same time, and   *)
(* nobody redeems it once it has its receipt.                                *)
LEMMA InvOneRedeemer == IInv => OneRedeemer
<1> SUFFICES ASSUME IInv, NEW p \in Procs, pc[p] \in Calling
             PROVE  ~used /\ \A q \in Procs : pc[q] \in Calling => p = q
  BY DEF OneRedeemer
<1>1. ASSUME NEW r \in Procs, pc[r] \in Calling PROVE Holds(r) /\ mem[r].s \in Sessions
  BY <1>1 DEF IInv, OnItsWay, Early, Calling
<1>2. ASSUME NEW q \in Procs, pc[q] \in Calling PROVE p = q
  <2>1. Holds(p) /\ Holds(q) /\ mem[p].s \in Sessions /\ mem[q].s \in Sessions
    BY <1>1, <1>2
  <2>2. mem[p].s = mem[q].s
    BY <2>1 DEF Holds, IInv, RowsAgree, Active
  <2> QED BY <2>1, <2>2 DEF Holds
<1>3. ~used
  BY <1>1 DEF Holds
<1> QED BY <1>2, <1>3

THEOREM OneRedeemerAlways == Spec => []OneRedeemer
BY InvAlways, InvOneRedeemer, PTL

(* Nothing says redeemed before ROLLER has let the whole group in.           *)
THEOREM ReceiptMeansEnteredAlways == Spec => []ReceiptMeansEntered
<1>1. IInv => ReceiptMeansEntered
  BY DEF IInv, RowsAgree, ReceiptMeansEntered
<1> QED BY <1>1, InvAlways, PTL

(* Tickets, key and session carry the receipt together.                      *)
THEOREM ReceiptIsWholeAlways == Spec => []ReceiptIsWhole
<1>1. IInv => ReceiptIsWhole
  BY DEF IInv, RowsAgree, ReceiptIsWhole
<1> QED BY <1>1, InvAlways, PTL

-----------------------------------------------------------------------------
(* What a step does to receipts and to who is redeeming.                     *)

(* Steps that write no receipt.                                              *)
LEMMA ReceiptsStay ==
  ASSUME IInv, NEW p \in Procs, Arrive(p) \/ (Work(p) /\ ~Finalize(p)) \/ Crash(p)
  PROVE  Receipts' = Receipts
<1>1. SUFFICES \A s \in Sessions : sess'[s].status = "redeemed" <=> sess[s].status = "redeemed"
  BY DEF Receipts
<1>2. CASE UNCHANGED sess
  BY <1>2
<1>3. CASE ExpireOld(p) \/ MarkExpired(p)
  <2>1. \A s \in Sessions : sess'[s] = sess[s]
                           \/ (sess[s].status \in Active /\ sess'[s].status = "expired")
    BY <1>3 DEF ExpireOld, MarkExpired, IInv, TypeOK, Session, OnItsWay, Early
  <2> QED BY <2>1 DEF Active
<1>4. CASE CreateSession(p)
  <2>1. p \in Sessions /\ sess[p].status = "none"
    BY <1>4, Constants DEF CreateSession, At, IInv, OnItsWay, Early
  <2>2. \A s \in Sessions \ {p} : sess'[s] = sess[s]
    BY <1>4 DEF CreateSession, IInv, TypeOK
  <2>3. sess' = sess \/ sess'[p] = [NoSession EXCEPT !.status = "guest"]
    BY <1>4, <2>1 DEF CreateSession, IInv, TypeOK
  <2>4. sess' = sess \/ sess'[p].status = "guest"
    BY <2>3 DEF NoSession
  <2> QED BY <2>1, <2>2, <2>4
<1>5. CASE MakeReady(p)
  <2>1. mem[p].s \in Sessions /\ sess[mem[p].s] \in Session
    BY <1>5 DEF MakeReady, At, IInv, OnItsWay, Early, TypeOK
  <2>2. CASE sess' = sess
    BY <2>2
  <2>3. ASSUME Open(mem[p].s), NEW n \in BOOLEAN,
               sess' = [sess EXCEPT ![mem[p].s].status = "ready", ![mem[p].s].number = n]
        PROVE  \A s \in Sessions : sess'[s].status = "redeemed" <=> sess[s].status = "redeemed"
    <3>1. sess'[mem[p].s].status = "ready" /\ sess[mem[p].s].status # "redeemed"
      BY <2>1, <2>3 DEF IInv, TypeOK, Session, Open, Active
    <3>2. \A s \in Sessions \ {mem[p].s} : sess'[s] = sess[s]
      BY <2>3 DEF IInv, TypeOK
    <3> QED BY <3>1, <3>2
  <2> QED BY <1>5, <2>2, <2>3 DEF MakeReady
<1>6. ASSUME NEW s \in Sessions, ConfirmBooking(p, s)
      PROVE  \A t \in Sessions : sess'[t].status = sess[t].status
  BY <1>6 DEF ConfirmBooking, IInv, TypeOK, Session
<1>7. CASE RecordFailure(p)
  <2>1. mem[p].s \in Sessions /\ sess[mem[p].s] \in Session
    BY <1>7 DEF RecordFailure, At, IInv, OnItsWay, Early, TypeOK
  <2>2. \A t \in Sessions : sess'[t].status = sess[t].status
    BY <1>7, <2>1 DEF RecordFailure, IInv, TypeOK, Session
  <2> QED BY <2>2
<1>8. \/ UNCHANGED sess \/ ExpireOld(p) \/ MarkExpired(p) \/ CreateSession(p) \/ MakeReady(p)
      \/ RecordFailure(p) \/ \E s \in Sessions : ConfirmBooking(p, s)
  BY DEF Arrive, Work, Crash, ReadBooking, FindActive, FindAttestation, Dispatch, ReadyRequest,
         StaffRequest, Precheck, FindReceipt, ReadContext, Refresh, Reserve, ReadKey, TakeOver,
         Post, Recheck, FailKey, Retry, Stay
<1> QED BY <1>2, <1>3, <1>4, <1>5, <1>6, <1>7, <1>8

(* A step of one process takes at most one batch to ROLLER, and none as it   *)
(* starts to redeem.                                                         *)
LEMMA OneBatch ==
  ASSUME IInv, NEW p \in Procs, Arrive(p) \/ (Work(p) /\ ~Finalize(p)) \/ Crash(p)
  PROVE  /\ \A q \in Procs \ {p} : pc'[q] = pc[q]
         /\ roller' = roller \/ \E b \in Batches : roller' = roller \cup {b}
         /\ pc[p] \notin Calling => roller' = roller
<1>1. \A q \in Procs \ {p} : pc'[q] = pc[q]
  BY DEF Arrive, Work, Crash, ReadBooking, ReadyRequest, ConfirmBooking, StaffRequest, ExpireOld,
         FindActive, CreateSession, FindAttestation, MakeReady, Dispatch, MarkExpired, Precheck,
         FindReceipt, ReadContext, Refresh, Reserve, ReadKey, TakeOver, Post, Recheck, FailKey,
         RecordFailure, Retry, Fails, Proceed, Goto, IInv, TypeOK
<1>2. CASE UNCHANGED roller
  BY <1>1, <1>2
<1>3. ASSUME NEW b \in Batches, Post(p, b)
      PROVE  (roller' = roller \/ roller' = roller \cup {b}) /\ pc[p] \in Calling
  BY <1>3 DEF Post, At, Calling
<1>4. CASE Crash(p)
  BY <1>1, <1>4 DEF Crash, At, Calling
<1>5. UNCHANGED roller \/ Crash(p) \/ \E b \in Batches : Post(p, b)
  BY DEF Arrive, Work, ReadBooking, ReadyRequest, ConfirmBooking, StaffRequest, ExpireOld,
         FindActive, CreateSession, FindAttestation, MakeReady, Dispatch, MarkExpired, Precheck,
         FindReceipt, ReadContext, Refresh, Reserve, ReadKey, TakeOver, Recheck, FailKey,
         RecordFailure, Retry, Stay
<1> QED BY <1>1, <1>2, <1>3, <1>4, <1>5

(* A step of one process, as the promise sees it. *)
LEMMA StepRefines ==
  ASSUME IInv, IInv', OneRedeemer, OneRedeemer', NEW p \in Procs,
         \A q \in Procs \ {p} : pc'[q] = pc[q],
         roller' = roller \/ \E b \in Batches : roller' = roller \cup {b},
         pc[p] \notin Calling => roller' = roller,
         Receipts' = Receipts
  PROVE  Promise!Next \/ UNCHANGED Promise!vars
<1>1. CASE pc[p] \in Calling <=> pc'[p] \in Calling
  <2>1. Working' = Working
    BY <1>1 DEF Working
  <2>2. CASE roller' = roller
    BY <2>1, <2>2 DEF Promise!vars
  <2>3. ASSUME NEW b \in Batches, roller' = roller \cup {b} PROVE Promise!Next
    BY <2>1, <2>3 DEF Promise!Enter, Promise!Next
  <2> QED BY <2>2, <2>3
<1>2. CASE pc[p] \in Calling /\ pc'[p] \notin Calling
  <2>1. Working # {} /\ Working' = {}
    BY <1>2 DEF Working, OneRedeemer
  <2>2. \E B \in SUBSET Batches : roller' = roller \cup B
    <3>1. CASE roller' = roller
      <4>1. {} \in SUBSET Batches /\ roller' = roller \cup {}
        BY <3>1
      <4> QED BY <4>1
    <3>2. ASSUME NEW b \in Batches, roller' = roller \cup {b}
          PROVE  \E B \in SUBSET Batches : roller' = roller \cup B
      <4>1. {b} \in SUBSET Batches
        OBVIOUS
      <4> QED BY <3>2, <4>1
    <3> QED BY <3>1, <3>2
  <2>3. PICK B \in SUBSET Batches : roller' = roller \cup B
    BY <2>2
  <2>4. Promise!Stop(B)
    BY <2>1, <2>3 DEF Promise!Stop
  <2> QED BY <2>4 DEF Promise!Next
<1>3. CASE pc[p] \notin Calling /\ pc'[p] \in Calling
  <2>1. \A q \in Procs : pc'[q] \in Calling => q = p
    BY <1>3 DEF OneRedeemer
  <2>2. Working = {} /\ Working' = {p}
    BY <1>3, <2>1 DEF Working
  <2>3. Receipts' = {}
    <3>1. ~used'
      BY <1>3 DEF OneRedeemer
    <3> QED BY <3>1 DEF Receipts, IInv, RowsAgree
  <2>4. roller' = roller
    BY <1>3
  <2>5. Receipts = {}
    BY <2>3
  <2>6. Promise!Begin(p)
    BY <2>2, <2>4, <2>5 DEF Promise!Begin
  <2> QED BY <2>6 DEF Promise!Next
<1> QED BY <1>1, <1>2, <1>3

(* The receipt, as the promise sees it. *)
LEMMA FinalizeRefines ==
  ASSUME IInv, NEW p \in Procs, Finalize(p) PROVE [Promise!Next]_(Promise!vars)
<1>1. /\ mem[p].s \in Sessions /\ roller = Batches /\ roller' = roller
      /\ pc[p] \notin Calling /\ Goto(p, "done") /\ sess[mem[p].s] \in Session
  BY DEF Finalize, At, IInv, OnItsWay, Early, Calling, TypeOK
<1>2. Working' = Working
  BY <1>1 DEF Working, Goto, IInv, TypeOK, Calling
<1>3. Receipts' = Receipts \cup {mem[p].s}
  <2>1. sess'[mem[p].s].status = "redeemed"
    BY <1>1 DEF Finalize, IInv, TypeOK, Session
  <2>2. \A s \in Sessions \ {mem[p].s} : sess'[s] = sess[s]
    BY DEF Finalize, IInv, TypeOK
  <2> QED BY <1>1, <2>1, <2>2 DEF Receipts
<1> QED BY <1>1, <1>2, <1>3 DEF Promise!Complete, Promise!Next

(* The check-in implements what the visit is promised: one redeemer at a     *)
(* time, none after a receipt, and a receipt only for the whole group.       *)
THEOREM VisitImplemented == Spec => ImplementsVisit
<1>1. Init => Promise!Init
  <2> SUFFICES ASSUME Init PROVE Promise!Init
    OBVIOUS
  <2>1. IInv
    BY InitInv
  <2>2. Receipts = {}
    BY <2>1 DEF Init, Receipts, IInv, RowsAgree
  <2>3. Working = {}
    BY DEF Init, Working, Calling
  <2> QED BY <2>2, <2>3 DEF Init, Promise!Init
<1>2. IInv /\ IInv' /\ OneRedeemer /\ OneRedeemer' /\ [Next]_vars
      => [Promise!Next]_(Promise!vars)
  <2> SUFFICES ASSUME IInv, IInv', OneRedeemer, OneRedeemer', [Next]_vars PROVE [Promise!Next]_(Promise!vars)
    OBVIOUS
  <2>1. ASSUME NEW p \in Procs, Arrive(p) \/ (Work(p) /\ ~Finalize(p)) \/ Crash(p)
        PROVE  [Promise!Next]_(Promise!vars)
    BY <2>1, ReceiptsStay, OneBatch, StepRefines
  <2>2. ASSUME NEW p \in Procs, Finalize(p) PROVE [Promise!Next]_(Promise!vars)
    BY <2>2, FinalizeRefines
  <2>3. ASSUME NEW s \in Sessions, KeyAges(s) \/ SessionLapses(s)
        PROVE  [Promise!Next]_(Promise!vars)
    BY <2>3 DEF KeyAges, SessionLapses, Promise!vars, Receipts, Working
  <2>4. ASSUME NEW b \in Batches, LateCallLands(b) \/ EnteredAtKassan(b)
        PROVE  [Promise!Next]_(Promise!vars)
    BY <2>4 DEF LateCallLands, EnteredAtKassan, Promise!Enter, Promise!Next, Receipts, Working
  <2>5. CASE UNCHANGED vars
    BY <2>5 DEF vars, Promise!vars, Receipts, Working
  <2> QED BY <2>1, <2>2, <2>3, <2>4, <2>5 DEF Next
<1> QED BY <1>1, <1>2, InvAlways, OneRedeemerAlways, PTL DEF Spec, ImplementsVisit, Promise!Spec

(* An admission, and its receipt, are never taken back.                      *)
THEOREM AdmissionIsFinalAlways == Spec => AdmissionIsFinal
<1>1. IInv /\ IInv' /\ [Next]_vars =>
        [\A s \in Sessions :
           /\ sess[s].status = "redeemed" => sess'[s].status = "redeemed"
           /\ key[s].status = "succeeded" => key'[s].status = "succeeded"]_vars
  <2> SUFFICES ASSUME IInv, IInv', Next, NEW s \in Sessions, sess[s].status = "redeemed"
               PROVE  sess'[s].status = "redeemed"
    BY DEF IInv, RowsAgree
  <2>1. ASSUME NEW p \in Procs, Arrive(p) \/ (Work(p) /\ ~Finalize(p)) \/ Crash(p)
        PROVE  sess'[s].status = "redeemed"
    BY <2>1, ReceiptsStay DEF Receipts
  <2>2. ASSUME NEW p \in Procs, Finalize(p) PROVE sess'[s].status = "redeemed"
    <3>1. mem[p].s \in Sessions /\ sess[mem[p].s] \in Session
      BY <2>2 DEF Finalize, At, IInv, OnItsWay, Early, TypeOK
    <3> QED BY <2>2, <3>1 DEF Finalize, IInv, TypeOK, Session
  <2>3. CASE \/ \E t \in Sessions : KeyAges(t) \/ SessionLapses(t)
             \/ \E b \in Batches : LateCallLands(b) \/ EnteredAtKassan(b)
    BY <2>3 DEF KeyAges, SessionLapses, LateCallLands, EnteredAtKassan
  <2> QED BY <2>1, <2>2, <2>3 DEF Next
<1> QED BY <1>1, InvAlways, PTL DEF Spec, AdmissionIsFinal
-----------------------------------------------------------------------------
(* The visit over its sessions: one receipt, and a number for one visit.     *)

OneReceipt == \A s, t \in Sessions :
  sess[s].status = "redeemed" /\ sess[t].status = "redeemed" => s = t

(* A session is numbered as it becomes ready, and a ready one does not lapse. *)
Numbered == \A s \in Sessions : sess[s].number => sess[s].status \in {"ready", "redeemed"}

(* The receipt is written for a session that has it already, or is the first. *)
LEMMA FinalizeOnce ==
  ASSUME IInv, OneReceipt, NEW p \in Procs, Finalize(p) PROVE OneReceipt'
<1>1. /\ mem[p].s \in Sessions /\ sess[mem[p].s] \in Session
      /\ Holds(p) \/ sess[mem[p].s].status = "redeemed"
  BY DEF Finalize, At, IInv, OnItsWay, Early, TypeOK
<1>2. \A t \in Sessions : sess[t].status = "redeemed" => t = mem[p].s
  BY <1>1 DEF Holds, IInv, RowsAgree, OneReceipt
<1>3. \A t \in Sessions \ {mem[p].s} : sess'[t] = sess[t]
  BY DEF Finalize, IInv, TypeOK
<1> QED BY <1>2, <1>3 DEF OneReceipt

(* Over all sessions of the visit, reopened or lapsed ones included, at most *)
(* one is ever redeemed.                                                     *)
THEOREM OneReceiptAlways == Spec => []OneReceipt
<1>1. Init => OneReceipt
  BY InitInv DEF Init, OneReceipt, IInv, RowsAgree
<1>2. IInv /\ OneReceipt /\ [Next]_vars => OneReceipt'
  <2> SUFFICES ASSUME IInv, OneReceipt, [Next]_vars PROVE OneReceipt'
    OBVIOUS
  <2>1. ASSUME NEW p \in Procs, Arrive(p) \/ (Work(p) /\ ~Finalize(p)) \/ Crash(p)
        PROVE  OneReceipt'
    BY <2>1, ReceiptsStay DEF Receipts, OneReceipt
  <2>2. ASSUME NEW p \in Procs, Finalize(p) PROVE OneReceipt'
    BY <2>2, FinalizeOnce
  <2>3. CASE \/ \E t \in Sessions : KeyAges(t) \/ SessionLapses(t)
             \/ \E b \in Batches : LateCallLands(b) \/ EnteredAtKassan(b)
             \/ UNCHANGED vars
    BY <2>3 DEF KeyAges, SessionLapses, LateCallLands, EnteredAtKassan, OneReceipt, vars
  <2> QED BY <2>1, <2>2, <2>3 DEF Next
<1> QED BY <1>1, <1>2, InvAlways, PTL DEF Spec

(* Steps that write a session row, and what they leave of the numbers.       *)
LEMMA StepNumbered ==
  ASSUME IInv, Numbered, NEW p \in Procs, Arrive(p) \/ Work(p) \/ Crash(p)
  PROVE  Numbered'
<1>1. CASE UNCHANGED sess
  BY <1>1 DEF Numbered
<1>2. CASE ExpireOld(p) \/ MarkExpired(p)
  <2>1. \A s \in Sessions : sess'[s] = sess[s]
          \/ /\ sess[s].status \in Active /\ s \in lapsed
             /\ sess[s].number = sess'[s].number
    BY <1>2 DEF ExpireOld, MarkExpired, At, IInv, TypeOK, Session, OnItsWay, Early
  <2>2. \A s \in Sessions : sess[s].status \in Active /\ s \in lapsed => ~sess[s].number
    BY DEF IInv, TypeOK, Session, RowsAgree, Numbered, Active
  <2> QED BY <2>1, <2>2 DEF Numbered
<1>3. CASE CreateSession(p)
  <2>1. p \in Sessions
    BY <1>3, Constants DEF CreateSession, At, IInv, OnItsWay, Early
  <2>2. \A s \in Sessions \ {p} : sess'[s] = sess[s]
    BY <1>3 DEF CreateSession, IInv, TypeOK
  <2>3. sess' = sess \/ sess'[p] = [NoSession EXCEPT !.status = "guest"]
    BY <1>3, <2>1 DEF CreateSession, IInv, TypeOK
  <2>4. sess' = sess \/ sess'[p].number = FALSE
    BY <2>3 DEF NoSession
  <2> QED BY <2>1, <2>2, <2>4 DEF Numbered
<1>4. CASE MakeReady(p)
  <2>1. mem[p].s \in Sessions /\ sess[mem[p].s] \in Session
    BY <1>4 DEF MakeReady, At, IInv, OnItsWay, Early, TypeOK
  <2>2. ASSUME NEW n \in BOOLEAN,
               sess' = [sess EXCEPT ![mem[p].s].status = "ready", ![mem[p].s].number = n]
        PROVE  Numbered'
    <3>1. sess'[mem[p].s].status = "ready"
      BY <2>1, <2>2 DEF IInv, TypeOK, Session
    <3>2. \A s \in Sessions \ {mem[p].s} : sess'[s] = sess[s]
      BY <2>2 DEF IInv, TypeOK
    <3> QED BY <3>1, <3>2 DEF Numbered
  <2> QED BY <1>1, <1>4, <2>2 DEF MakeReady
<1>5. ASSUME NEW s \in Sessions, ConfirmBooking(p, s) PROVE Numbered'
  <2>1. \A t \in Sessions : sess'[t].status = sess[t].status /\ sess'[t].number = sess[t].number
    BY <1>5 DEF ConfirmBooking, IInv, TypeOK, Session
  <2> QED BY <2>1 DEF Numbered
<1>6. CASE RecordFailure(p)
  <2>1. mem[p].s \in Sessions /\ sess[mem[p].s] \in Session
    BY <1>6 DEF RecordFailure, At, IInv, OnItsWay, Early, TypeOK
  <2>2. \A t \in Sessions : sess'[t].status = sess[t].status /\ sess'[t].number = sess[t].number
    BY <1>6, <2>1 DEF RecordFailure, IInv, TypeOK, Session
  <2> QED BY <2>2 DEF Numbered
<1>7. CASE Finalize(p)
  <2>1. mem[p].s \in Sessions
    BY <1>7 DEF Finalize, At, IInv, OnItsWay, Early
  <2>2. sess'[mem[p].s].status = "redeemed" /\ \A t \in Sessions \ {mem[p].s} : sess'[t] = sess[t]
    BY <1>7, <2>1 DEF Finalize, IInv, TypeOK, Session
  <2> QED BY <2>2 DEF Numbered
<1>8. \/ UNCHANGED sess \/ ExpireOld(p) \/ MarkExpired(p) \/ CreateSession(p) \/ MakeReady(p)
      \/ RecordFailure(p) \/ Finalize(p) \/ \E s \in Sessions : ConfirmBooking(p, s)
  BY DEF Arrive, Work, Crash, ReadBooking, FindActive, FindAttestation, Dispatch, ReadyRequest,
         StaffRequest, Precheck, FindReceipt, ReadContext, Refresh, Reserve, ReadKey, TakeOver,
         Post, Recheck, FailKey, Retry, Stay
<1> QED BY <1>1, <1>2, <1>3, <1>4, <1>5, <1>6, <1>7, <1>8

(* What remains of "one number all visit day": the visit never shows two     *)
(* numbers that both wait for the staff.  A second number belongs to a       *)
(* session whose visit has been admitted under the other.                    *)
THEOREM NumbersOfOneVisit ==
  Spec => [](\A s, t \in Sessions : sess[s].number /\ sess[t].number /\ s # t =>
               {sess[s].status, sess[t].status} = {"ready", "redeemed"})
<1> DEFINE Told == \A s, t \in Sessions : sess[s].number /\ sess[t].number /\ s # t =>
                     {sess[s].status, sess[t].status} = {"ready", "redeemed"}
<1>1. Init => Numbered
  <2> SUFFICES ASSUME Init, NEW s \in Sessions PROVE ~sess[s].number
    BY DEF Numbered
  <2>1. CASE sess = [t \in Sessions |-> NoSession]
    BY <2>1 DEF NoSession
  <2>2. CASE sess = [[t \in Sessions |-> NoSession] EXCEPT
                        ![Purchase] = [NoSession EXCEPT !.status = "guest", !.sync = "pending"]]
    BY <2>2 DEF NoSession
  <2> QED BY <2>1, <2>2 DEF Init
<1>2. IInv /\ Numbered /\ [Next]_vars => Numbered'
  <2> SUFFICES ASSUME IInv, Numbered, [Next]_vars PROVE Numbered'
    OBVIOUS
  <2>1. ASSUME NEW p \in Procs, Arrive(p) \/ Work(p) \/ Crash(p) PROVE Numbered'
    BY <2>1, StepNumbered
  <2>2. CASE \/ \E t \in Sessions : KeyAges(t) \/ SessionLapses(t)
             \/ \E b \in Batches : LateCallLands(b) \/ EnteredAtKassan(b)
             \/ UNCHANGED vars
    BY <2>2 DEF KeyAges, SessionLapses, LateCallLands, EnteredAtKassan, Numbered, vars
  <2> QED BY <2>1, <2>2 DEF Next
<1>3. IInv /\ OneReceipt /\ Numbered => Told
  <2> SUFFICES ASSUME IInv, OneReceipt, Numbered, NEW s \in Sessions, NEW t \in Sessions,
                      sess[s].number, sess[t].number, s # t
               PROVE  {sess[s].status, sess[t].status} = {"ready", "redeemed"}
    OBVIOUS
  <2>1. sess[s].status \in {"ready", "redeemed"} /\ sess[t].status \in {"ready", "redeemed"}
    BY DEF Numbered
  <2>2. sess[s].status # sess[t].status
    BY <2>1 DEF OneReceipt, IInv, RowsAgree, Active
  <2> QED BY <2>1, <2>2
<1> QED BY <1>1, <1>2, <1>3, InvAlways, OneReceiptAlways, PTL DEF Spec
-----------------------------------------------------------------------------
(* Automatic check-in, as long as no invocation dies, no event is lost and   *)
(* staff do not redeem.                                                      *)

Undisturbed == crashes = 0 /\ \A p \in Staff : pc[p] = "idle"

(* The event of p for session s still has something to do; p is about to     *)
(* send one.                                                                 *)
Event(p, s)  == mem[p].s = s /\ mem[p].tries > 0 /\ pc[p] # "done"
Asking(p, s) == mem[p].s = s /\ pc[p] = "dispatch"

(* Only failures of a ready session are counted, and the last one ends them. *)
FailuresCounted(s) ==
  /\ sess[s].status \in {"none", "guest"} => sess[s].auto = "none" /\ sess[s].attempts = 0
  /\ sess[s].auto = "retrying" => sess[s].attempts < MaxAttempts /\ sess[s].sync = "confirmed"
  /\ sess[s].attempts = MaxAttempts => sess[s].auto = "needs_staff"

(* An event is invoked again only after a failure that was counted, so that  *)
(* Lambda's retries outlast the attempts.                                    *)
Due == Checked \cup {"precheck", "fail", "delay"}
Counted(p) == LET s == mem[p].s IN
  /\ pc[p] \in Due => p \in Requests /\ mem[p].tries > 0
  /\ mem[p].tries > 0 => pc[p] \in Due \cup {"done"}
  /\ pc[p] \in Checked \cup {"fail", "delay"} => sess[s].sync = "confirmed"
  /\ pc[p] \in Due => mem[p].tries <= sess[s].attempts + 1
  /\ pc[p] = "delay" => mem[p].tries <= sess[s].attempts
  /\ pc[p] \in {"claim", "takeover"} => key[s].status # "none"

(* Who finds a fresh key and gives up leaves the session to its holder: that *)
(* one goes on, or its failure was the last one.                             *)
Fresh(s) == key[s].status = "in_progress" /\ ~key[s].stale
HolderActs(s) == LET h == key[s].holder IN
  /\ h \in Requests /\ mem[h].s = s /\ mem[h].tries > 0
  /\ pc[h] \in Busy \cup {"fail", "delay", "done"}
  /\ pc[h] = "fail" => mem[h].again
  /\ pc[h] = "done" => sess[s].attempts = MaxAttempts
KeyHeld(s) ==
  /\ Fresh(s) => HolderActs(s)
  /\ key[s].status # "none" => sess[s].status \in {"ready", "redeemed"}

EventInv == /\ \A s \in Sessions : FailuresCounted(s) /\ KeyHeld(s)
            /\ \A p \in Procs : Counted(p)

(* A ready session of a confirmed booking that is not handed to staff has an *)
(* event under way, or one about to be sent.                                 *)
Attended ==
  \A s \in Sessions :
    sess[s].status = "ready" /\ sess[s].sync = "confirmed" /\ sess[s].auto # "needs_staff" =>
      \E p \in Requests : Event(p, s) \/ Asking(p, s)

(* A step belongs to one process and never takes it back to the start.       *)
LEMMA ActorMoves ==
  ASSUME TypeOK, NEW p \in Procs, Arrive(p) \/ Work(p)
  PROVE  /\ pc'[p] # "idle"
         /\ \A q \in Procs \ {p} : pc'[q] = pc[q] /\ mem'[q] = mem[q]
<1>1. CASE Arrive(p)
  BY <1>1 DEF Arrive, ReadBooking, ReadyRequest, ConfirmBooking, StaffRequest, Goto, TypeOK
<1>2. CASE \/ ExpireOld(p) \/ FindActive(p) \/ CreateSession(p) \/ FindAttestation(p)
           \/ MakeReady(p) \/ Dispatch(p) \/ MarkExpired(p) \/ Precheck(p) \/ FindReceipt(p)
  BY <1>2 DEF ExpireOld, FindActive, CreateSession, FindAttestation, MakeReady, Dispatch,
              MarkExpired, Precheck, FindReceipt, Goto, TypeOK
<1>3. CASE ReadContext(p) \/ Refresh(p) \/ Reserve(p)
  BY <1>3 DEF ReadContext, Refresh, Reserve, Fails, Proceed, Goto, TypeOK
<1>4. CASE ReadKey(p) \/ TakeOver(p)
  BY <1>4 DEF ReadKey, TakeOver, Proceed, Forget, Goto, TypeOK
<1>5. CASE (\E b \in Batches : Post(p, b)) \/ Recheck(p) \/ FailKey(p)
  BY <1>5 DEF Post, Recheck, FailKey, Fails, Goto, TypeOK
<1>6. CASE Finalize(p) \/ RecordFailure(p) \/ Retry(p)
  BY <1>6 DEF Finalize, RecordFailure, AfterThrow, Retry, Forget, Goto, TypeOK
<1> QED BY <1>1, <1>2, <1>3, <1>4, <1>5, <1>6 DEF Work

(* What is undisturbed after a step was so before, and the step is one of a  *)
(* request or of the world around.                                           *)
LEMMA UndisturbedBefore ==
  ASSUME IInv, Next, Undisturbed'
  PROVE  /\ Undisturbed
         /\ \/ \E p \in Requests : (Arrive(p) \/ Work(p)) /\ ~Loss
            \/ \E s \in Sessions : KeyAges(s) \/ SessionLapses(s)
            \/ \E b \in Batches : LateCallLands(b) \/ EnteredAtKassan(b)
<1>1. ~Loss
  BY Constants DEF Loss, Undisturbed, IInv, TypeOK
<1>2. ASSUME NEW p \in Procs, Arrive(p) \/ Work(p)
      PROVE  p \in Requests /\ Undisturbed
  <2>1. pc'[p] # "idle" /\ \A q \in Procs \ {p} : pc'[q] = pc[q]
    BY <1>2, ActorMoves DEF IInv
  <2>2. p \in Requests /\ \A q \in Staff : pc[q] = "idle"
    BY <2>1 DEF Undisturbed, Procs
  <2>3. crashes' = crashes \/ Fault \/ NoFault
    BY <1>1, <1>2 DEF Arrive, Work, ReadBooking, ReadyRequest, ConfirmBooking, StaffRequest,
       ExpireOld, FindActive, CreateSession, FindAttestation, MakeReady, Dispatch, MarkExpired,
       Precheck, FindReceipt, ReadContext, Refresh, Reserve, ReadKey, TakeOver, Post, Recheck,
       FailKey, Finalize, RecordFailure, Retry
  <2> QED BY <2>2, <2>3 DEF Undisturbed, Fault, NoFault
<1>3. ASSUME NEW p \in Procs, Crash(p) PROVE FALSE
  BY <1>1, <1>3 DEF Crash
<1>4. CASE \/ \E s \in Sessions : KeyAges(s) \/ SessionLapses(s)
           \/ \E b \in Batches : LateCallLands(b) \/ EnteredAtKassan(b)
  BY <1>4 DEF KeyAges, SessionLapses, LateCallLands, EnteredAtKassan, NoFault, Undisturbed
<1> QED BY <1>1, <1>2, <1>3, <1>4 DEF Next
Waiting(s) == sess[s].status = "ready" /\ sess[s].sync = "confirmed" /\ sess[s].auto # "needs_staff"
Tended     == EventInv /\ Attended /\ RetryingIsRetried

(* What a step of p has to keep. *)
LEMMA TendedKeeps ==
  ASSUME IInv, IInv', Tended, NEW p \in Requests,
         \A q \in Procs \ {p} : pc'[q] = pc[q] /\ mem'[q] = mem[q],
         \A s \in Sessions : /\ sess[s].attempts <= sess'[s].attempts
                             /\ sess[s].sync = "confirmed" => sess'[s].sync = "confirmed"
                             /\ sess[s].status \in {"ready", "redeemed"}
                                  => sess'[s].status \in {"ready", "redeemed"}
                             /\ key[s].status # "none" => key'[s].status # "none"
                             /\ key'[s].status # "none" => \/ key[s].status # "none"
                                                           \/ sess[s].status \in {"ready", "redeemed"},
         \A s \in Sessions : FailuresCounted(s)',
         \A s \in Sessions : Fresh(s)' => \/ HolderActs(s)'
                                          \/ key'[s] = key[s] /\ key[s].holder # p,
         Counted(p)',
         \A s \in Sessions : Waiting(s)' =>
           \/ Waiting(s) /\ sess'[s].auto = sess[s].auto
           \/ Event(p, s)'
           \/ Asking(p, s)' /\ sess'[s].auto # "retrying",
         \A s \in Sessions : Waiting(s)' /\ Event(p, s) => \E q \in Requests : Event(q, s)',
         \A s \in Sessions : Asking(p, s) => Asking(p, s)' \/ Event(p, s)'
  PROVE  Tended'
<1> USE DEF Tended
<1>1. ASSUME NEW q \in Procs PROVE Counted(q)'
  <2>1. CASE q = p
    BY <2>1
  <2>2. CASE q # p
    <3>1. Counted(q) /\ pc'[q] = pc[q] /\ mem'[q] = mem[q]
      BY <2>2 DEF EventInv
    <3>2. pc[q] \in Due \cup {"claim", "takeover"} => mem[q].s \in Sessions
      BY DEF IInv, OnItsWay, Due, Checked, Unused, Busy, Calling, Early
    <3>3. mem[q].s \in Sessions => /\ sess[mem[q].s].attempts \in 0..MaxAttempts
                                   /\ sess'[mem[q].s].attempts \in 0..MaxAttempts
                                   /\ mem[q].tries \in 0..Tries
      BY DEF IInv, TypeOK, Session, Memory
    <3> DEFINE s == mem[q].s
    <3>4. mem'[q].s = s
      BY <3>1
    <3>5. pc[q] \in Due => mem[q].tries <= sess'[s].attempts + 1
      BY <3>1, <3>2, <3>3, Constants DEF Counted
    <3>6. pc[q] = "delay" => mem[q].tries <= sess'[s].attempts
      BY <3>1, <3>2, <3>3, Constants DEF Counted, Due
    <3>7. /\ pc[q] \in Checked \cup {"fail", "delay"} => sess'[s].sync = "confirmed"
          /\ pc[q] \in {"claim", "takeover"} => key'[s].status # "none"
          /\ pc[q] \in Due => q \in Requests /\ mem[q].tries > 0
          /\ mem[q].tries > 0 => pc[q] \in Due \cup {"done"}
      BY <3>1, <3>2 DEF Counted, Due
    <3> QED BY <3>1, <3>4, <3>5, <3>6, <3>7 DEF Counted
  <2> QED BY <2>1, <2>2
<1>2. ASSUME NEW s \in Sessions PROVE KeyHeld(s)'
  <2>1. ASSUME Fresh(s)', key'[s] = key[s], key[s].holder # p PROVE HolderActs(s)'
    <3> DEFINE h == key[s].holder
    <3>1. Fresh(s) /\ HolderActs(s)
      BY <2>1 DEF EventInv, KeyHeld, Fresh
    <3>2. pc'[h] = pc[h] /\ mem'[h] = mem[h]
      BY <2>1, <3>1 DEF HolderActs, Procs
    <3>3. sess[s].attempts = MaxAttempts => sess'[s].attempts = MaxAttempts
      <4>1. sess[s].attempts <= sess'[s].attempts /\ sess'[s].attempts \in 0..MaxAttempts
        BY DEF IInv, TypeOK, Session
      <4> QED BY <4>1, Constants
    <3> QED BY <2>1, <3>1, <3>2, <3>3 DEF HolderActs
  <2>2. key'[s].status # "none" => sess'[s].status \in {"ready", "redeemed"}
    BY DEF EventInv, KeyHeld
  <2> QED BY <2>1, <2>2 DEF KeyHeld
<1>3. ASSUME NEW s \in Sessions, NEW q \in Requests, q # p
      PROVE  (Event(q, s) => Event(q, s)') /\ (Asking(q, s) => Asking(q, s)')
  BY <1>3 DEF Event, Asking, Procs
<1>4. ASSUME NEW s \in Sessions, Waiting(s)'
      PROVE  \E q \in Requests : Event(q, s)' \/ Asking(q, s)'
  <2>1. CASE Waiting(s)
    <3>1. PICK q \in Requests : Event(q, s) \/ Asking(q, s)
      BY <2>1 DEF Attended, Waiting
    <3> QED BY <1>3, <1>4, <3>1
  <2> QED BY <1>4, <2>1
<1>5. ASSUME NEW s \in Sessions, sess'[s].status = "ready", sess'[s].auto = "retrying"
      PROVE  \E q \in Requests : Event(q, s)'
  <2>1. Waiting(s)'
    BY <1>5 DEF FailuresCounted, Waiting
  <2>2. CASE Waiting(s) /\ sess'[s].auto = sess[s].auto
    <3>1. PICK q \in Requests : Event(q, s)
      BY <1>5, <2>2 DEF RetryingIsRetried, Waiting, Event
    <3> QED BY <1>3, <2>1, <3>1
  <2> QED BY <1>5, <2>1, <2>2
<1>6. Attended'
  BY <1>4 DEF Attended, Waiting
<1>7. RetryingIsRetried'
  BY <1>5 DEF RetryingIsRetried, Event
<1>8. EventInv'
  BY <1>1, <1>2 DEF EventInv
<1> QED BY <1>6, <1>7, <1>8

(* A step of a request before its event is sent: no failure is counted and   *)
(* no key is touched.                                                        *)
Quiet(p, t) ==
  /\ sess'[t].attempts = sess[t].attempts /\ sess'[t].auto = sess[t].auto
  /\ sess[t].sync = "confirmed" => sess'[t].sync = "confirmed"
  /\ sess[t].status \in {"ready", "redeemed"} => sess'[t].status = sess[t].status
  /\ sess'[t].status \in {"none", "guest"} => sess[t].status \in {"none", "guest"}
  /\ Waiting(t)' => Waiting(t) \/ (Asking(p, t)' /\ sess'[t].auto # "retrying")

LEMMA QuietKeeps ==
  ASSUME IInv, IInv', Tended, NEW p \in Requests, pc[p] \notin Due \cup {"done", "dispatch"},
         \A q \in Procs \ {p} : pc'[q] = pc[q] /\ mem'[q] = mem[q],
         pc'[p] \notin Due, mem'[p].tries = mem[p].tries, key' = key,
         \A t \in Sessions : Quiet(p, t)
  PROVE  Tended'
<1>1. mem[p].tries = 0
  BY DEF Tended, EventInv, Counted, Procs, IInv, TypeOK, Memory
<1>2. Counted(p)'
  BY <1>1 DEF Counted, Due, Checked, Unused
<1>3. \A s \in Sessions : FailuresCounted(s)'
  BY DEF Tended, EventInv, FailuresCounted, Quiet
<1>4. \A s \in Sessions : Fresh(s)' => key'[s] = key[s] /\ key[s].holder # p
  BY <1>1 DEF Tended, EventInv, KeyHeld, Fresh, HolderActs
<1>5. \A s \in Sessions : ~Event(p, s) /\ ~Asking(p, s)
  BY <1>1 DEF Event, Asking
<1>6. \A s \in Sessions : /\ sess[s].attempts <= sess'[s].attempts
                          /\ sess[s].sync = "confirmed" => sess'[s].sync = "confirmed"
                          /\ sess[s].status \in {"ready", "redeemed"}
                                  => sess'[s].status \in {"ready", "redeemed"}
  BY DEF Quiet, IInv, TypeOK, Session
<1>7. \A s \in Sessions : Waiting(s)' => \/ Waiting(s) /\ sess'[s].auto = sess[s].auto
                                         \/ Asking(p, s)' /\ sess'[s].auto # "retrying"
  BY DEF Quiet
<1>8. \A s \in Sessions : key'[s].status # "none" => key[s].status # "none"
  OBVIOUS
<1> QED BY <1>2, <1>3, <1>4, <1>5, <1>6, <1>7, <1>8, TendedKeeps DEF Tended, EventInv, KeyHeld

(* A step without effect on the rows is quiet. *)
LEMMA QuietRows ==
  ASSUME NEW p \in Requests, NEW t \in Sessions, sess'[t] = sess[t] PROVE Quiet(p, t)
BY DEF Quiet, Waiting

(* The start of a session, the ready request and the confirmation.           *)
LEMMA ArriveTended ==
  ASSUME IInv, IInv', Tended, NEW p \in Requests, Arrive(p) PROVE Tended'
<1>1. p \in Procs /\ p \notin Staff
  BY CheckInAssumption DEF Procs
<1>2. \A q \in Procs \ {p} : pc'[q] = pc[q] /\ mem'[q] = mem[q]
  BY <1>1, ActorMoves DEF IInv
<1>3. mem[p] \in Memory
  BY <1>1 DEF IInv, TypeOK
<1>4. CASE ReadBooking(p)
  <2>1. pc[p] = "idle" /\ pc'[p] \in {"done", "expire"} /\ mem'[p].tries = mem[p].tries
    BY <1>1, <1>4 DEF ReadBooking, At, Goto, IInv, TypeOK
  <2>2. key' = key /\ sess' = sess
    BY <1>4 DEF ReadBooking, Stay
  <2> QED BY <1>2, <2>1, <2>2, QuietKeeps, QuietRows DEF Due, Checked, Unused, Busy, Calling
<1>5. ASSUME NEW s \in Sessions, ReadyRequest(p, s) PROVE Tended'
  <2>1. pc[p] = "idle" /\ pc'[p] \in {"lapse", "ready", "done"} /\ mem'[p].tries = mem[p].tries
    BY <1>1, <1>3, <1>5 DEF ReadyRequest, At, Goto, IInv, TypeOK, Memory
  <2>2. key' = key /\ sess' = sess
    BY <1>5 DEF ReadyRequest, Stay
  <2> QED BY <1>2, <2>1, <2>2, QuietKeeps, QuietRows DEF Due, Checked, Unused, Busy, Calling
<1>6. ASSUME NEW s \in Sessions, ConfirmBooking(p, s) PROVE Tended'
  <2>1. /\ pc[p] = "idle" /\ pc'[p] = "dispatch" /\ mem'[p].tries = mem[p].tries
        /\ mem'[p].s = s /\ key' = key
    BY <1>1, <1>3, <1>6 DEF ConfirmBooking, At, Goto, IInv, TypeOK, Memory
  <2>2. \A t \in Sessions \ {s} : sess'[t] = sess[t]
    BY <1>6 DEF ConfirmBooking, IInv, TypeOK
  <2>3. Quiet(p, s)
    <3>1. sess[s] \in Session /\ sess[s].sync = "pending"
      BY <1>6 DEF ConfirmBooking, IInv, TypeOK
    <3>2. /\ sess'[s].attempts = sess[s].attempts /\ sess'[s].auto = sess[s].auto
          /\ sess'[s].sync = "confirmed" /\ sess'[s].status = sess[s].status
      BY <1>6, <3>1 DEF ConfirmBooking, IInv, TypeOK, Session
    <3>3. sess[s].auto # "retrying"
      BY <3>1 DEF Tended, EventInv, FailuresCounted
    <3> QED BY <2>1, <3>2, <3>3 DEF Quiet, Asking
  <2> QED BY <1>2, <2>1, <2>2, <2>3, QuietKeeps, QuietRows DEF Due, Checked, Unused, Busy, Calling
<1> QED BY <1>1, <1>4, <1>5, <1>6 DEF Arrive, StaffRequest

LEMMA StartTended ==
  ASSUME IInv, IInv', Tended, NEW p \in Requests,
         \/ ExpireOld(p) \/ FindActive(p) \/ CreateSession(p) \/ FindAttestation(p)
         \/ MakeReady(p) \/ MarkExpired(p)
  PROVE  Tended'
<1> DEFINE step == {"expire", "find", "create", "attest", "ready", "lapse"}
           next == {"find", "create", "attest", "ready", "dispatch", "done"}
<1>1. p \in Procs /\ mem[p] \in Memory
  BY DEF Procs, IInv, TypeOK
<1>2. \A q \in Procs \ {p} : pc'[q] = pc[q] /\ mem'[q] = mem[q]
  BY <1>1, ActorMoves DEF IInv, Work
<1>3. /\ pc[p] \in step /\ pc'[p] \in next /\ key' = key
  BY <1>1 DEF ExpireOld, FindActive, CreateSession, FindAttestation, MakeReady, MarkExpired, At,
              Goto, Stay, IInv, TypeOK
<1>4. mem'[p].tries = mem[p].tries
  <2>1. mem' = mem \/ \E s \in Sessions : mem' = [mem EXCEPT ![p].s = s]
    <3>1. p \in Starts \/ ~CreateSession(p)
      BY <1>1 DEF CreateSession, At, IInv, OnItsWay, Early
    <3> QED BY <3>1, Constants DEF ExpireOld, FindActive, CreateSession, FindAttestation,
              MakeReady, MarkExpired, OpenSessions
  <2> QED BY <1>1, <2>1 DEF IInv, TypeOK, Memory
<1>5. pc[p] \notin Due \cup {"done", "dispatch"} /\ pc'[p] \notin Due
  BY <1>3 DEF Due, Checked, Unused, Busy, Calling
<1>6. ASSUME NEW t \in Sessions PROVE Quiet(p, t)
  <2>1. CASE FindActive(p) \/ FindAttestation(p)
    BY <2>1, QuietRows DEF FindActive, FindAttestation, Stay
  <2>2. ASSUME sess[t].status \in Active /\ t \in lapsed,
               sess'[t] = [sess[t] EXCEPT !.status = "expired"]
        PROVE  Quiet(p, t)
    <3>1. sess[t].status # "ready" /\ sess[t].status # "redeemed" /\ sess[t] \in Session
      BY <2>2 DEF IInv, TypeOK, RowsAgree, Active
    <3> QED BY <2>2, <3>1 DEF Quiet, Waiting, Session
  <2>3. CASE ExpireOld(p)
    BY <2>2, <2>3, QuietRows DEF ExpireOld
  <2>4. CASE MarkExpired(p)
    <3>1. mem[p].s \in lapsed
      BY <1>1, <2>4 DEF MarkExpired, At, IInv, OnItsWay
    <3>2. CASE t = mem[p].s /\ sess[t].status \in Active
      BY <2>2, <2>4, <3>1, <3>2 DEF MarkExpired, IInv, TypeOK
    <3>3. CASE ~(t = mem[p].s /\ sess[t].status \in Active)
      BY <2>4, <3>3, QuietRows DEF MarkExpired, IInv, TypeOK
    <3> QED BY <3>2, <3>3
  <2>5. CASE CreateSession(p)
    <3>1. p \in Sessions /\ sess[p].status = "none"
      BY <1>1, <2>5, Constants DEF CreateSession, At, IInv, OnItsWay, Early
    <3>2. CASE t = p /\ sess' # sess
      <4>1. sess'[t] = [NoSession EXCEPT !.status = "guest"]
        BY <2>5, <3>1, <3>2 DEF CreateSession, IInv, TypeOK
      <4>2. sess[t].auto = "none" /\ sess[t].attempts = 0
        BY <3>1, <3>2 DEF Tended, EventInv, FailuresCounted
      <4> QED BY <3>1, <3>2, <4>1, <4>2 DEF Quiet, Waiting, NoSession
    <3>3. CASE ~(t = p /\ sess' # sess)
      BY <2>5, <3>3, QuietRows DEF CreateSession, IInv, TypeOK
    <3> QED BY <3>2, <3>3
  <2>6. CASE MakeReady(p)
    <3>1. mem[p].s \in Sessions /\ mem' = mem
      BY <1>1, <2>6 DEF MakeReady, At, IInv, OnItsWay, Early
    <3>2. CASE t = mem[p].s /\ Open(t) /\ Goto(p, "dispatch")
      <4>1. pc'[p] = "dispatch"
        BY <1>1, <3>2 DEF Goto, IInv, TypeOK
      <4>2. sess[t] \in Session /\ sess[t].status \in {"guest", "ready"}
        BY <3>2 DEF IInv, TypeOK, Open, Active
      <4>3. /\ sess'[t].attempts = sess[t].attempts /\ sess'[t].auto = sess[t].auto
            /\ sess'[t].sync = sess[t].sync /\ sess'[t].status = "ready"
        <5>1. PICK n \in BOOLEAN :
                sess' = [sess EXCEPT ![t].status = "ready", ![t].number = n]
          BY <2>6, <3>2 DEF MakeReady
        <5>2. sess'[t] = [sess[t] EXCEPT !.status = "ready", !.number = n]
          BY <5>1 DEF IInv, TypeOK
        <5> QED BY <4>2, <5>2 DEF Session
      <4>4. sess[t].status = "guest" => sess[t].auto = "none"
        BY DEF Tended, EventInv, FailuresCounted
      <4> QED BY <3>1, <3>2, <4>1, <4>2, <4>3, <4>4 DEF Quiet, Waiting, Asking
    <3>3. CASE ~(t = mem[p].s /\ Open(t) /\ Goto(p, "dispatch"))
      <4>1. sess'[t] = sess[t]
        BY <2>6, <3>1, <3>3 DEF MakeReady, IInv, TypeOK
      <4> QED BY <4>1, QuietRows
    <3> QED BY <3>2, <3>3
  <2> QED BY <2>1, <2>3, <2>4, <2>5, <2>6
<1> QED BY <1>2, <1>3, <1>4, <1>5, <1>6, QuietKeeps
LEMMA DispatchTended ==
  ASSUME IInv, IInv', Tended, NEW p \in Requests, Dispatch(p), ~Loss PROVE Tended'
<1>1. p \in Procs /\ mem[p] \in Memory /\ pc[p] = "dispatch"
  BY DEF Procs, IInv, TypeOK, Dispatch, At
<1>2. /\ pc'[p] = "precheck" /\ mem'[p].s = mem[p].s /\ mem'[p].tries = 1
      /\ sess' = sess /\ key' = key
  BY <1>1 DEF Dispatch, Goto, Stay, IInv, TypeOK, Memory
<1>3. \A q \in Procs \ {p} : pc'[q] = pc[q] /\ mem'[q] = mem[q]
  BY <1>1, ActorMoves DEF IInv, Work
<1>4. mem[p].tries = 0
  BY <1>1 DEF Tended, EventInv, Counted, Due, Checked, Unused, Busy, Calling, Memory
<1>5. mem[p].s \in Sessions /\ sess[mem[p].s].attempts \in 0..MaxAttempts
  BY <1>1 DEF IInv, OnItsWay, Early, TypeOK, Session
<1>6. Counted(p)'
  <2>1. 1 <= sess[mem[p].s].attempts + 1
    BY <1>5, Constants
  <2> QED BY <1>2, <2>1 DEF Counted, Due, Checked, Unused, Busy, Calling
<1>7. \A s \in Sessions : FailuresCounted(s)'
  BY <1>2 DEF Tended, EventInv, FailuresCounted
<1>8. \A s \in Sessions : Fresh(s)' => key'[s] = key[s] /\ key[s].holder # p
  BY <1>2, <1>4 DEF Tended, EventInv, KeyHeld, Fresh, HolderActs
<1>9. \A s \in Sessions : /\ ~Event(p, s) /\ (Asking(p, s) => Event(p, s)')
                          /\ (Waiting(s)' => Waiting(s))
                          /\ sess[s].attempts <= sess'[s].attempts
  BY <1>1, <1>2, <1>4 DEF Event, Asking, Waiting, IInv, TypeOK, Session
<1> QED BY <1>2, <1>3, <1>6, <1>7, <1>8, <1>9, TendedKeeps

-----------------------------------------------------------------------------
(* The steps of an event under way.                                          *)

LEMMA FailsEvent ==
  ASSUME TypeOK, NEW p \in Requests, NEW again \in BOOLEAN, Fails(p, again)
  PROVE  pc'[p] = "fail" /\ mem'[p].again = again
<1>1. p \in Procs /\ p \notin Staff
  BY CheckInAssumption DEF Procs
<1> DEFINE m == [mem[p] EXCEPT !.seen = {}, !.left = {}, !.again = again]
<1>2. mem'[p] = m
  BY <1>1 DEF Fails, TypeOK
<1>3. m.again = again
  BY <1>1, MemoryParts DEF Memory
<1> QED BY <1>1, <1>2, <1>3 DEF Fails, Goto, TypeOK

(* The steps on the way to the answer stay with their session.               *)
Moving(p) == \/ Precheck(p) \/ FindReceipt(p) \/ ReadContext(p) \/ Refresh(p) \/ Reserve(p)
             \/ ReadKey(p) \/ TakeOver(p) \/ (\E b \in Batches : Post(p, b)) \/ Recheck(p)
             \/ FailKey(p) \/ Finalize(p) \/ RecordFailure(p)

LEMMA SameSession ==
  ASSUME TypeOK, NEW p \in Procs, Moving(p)
  PROVE  mem'[p].s = mem[p].s /\ mem'[p].tries = mem[p].tries
<1>1. mem[p] \in Memory
  BY DEF TypeOK
<1>2. ASSUME NEW again \in BOOLEAN, Fails(p, again)
      PROVE  mem'[p].s = mem[p].s /\ mem'[p].tries = mem[p].tries
  BY <1>2, FailsTyped
<1>3. CASE Precheck(p) \/ FindReceipt(p) \/ Finalize(p)
  BY <1>3 DEF Precheck, FindReceipt, Finalize
<1>4. CASE ReadContext(p) \/ Refresh(p)
  <2>1. CASE \E again \in BOOLEAN : Fails(p, again)
    BY <1>2, <2>1
  <2>2. CASE mem' = mem \/ \E seen \in Shown : mem' = [mem EXCEPT ![p].seen = seen]
    BY <1>1, <2>2 DEF TypeOK, Memory
  <2> QED BY <1>4, <2>1, <2>2 DEF ReadContext, Refresh
<1>5. CASE Reserve(p) \/ ReadKey(p) \/ TakeOver(p)
  <2>1. CASE mem' = mem
    BY <2>1
  <2>2. CASE mem' = Forget(p)
    BY <2>2, ForgetTyped
  <2>3. ASSUME NEW continued \in BOOLEAN, Proceed(p, continued)
        PROVE  mem'[p].s = mem[p].s /\ mem'[p].tries = mem[p].tries
    BY <1>1, <2>3 DEF Proceed, TypeOK, Memory
  <2> QED BY <1>5, <2>1, <2>2, <2>3 DEF Reserve, ReadKey, TakeOver
<1>6. CASE (\E b \in Batches : Post(p, b)) \/ Recheck(p)
  <2>1. CASE \E again \in BOOLEAN : Fails(p, again)
    BY <1>2, <2>1
  <2>2. CASE \/ \E b \in Batches : mem' = [mem EXCEPT ![p].left = @ \ {b}]
             \/ mem' = [mem EXCEPT ![p].left = {}]
             \/ mem' = [mem EXCEPT ![p] = [@ EXCEPT !.left = {}, !.again = TRUE]]
             \/ mem' = [mem EXCEPT ![p].again = FALSE]
    BY <1>1, <2>2 DEF TypeOK, Memory
  <2> QED BY <1>6, <2>1, <2>2 DEF Post, Recheck
<1>7. CASE FailKey(p)
  BY <1>1, <1>2, <1>7 DEF FailKey, Memory
<1>8. CASE RecordFailure(p)
  BY <1>8, ForgetTyped DEF RecordFailure
<1> QED BY <1>3, <1>4, <1>5, <1>6, <1>7, <1>8 DEF Moving

(* Who finds a fresh key of a waiting session: its holder has an event for   *)
(* that session under way.                                                   *)
LEMMA HolderWaits ==
  ASSUME IInv, Tended, NEW s \in Sessions, Fresh(s), Waiting(s)
  PROVE  key[s].holder \in Requests /\ Event(key[s].holder, s)
<1>1. HolderActs(s) /\ FailuresCounted(s)
  BY DEF Tended, EventInv, KeyHeld
<1> QED BY <1>1 DEF HolderActs, FailuresCounted, Waiting, Event

(* An event moves on without effect on the rows.                             *)
LEMMA EventMoves ==
  ASSUME IInv, IInv', Tended, NEW p \in Requests, pc[p] \in Due, UNCHANGED <<sess, key>>,
         \A q \in Procs \ {p} : pc'[q] = pc[q] /\ mem'[q] = mem[q],
         mem'[p].s = mem[p].s, mem[p].tries <= mem'[p].tries, pc'[p] \in Due \cup {"done"},
         Counted(p)',
         Fresh(mem[p].s) /\ key[mem[p].s].holder = p =>
           pc'[p] \in Busy \cup {"fail"} /\ (pc'[p] = "fail" => mem'[p].again),
         pc'[p] = "done" /\ Waiting(mem[p].s) =>
           \E q \in Requests \ {p} : Event(q, mem[p].s)
  PROVE  Tended'
<1>1. p \in Procs /\ mem[p].tries \in 0..Tries /\ mem'[p].tries \in 0..Tries
  BY DEF Procs, IInv, TypeOK, Memory
<1>2. mem[p].tries > 0 /\ mem'[p].tries > 0
  BY <1>1, Constants DEF Tended, EventInv, Counted
<1>3. \A s \in Sessions : FailuresCounted(s)'
  BY DEF Tended, EventInv, FailuresCounted
<1>4. ASSUME NEW s \in Sessions, Fresh(s)'
      PROVE  HolderActs(s)' \/ (key'[s] = key[s] /\ key[s].holder # p)
  <2>1. Fresh(s) /\ HolderActs(s)
    BY <1>4 DEF Tended, EventInv, KeyHeld, Fresh
  <2>2. ASSUME key[s].holder = p PROVE HolderActs(s)'
    <3>1. mem[p].s = s
      BY <2>1, <2>2 DEF HolderActs
    <3>2. pc'[p] \in Busy \cup {"fail"} /\ (pc'[p] = "fail" => mem'[p].again)
      BY <2>1, <2>2, <3>1
    <3> QED BY <1>2, <2>2, <3>1, <3>2 DEF HolderActs, Busy, Calling
  <2> QED BY <2>2
<1>5. \A s \in Sessions : /\ ~Asking(p, s) /\ (Waiting(s)' <=> Waiting(s))
                          /\ sess[s].attempts <= sess'[s].attempts
  BY DEF Asking, Waiting, Due, Checked, Unused, Busy, Calling, IInv, TypeOK, Session
<1>6. ASSUME NEW s \in Sessions, Waiting(s)', Event(p, s) PROVE \E q \in Requests : Event(q, s)'
  <2>1. mem[p].s = s
    BY <1>6 DEF Event
  <2>2. CASE pc'[p] # "done"
    BY <1>2, <2>1, <2>2 DEF Event
  <2>3. CASE pc'[p] = "done"
    <3>1. PICK q \in Requests \ {p} : Event(q, s)
      BY <1>5, <1>6, <2>1, <2>3
    <3> QED BY <3>1 DEF Event, Procs
  <2> QED BY <2>2, <2>3
<1> QED BY <1>3, <1>4, <1>5, <1>6, TendedKeeps
LEMMA EventOn ==
  ASSUME IInv, IInv', Tended, NEW p \in Requests, pc[p] \in {"precheck"} \cup Checked,
         UNCHANGED <<sess, key>>, Arrive(p) \/ Work(p), Moving(p),
         pc'[p] \in Checked \cup {"fail", "done"},
         pc[p] = "precheck" /\ pc'[p] # "done" => sess[mem[p].s].sync = "confirmed",
         pc'[p] \in {"claim", "takeover"} => key[mem[p].s].status # "none",
         pc[p] \in Busy => pc'[p] \in Busy \cup {"fail"} /\ (pc'[p] = "fail" => mem'[p].again),
         pc'[p] = "done" /\ Waiting(mem[p].s) =>
           \E q \in Requests \ {p} : Event(q, mem[p].s)
  PROVE  Tended'
<1>1. p \in Procs /\ mem[p].s \in Sessions /\ mem[p].tries \in 0..Tries
  BY DEF Procs, IInv, TypeOK, Memory, OnItsWay, Early, Checked, Unused, Busy, Calling
<1>2. /\ \A q \in Procs \ {p} : pc'[q] = pc[q] /\ mem'[q] = mem[q]
      /\ mem'[p].s = mem[p].s /\ mem'[p].tries = mem[p].tries
  BY <1>1, ActorMoves, SameSession DEF IInv
<1>3. Counted(p) /\ KeyHeld(mem[p].s)
  BY <1>1 DEF Tended, EventInv
<1>4. Counted(p)'
  BY <1>1, <1>2, <1>3 DEF Counted, Due, Checked, Unused, Busy, Calling
<1>5. Fresh(mem[p].s) /\ key[mem[p].s].holder = p => pc[p] \in Busy
  BY <1>1, <1>3 DEF KeyHeld, HolderActs, Checked, Unused, Busy, Calling
<1>6. mem[p].tries <= mem'[p].tries /\ pc[p] \in Due /\ pc'[p] \in Due \cup {"done"}
  BY <1>1, <1>2 DEF Due
<1> QED BY <1>2, <1>4, <1>5, <1>6, EventMoves

(* A process before it has the key does not hold it. *)
LEMMA WayTended ==
  ASSUME IInv, IInv', Tended, NEW p \in Requests,
         Precheck(p) \/ FindReceipt(p) \/ ReadContext(p) \/ Refresh(p)
  PROVE  Tended'
<1>1. p \in Procs /\ Work(p) /\ Moving(p) /\ UNCHANGED <<sess, key>>
  BY DEF Procs, Work, Moving, Precheck, FindReceipt, ReadContext, Refresh, Stay
<1>2. ASSUME NEW again \in BOOLEAN, Fails(p, again) PROVE pc'[p] = "fail"
  BY <1>2, FailsEvent DEF IInv
<1>3. CASE Precheck(p)
  <2>1. /\ pc[p] = "precheck"
        /\ \/ pc'[p] = "receipt" /\ Admissible(mem[p].s)
           \/ pc'[p] = "done" /\ ~Admissible(mem[p].s)
    BY <1>1, <1>3 DEF Precheck, At, Goto, IInv, TypeOK
  <2> QED BY <1>1, <2>1, EventOn DEF Admissible, Waiting, Checked, Unused, Busy, Calling
<1>4. CASE FindReceipt(p) \/ ReadContext(p) \/ Refresh(p)
  <2>1. /\ pc[p] \in {"receipt", "context", "reread", "refresh"}
        /\ pc'[p] \in {"finalize", "context", "fail", "refresh", "reserve", "reread"}
    BY <1>1, <1>2, <1>4 DEF FindReceipt, ReadContext, Refresh, At, Goto, IInv, TypeOK
  <2> QED BY <1>1, <2>1, EventOn DEF Checked, Unused, Busy, Calling
<1> QED BY <1>3, <1>4

(* The calls of ROLLER, and the reading of the booking after a refusal.      *)
LEMMA CallTended ==
  ASSUME IInv, IInv', Tended, NEW p \in Requests,
         Recheck(p) \/ \E b \in Batches : Post(p, b)
  PROVE  Tended'
<1>1. p \in Procs /\ Work(p) /\ Moving(p) /\ UNCHANGED <<sess, key>>
  BY DEF Procs, Work, Moving, Post, Recheck, Stay
<1>2. ASSUME Fails(p, TRUE) PROVE pc'[p] = "fail" /\ mem'[p].again
  BY <1>2, FailsEvent DEF IInv
<1>3. pc[p] \in {"post", "after409"}
  BY DEF Post, Recheck, At
<1>4. \/ pc'[p] \in {"finalize", "post", "after409", "unkey"}
      \/ pc'[p] = "fail" /\ mem'[p].again
  BY <1>1, <1>2 DEF Post, Recheck, Goto, IInv, TypeOK
<1> QED BY <1>1, <1>3, <1>4, EventOn DEF Checked, Unused, Busy, Calling

(* Who gives up before a fresh key, or before a key taken in the meantime,   *)
(* is not the one that holds it.                                             *)
LEMMA GivesUp ==
  ASSUME IInv, Tended, NEW p \in Requests, NEW s \in Sessions, mem[p].s = s,
         pc[p] \in {"claim", "takeover"}, ~Takeable(key[s]), Waiting(s)
  PROVE  \E q \in Requests \ {p} : Event(q, s)
<1>1. p \in Procs /\ Counted(p) /\ KeyHeld(s)
  BY DEF Procs, Tended, EventInv
<1>2. key[s].status # "none" /\ key[s].status # "succeeded"
  BY <1>1 DEF Counted, IInv, RowsAgree, Waiting
<1>3. Fresh(s)
  BY <1>2 DEF Takeable, Fresh, IInv, TypeOK, Key
<1>4. key[s].holder # p
  BY <1>1, <1>3 DEF KeyHeld, HolderActs, Busy, Calling
<1> QED BY <1>3, <1>4, HolderWaits

LEMMA ReadKeyTended ==
  ASSUME IInv, IInv', Tended, NEW p \in Requests, ReadKey(p) PROVE Tended'
<1>1. p \in Procs /\ Work(p) /\ Moving(p) /\ UNCHANGED <<sess, key>> /\ pc[p] = "claim"
  BY DEF Procs, Work, Moving, ReadKey, Stay, At
<1>2. mem[p].s \in Sessions /\ key[mem[p].s].status # "none"
  BY <1>1 DEF Tended, EventInv, Counted, IInv, OnItsWay, Early
<1>3. \/ pc'[p] = "finalize"
      \/ pc'[p] = "done" /\ ~Takeable(key[mem[p].s])
      \/ pc'[p] = "takeover"
  BY <1>1 DEF ReadKey, Goto, IInv, TypeOK, Takeable
<1>4. pc'[p] = "done" /\ Waiting(mem[p].s) => \E q \in Requests \ {p} : Event(q, mem[p].s)
  BY <1>1, <1>2, <1>3, GivesUp
<1> QED BY <1>1, <1>2, <1>3, <1>4, EventOn DEF Checked, Unused, Busy, Calling

LEMMA RetryTended ==
  ASSUME IInv, IInv', Tended, NEW p \in Requests, Retry(p) PROVE Tended'
<1>1. p \in Procs /\ UNCHANGED <<sess, key>> /\ pc[p] = "delay" /\ mem[p] \in Memory /\ Work(p)
  BY DEF Procs, Retry, Stay, At, IInv, TypeOK, Work
<1>2. mem[p].s \in Sessions /\ mem[p].tries \in Nat
  BY <1>1 DEF IInv, OnItsWay, Early, Memory
<1>3. /\ pc'[p] = "precheck" /\ mem'[p].s = mem[p].s /\ mem'[p].tries = mem[p].tries + 1
  BY <1>1 DEF Retry, Goto, IInv, TypeOK, Memory
<1>4. \A q \in Procs \ {p} : pc'[q] = pc[q] /\ mem'[q] = mem[q]
  BY <1>1, ActorMoves DEF IInv
<1>5. Counted(p)'
  <2>1. Counted(p) /\ sess[mem[p].s].attempts \in Nat
    BY <1>1, <1>2, Constants DEF Tended, EventInv, IInv, TypeOK, Session
  <2> QED BY <1>1, <1>2, <1>3, <2>1 DEF Counted, Due, Checked, Unused, Busy, Calling
<1>6. ~(Fresh(mem[p].s) /\ key[mem[p].s].holder = p)
  BY DEF Retry, Fresh
<1>7. mem[p].tries <= mem'[p].tries
  BY <1>2, <1>3
<1>8. pc[p] \in Due /\ pc'[p] \in Due /\ pc'[p] # "done"
  BY <1>1, <1>3 DEF Due
<1> QED BY <1>1, <1>3, <1>4, <1>5, <1>6, <1>7, <1>8, EventMoves

(* A step of an event that changes its own key. *)
LEMMA KeyTended ==
  ASSUME IInv, IInv', Tended, NEW p \in Requests, pc[p] \in Checked, UNCHANGED sess,
         Work(p), Moving(p), NEW s \in Sessions, mem[p].s = s,
         \A t \in Sessions \ {s} : key'[t] = key[t],
         key'[s].status # "none", pc'[p] \in Busy \cup {"fail"},
         Fresh(s)' => key'[s].holder = p /\ pc'[p] \in Busy
  PROVE  Tended'
<1>1. p \in Procs /\ mem[p].tries \in 0..Tries
  BY DEF Procs, IInv, TypeOK, Memory
<1>2. /\ \A q \in Procs \ {p} : pc'[q] = pc[q] /\ mem'[q] = mem[q]
      /\ mem'[p].s = s /\ mem'[p].tries = mem[p].tries
  BY <1>1, ActorMoves, SameSession DEF IInv
<1>3. Counted(p) /\ mem[p].tries > 0
  BY <1>1 DEF Tended, EventInv, Counted, Due
<1>4. Counted(p)'
  BY <1>2, <1>3 DEF Counted, Due, Checked, Unused, Busy, Calling
<1>5. \A t \in Sessions : FailuresCounted(t)'
  BY DEF Tended, EventInv, FailuresCounted
<1>6. ASSUME NEW t \in Sessions, Fresh(t)'
      PROVE  HolderActs(t)' \/ (key'[t] = key[t] /\ key[t].holder # p)
  <2>1. CASE t = s
    BY <1>2, <1>3, <1>6, <2>1 DEF HolderActs, Busy, Calling
  <2>2. CASE t # s
    BY <1>6, <2>2 DEF Fresh, Tended, EventInv, KeyHeld, HolderActs
  <2> QED BY <2>1, <2>2
<1>7. sess[s].status \in {"ready", "redeemed"}
  BY <1>1 DEF IInv, OnItsWay
<1>8. \A t \in Sessions : /\ ~Asking(p, t) /\ (Waiting(t)' => Waiting(t))
                          /\ (Event(p, t) => Event(p, t)')
                          /\ sess[t].attempts <= sess'[t].attempts
  BY <1>2, <1>3 DEF Asking, Waiting, Event, Checked, Unused, Busy, Calling, IInv, TypeOK, Session
<1>9. \A t \in Sessions : /\ key[t].status # "none" => key'[t].status # "none"
                          /\ key'[t].status # "none" => \/ key[t].status # "none"
                                                        \/ sess[t].status \in {"ready", "redeemed"}
  BY <1>7
<1> QED BY <1>2, <1>4, <1>5, <1>6, <1>8, <1>9, TendedKeeps

LEMMA TakeTended ==
  ASSUME IInv, IInv', Tended, NEW p \in Requests, Reserve(p) \/ TakeOver(p) PROVE Tended'
<1> DEFINE s == mem[p].s
<1>1. /\ p \in Procs /\ Work(p) /\ Moving(p) /\ UNCHANGED sess
      /\ pc[p] \in {"reserve", "takeover"} /\ pc[p] \in Checked
  BY DEF Procs, Work, Moving, Reserve, TakeOver, At, Checked, Unused
<1>2. s \in Sessions
  BY <1>1 DEF IInv, OnItsWay, Early
<1>3. ASSUME Take(p), NEW continued \in BOOLEAN, Proceed(p, continued) PROVE Tended'
  <2>1. /\ \A t \in Sessions \ {s} : key'[t] = key[t]
        /\ key'[s] = [status |-> "in_progress", holder |-> p, stale |-> FALSE]
    BY <1>2, <1>3 DEF Take, IInv, TypeOK
  <2>2. pc'[p] \in {"post", "finalize"}
    BY <1>1, <1>3 DEF Proceed, Goto, IInv, TypeOK
  <2> QED BY <1>1, <1>2, <2>1, <2>2, KeyTended DEF Busy, Calling
<1>4. CASE Reserve(p) /\ key[s].status # "none"
  <2>1. pc'[p] = "claim" /\ UNCHANGED key /\ pc[p] = "reserve"
    BY <1>1, <1>4 DEF Reserve, Goto, IInv, TypeOK, At
  <2> QED BY <1>1, <1>4, <2>1, EventOn DEF Checked, Unused, Busy, Calling
<1>5. CASE TakeOver(p) /\ ~Takeable(key[s])
  <2>1. pc'[p] = "done" /\ UNCHANGED key /\ pc[p] = "takeover"
    BY <1>1, <1>5 DEF TakeOver, Goto, IInv, TypeOK, At
  <2>2. Waiting(s) => \E q \in Requests \ {p} : Event(q, s)
    BY <1>2, <1>5, <2>1, GivesUp
  <2> QED BY <1>1, <2>1, <2>2, EventOn DEF Checked, Unused, Busy, Calling
<1> QED BY <1>3, <1>4, <1>5 DEF Reserve, TakeOver

LEMMA FailKeyTended ==
  ASSUME IInv, IInv', Tended, NEW p \in Requests, FailKey(p) PROVE Tended'
<1> DEFINE s == mem[p].s
<1>1. /\ p \in Procs /\ Work(p) /\ Moving(p) /\ UNCHANGED sess
      /\ pc[p] = "unkey" /\ pc[p] \in Checked /\ mem[p].again \in BOOLEAN
  BY DEF Procs, Work, Moving, FailKey, At, Checked, Busy, Calling, IInv, TypeOK, Memory
<1>2. s \in Sessions
  BY <1>1 DEF IInv, OnItsWay, Early
<1>3. key[s] \in Key
  BY <1>2 DEF IInv, TypeOK
<1>4. /\ \A t \in Sessions \ {s} : key'[t] = key[t]
      /\ key'[s].status = "failed"
  BY <1>2, <1>3 DEF FailKey, IInv, TypeOK, Key
<1>5. pc'[p] = "fail"
  BY <1>1, FailsEvent DEF FailKey, IInv
<1> QED BY <1>1, <1>2, <1>4, <1>5, KeyTended DEF Fresh

(* A receipt ends the waiting. *)
LEMMA FinalizeTended ==
  ASSUME IInv, IInv', Tended, NEW p \in Requests, Finalize(p) PROVE Tended'
<1> DEFINE s == mem[p].s
<1>1. /\ p \in Procs /\ Work(p) /\ Moving(p) /\ pc[p] = "finalize" /\ pc'[p] = "done"
      /\ mem' = mem
  BY DEF Procs, Work, Moving, Finalize, At, Goto, IInv, TypeOK
<1>2. s \in Sessions /\ sess[s] \in Session /\ key[s] \in Key /\ mem[p].tries \in 0..Tries
  BY <1>1 DEF IInv, OnItsWay, Early, TypeOK, Memory
<1>3. \A q \in Procs \ {p} : pc'[q] = pc[q] /\ mem'[q] = mem[q]
  BY <1>1, ActorMoves DEF IInv
<1>4. Counted(p) /\ KeyHeld(s) /\ sess[s].status \in {"ready", "redeemed"}
  BY <1>1, <1>2 DEF Tended, EventInv, IInv, OnItsWay, Checked, Busy
<1>5. /\ \A t \in Sessions \ {s} : key'[t] = key[t] /\ sess'[t] = sess[t]
      /\ sess'[s] = [sess[s] EXCEPT !.status = "redeemed"]
      /\ key'[s] = ReceiptKey(key[s])
  BY <1>2 DEF Finalize, IInv, TypeOK
<1>6. /\ sess'[s].status = "redeemed" /\ sess'[s].sync = sess[s].sync
      /\ sess'[s].auto = sess[s].auto /\ sess'[s].attempts = sess[s].attempts
      /\ key'[s].status \in {"none", "succeeded"}
      /\ key'[s].status = "none" <=> key[s].status = "none"
  BY <1>2, <1>5 DEF Session, Key, ReceiptKey
<1>7. Counted(p)'
  BY <1>1, <1>4 DEF Counted, Due, Checked, Unused, Busy, Calling
<1>8. ASSUME NEW t \in Sessions PROVE FailuresCounted(t)'
  <2>1. FailuresCounted(t)
    BY DEF Tended, EventInv
  <2>2. CASE t = s
    BY <1>6, <2>1, <2>2 DEF FailuresCounted
  <2>3. CASE t # s
    BY <1>5, <2>1, <2>3 DEF FailuresCounted
  <2> QED BY <2>2, <2>3
<1>9. ASSUME NEW t \in Sessions, Fresh(t)'
      PROVE  key'[t] = key[t] /\ key[t].holder # p
  <2>1. t # s
    BY <1>6, <1>9 DEF Fresh
  <2> QED BY <1>5, <1>9, <2>1 DEF Fresh, Tended, EventInv, KeyHeld, HolderActs
<1>10. ASSUME NEW t \in Sessions
       PROVE  /\ sess[t].attempts <= sess'[t].attempts
              /\ sess[t].sync = "confirmed" => sess'[t].sync = "confirmed"
              /\ sess[t].status \in {"ready", "redeemed"}
                   => sess'[t].status \in {"ready", "redeemed"}
              /\ key[t].status # "none" <=> key'[t].status # "none"
              /\ ~Asking(p, t)
              /\ Waiting(t)' => Waiting(t) /\ sess'[t].auto = sess[t].auto /\ ~Event(p, t)
  <2>1. sess[t].attempts \in Nat
    BY Constants DEF IInv, TypeOK, Session
  <2>2. ~Asking(p, t)
    BY <1>1 DEF Asking
  <2>3. CASE t = s
    BY <1>6, <2>1, <2>2, <2>3 DEF Waiting
  <2>4. CASE t # s
    BY <1>5, <2>1, <2>2, <2>4 DEF Waiting, Event
  <2> QED BY <2>3, <2>4
<1> QED BY <1>3, <1>7, <1>8, <1>9, <1>10, TendedKeeps

(* A failure is counted.  As long as it is not the last one, Lambda's retries *)
(* are not used up either, and the event is invoked again.                   *)
LEMMA RecordFailureTended ==
  ASSUME MaxAttempts <= Tries, IInv, IInv', Tended, NEW p \in Requests, RecordFailure(p)
  PROVE  Tended'
<1> DEFINE s == mem[p].s
           counted == IF sess[s].attempts < MaxAttempts THEN sess[s].attempts + 1
                      ELSE sess[s].attempts
           said == IF TriesAgain(p) THEN "retrying" ELSE "needs_staff"
<1>1. /\ p \in Procs /\ Work(p) /\ Moving(p) /\ UNCHANGED key /\ pc[p] = "fail"
      /\ pc'[p] = IF TriesAgain(p) THEN AfterThrow(p) ELSE "done"
  BY DEF Procs, Work, Moving, RecordFailure, At, Goto, IInv, TypeOK
<1>2. s \in Sessions /\ sess[s] \in Session /\ mem[p].tries \in 0..Tries
  BY <1>1 DEF IInv, OnItsWay, Early, TypeOK, Memory
<1>3. /\ \A q \in Procs \ {p} : pc'[q] = pc[q] /\ mem'[q] = mem[q]
      /\ mem'[p].s = s /\ mem'[p].tries = mem[p].tries
  BY <1>1, ActorMoves, SameSession DEF IInv
<1>4. /\ Counted(p) /\ KeyHeld(s) /\ FailuresCounted(s)
      /\ sess[s].attempts \in 0..MaxAttempts /\ Tries \in Nat /\ MaxAttempts = 3
  BY <1>1, <1>2, Constants DEF Tended, EventInv, Session
<1>5. /\ mem[p].tries > 0 /\ mem[p].tries <= sess[s].attempts + 1
      /\ sess[s].sync = "confirmed"
  BY <1>1, <1>4 DEF Counted, Due
<1>6. Fresh(s) /\ key[s].holder = p => mem[p].again /\ sess[s].status = "ready"
  BY <1>1, <1>2, <1>4 DEF KeyHeld, HolderActs, Fresh, IInv, RowsAgree
<1>7. CASE sess[s].status # "ready"
  <2>1. sess' = sess /\ pc'[p] = "done"
    BY <1>1, <1>7 DEF RecordFailure, TriesAgain
  <2>2. Counted(p)'
    BY <1>1, <2>1 DEF Counted, Due, Checked, Unused, Busy, Calling
  <2>3. pc[p] \in Due /\ mem[p].tries <= mem'[p].tries /\ ~Waiting(s)
    BY <1>1, <1>2, <1>3, <1>7 DEF Due, Waiting
  <2> QED BY <1>1, <1>3, <1>6, <1>7, <2>1, <2>2, <2>3, EventMoves
<1>8. CASE sess[s].status = "ready"
  <2>1. /\ \A t \in Sessions \ {s} : sess'[t] = sess[t]
        /\ sess'[s] = [sess[s] EXCEPT !.attempts = counted, !.auto = said]
    BY <1>2, <1>8 DEF RecordFailure, IInv, TypeOK
  <2>2. /\ sess'[s].status = "ready" /\ sess'[s].sync = "confirmed"
        /\ sess'[s].attempts = counted /\ sess'[s].auto = said
    BY <1>2, <1>5, <1>8, <2>1 DEF Session
  <2>3. TriesAgain(p) => /\ counted = sess[s].attempts + 1 /\ counted < MaxAttempts
                         /\ mem[p].tries < Tries /\ pc'[p] = "delay"
    BY <1>1, <1>2, <1>4, <1>5 DEF TriesAgain, AfterThrow
  <2>4. ~TriesAgain(p) => pc'[p] = "done" /\ (mem[p].again => counted = MaxAttempts)
    BY <1>1, <1>4, <1>8 DEF TriesAgain
  <2>5. sess[s].attempts <= counted
    BY <1>4
  <2>6. Counted(p)'
    <3>1. CASE TriesAgain(p)
      <4>1. mem[p].tries <= counted /\ sess'[s].attempts = counted /\ counted \in Nat
        BY <1>4, <1>5, <2>2, <2>3, <3>1
      <4>2. pc'[p] = "delay" /\ mem[p].tries <= counted + 1
        BY <1>2, <2>3, <3>1, <4>1
      <4> HIDE DEF counted
      <4> QED BY <1>3, <1>5, <2>2, <4>1, <4>2
              DEF Counted, Due, Checked, Unused, Busy, Calling
    <3>2. CASE ~TriesAgain(p)
      BY <1>1, <2>4, <3>2 DEF Counted, Due, Checked, Unused, Busy, Calling
    <3> QED BY <3>1, <3>2
  <2> HIDE DEF counted
  <2>7. ASSUME NEW t \in Sessions PROVE FailuresCounted(t)'
    <3>1. CASE t = s
      <4>1. CASE TriesAgain(p)
        BY <1>4, <2>2, <2>3, <3>1, <4>1 DEF FailuresCounted
      <4>2. CASE ~TriesAgain(p)
        BY <2>2, <3>1, <4>2 DEF FailuresCounted
      <4> QED BY <4>1, <4>2
    <3>2. CASE t # s
      BY <2>1, <3>2 DEF FailuresCounted, Tended, EventInv
    <3> QED BY <3>1, <3>2
  <2>8. ASSUME NEW t \in Sessions, Fresh(t)'
        PROVE  HolderActs(t)' \/ (key'[t] = key[t] /\ key[t].holder # p)
    <3>1. Fresh(t)
      BY <1>1, <2>8 DEF Fresh
    <3>2. CASE key[t].holder = p
      <4>1. t = s
        BY <3>1, <3>2 DEF Tended, EventInv, KeyHeld, HolderActs
      <4>2. pc'[p] = "delay" \/ (pc'[p] = "done" /\ counted = MaxAttempts)
        BY <1>6, <2>3, <2>4, <3>1, <3>2, <4>1
      <4> QED BY <1>1, <1>3, <1>5, <2>2, <3>2, <4>1, <4>2 DEF HolderActs
    <3> QED BY <1>1, <3>2
  <2>9. ASSUME NEW t \in Sessions
        PROVE  /\ sess[t].attempts <= sess'[t].attempts
               /\ sess[t].sync = "confirmed" => sess'[t].sync = "confirmed"
               /\ sess[t].status \in {"ready", "redeemed"}
                    => sess'[t].status \in {"ready", "redeemed"}
               /\ ~Asking(p, t)
               /\ Waiting(t)' => (Waiting(t) /\ sess'[t].auto = sess[t].auto) \/ Event(p, t)'
               /\ Waiting(t)' /\ Event(p, t) => Event(p, t)'
    <3>1. sess[t].attempts \in Nat /\ ~Asking(p, t)
      BY <1>1, Constants DEF IInv, TypeOK, Session, Asking
    <3>2. CASE t = s /\ TriesAgain(p)
      BY <1>3, <1>5, <2>2, <2>3, <2>5, <3>1, <3>2 DEF Event
    <3>3. CASE t = s /\ ~TriesAgain(p)
      BY <2>2, <2>5, <3>1, <3>3 DEF Waiting
    <3>4. CASE t # s
      BY <2>1, <3>1, <3>4 DEF Waiting, Event
    <3> QED BY <3>2, <3>3, <3>4
  <2> QED BY <1>1, <1>3, <2>6, <2>7, <2>8, <2>9, TendedKeeps
<1> QED BY <1>7, <1>8

(* The steps of nobody: a key grows old, a call lands late. *)
LEMMA WorldTended ==
  ASSUME IInv, Tended, \/ \E s \in Sessions : KeyAges(s) \/ SessionLapses(s)
                       \/ \E b \in Batches : LateCallLands(b) \/ EnteredAtKassan(b)
  PROVE  Tended'
<1>1. UNCHANGED <<sess, pc, mem>>
  BY DEF KeyAges, SessionLapses, LateCallLands, EnteredAtKassan
<1>2. ASSUME NEW s \in Sessions
      PROVE  /\ key'[s].status = key[s].status
             /\ Fresh(s)' => Fresh(s) /\ key'[s].holder = key[s].holder
  <2>1. CASE UNCHANGED key
    BY <2>1 DEF Fresh
  <2>2. ASSUME NEW t \in Sessions, KeyAges(t)
        PROVE  /\ key'[s].status = key[s].status
               /\ Fresh(s)' => Fresh(s) /\ key'[s].holder = key[s].holder
    <3>1. key[t] \in Key
      BY DEF IInv, TypeOK
    <3>2. CASE s = t
      BY <2>2, <3>1, <3>2 DEF KeyAges, Fresh, Key, IInv, TypeOK
    <3>3. CASE s # t
      BY <2>2, <3>3 DEF KeyAges, Fresh, IInv, TypeOK
    <3> QED BY <3>2, <3>3
  <2> QED BY <2>1, <2>2 DEF SessionLapses, LateCallLands, EnteredAtKassan
<1>3. \A s \in Sessions : FailuresCounted(s)'
  BY <1>1 DEF Tended, EventInv, FailuresCounted
<1>4. \A s \in Sessions : KeyHeld(s)'
  BY <1>1, <1>2 DEF Tended, EventInv, KeyHeld, HolderActs
<1>5. ASSUME NEW p \in Procs PROVE Counted(p)'
  <2>1. pc[p] \in {"claim", "takeover"} => mem[p].s \in Sessions
    BY DEF IInv, OnItsWay, Early
  <2> QED BY <1>1, <1>2, <2>1 DEF Tended, EventInv, Counted
<1>6. Attended' /\ RetryingIsRetried'
  BY <1>1 DEF Tended, Attended, RetryingIsRetried, Event, Asking
<1> QED BY <1>3, <1>4, <1>5, <1>6 DEF Tended, EventInv

(* Nothing is waiting at the start. *)
LEMMA TendedInit == Init => Tended
<1> SUFFICES ASSUME Init PROVE Tended
  OBVIOUS
<1>1. \A s \in Sessions : /\ sess[s].status \in {"none", "guest"} /\ sess[s].auto = "none"
                          /\ sess[s].attempts = 0
  <2>1. \/ sess = [s \in Sessions |-> NoSession]
        \/ sess = [[s \in Sessions |-> NoSession] EXCEPT
                     ![Purchase] = [NoSession EXCEPT !.status = "guest", !.sync = "pending"]]
    BY DEF Init
  <2>2. CASE sess = [s \in Sessions |-> NoSession]
    BY <2>2 DEF NoSession
  <2> DEFINE bought == [NoSession EXCEPT !.status = "guest", !.sync = "pending"]
  <2>3. bought.status = "guest" /\ bought.auto = "none" /\ bought.attempts = 0
    BY DEF NoSession
  <2> HIDE DEF bought
  <2>4. CASE sess = [[s \in Sessions |-> NoSession] EXCEPT ![Purchase] = bought]
    BY <2>3, <2>4 DEF NoSession
  <2> QED BY <2>1, <2>2, <2>4 DEF bought
<1>2. EventInv
  BY <1>1, Constants DEF Init, EventInv, FailuresCounted, KeyHeld, Fresh, Counted, NoKey, Due, Checked,
     Unused, Busy, Calling
<1> QED BY <1>1, <1>2 DEF Tended, Attended, RetryingIsRetried

LEMMA TendedStep ==
  ASSUME MaxAttempts <= Tries, IInv, IInv', Undisturbed => Tended, [Next]_vars
  PROVE  (Undisturbed => Tended)'
<1>1. CASE UNCHANGED vars
  BY <1>1 DEF vars, Undisturbed, Tended, EventInv, FailuresCounted, KeyHeld, Fresh, HolderActs,
              Counted, Attended, RetryingIsRetried, Event, Asking
<1>2. ASSUME Next, Undisturbed' PROVE Tended'
  <2>1. Tended /\ (\/ \E p \in Requests : (Arrive(p) \/ Work(p)) /\ ~Loss
                   \/ \E s \in Sessions : KeyAges(s) \/ SessionLapses(s)
                   \/ \E b \in Batches : LateCallLands(b) \/ EnteredAtKassan(b))
    BY <1>2, UndisturbedBefore
  <2>2. ASSUME NEW p \in Requests, Arrive(p) \/ Work(p), ~Loss PROVE Tended'
    BY <2>1, <2>2, ArriveTended, StartTended, DispatchTended, WayTended, CallTended,
       ReadKeyTended, RetryTended, TakeTended, FailKeyTended, FinalizeTended,
       RecordFailureTended DEF Work
  <2> QED BY <2>1, <2>2, WorldTended
<1> QED BY <1>1, <1>2

(* As long as no invocation dies, no event is lost and staff do not redeem,  *)
(* a ready session of a confirmed booking that is not handed to staff has an *)
(* event under way, or one about to be sent: no order of ready requests,     *)
(* confirmations, failures and keys found taken strands a group.             *)
THEOREM AttendedAlways ==
  ASSUME MaxAttempts <= Tries PROVE Spec => [](Undisturbed => Attended)
<1>1. Init => (Undisturbed => Tended)
  BY TendedInit
<1>2. IInv /\ IInv' /\ (Undisturbed => Tended) /\ [Next]_vars => (Undisturbed => Tended)'
  BY TendedStep
<1>3. (Undisturbed => Tended) => (Undisturbed => Attended)
  BY DEF Tended
<1> QED BY <1>1, <1>2, <1>3, InvAlways, PTL DEF Spec

(* In the same circumstances, a session on retrying has an event that will   *)
(* try again (recordAutoCheckinFailure).                                     *)
THEOREM RetryingIsRetriedAlways ==
  ASSUME MaxAttempts <= Tries PROVE Spec => [](Undisturbed => RetryingIsRetried)
<1>1. Init => (Undisturbed => Tended)
  BY TendedInit
<1>2. IInv /\ IInv' /\ (Undisturbed => Tended) /\ [Next]_vars => (Undisturbed => Tended)'
  BY TendedStep
<1>3. (Undisturbed => Tended) => (Undisturbed => RetryingIsRetried)
  BY DEF Tended
<1> QED BY <1>1, <1>2, <1>3, InvAlways, PTL DEF Spec

(* The same of a guest's own requests alone, when no invocation dies and no  *)
(* event is lost: what the run of the automatic check-in looks at.           *)
THEOREM RetryingIsRetriedAlone ==
  ASSUME MaxAttempts <= Tries, Staff = {}, MaxCrashes = 0
  PROVE  Spec => []RetryingIsRetried
<1>1. IInv => Undisturbed
  BY DEF IInv, TypeOK, Undisturbed
<1> QED BY <1>1, InvAlways, RetryingIsRetriedAlways, PTL
=============================================================================
