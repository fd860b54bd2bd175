------------------------------ MODULE StaffPins ------------------------------
(***************************************************************************)
(* Personal staff PINs: the sign-in of staff (infra/lambda/session), the   *)
(* administrators who issue and withdraw PINs, and the rotation of the     *)
(* secret all PINs are derived from, its pepper                            *)
(* (infra/scripts/rotate-staff-pin-pepper.ts).                             *)
(*                                                                         *)
(* The database keeps each person's PIN material, the sessions and the     *)
(* version fence; Secrets Manager keeps the pepper, with the stages        *)
(* AWSCURRENT and AWSPENDING.  No transaction spans the two.  A PIN found  *)
(* in the database and verified outside of it, a pepper read before the    *)
(* write that uses it and a stage read before the fence moves are each     *)
(* used later, when others may have written.                               *)
(***************************************************************************)
EXTENDS Naturals, FiniteSets

CONSTANTS People, Pins, Logins, Admins, Operators,
          MaxVersion,  \* bound on pepper versions
          MaxWrites,   \* bound on PINs issued
          None

Version == 1..MaxVersion
SecretId == [v : Version, id : Nat]

ASSUME PinAssumption ==
  /\ None \notin People \cup Pins \cup SecretId
  /\ MaxVersion \in Nat \ {0} /\ MaxWrites \in Nat

VARIABLES
  people,    \* staff_identities of provider local_pin
  sessions,  \* unrevoked staff_auth_sessions of PINs
  adminIn,   \* administrators with an unrevoked session
  fence,     \* staff_pin_pepper_state.current_version
  current,   \* the secret version staged AWSCURRENT
  pending,   \* the one staged AWSPENDING, or None
  writes,    \* PINs issued so far; numbers the salted verifiers
  puts,      \* peppers staged so far; numbers the secret versions
  login, admin, op,  \* what each invocation is doing and remembers
  late       \* history, read by a property only: the last staging put its
             \* version after the current one it had read was replaced

secret == <<current, pending, puts, late>>
vars == <<people, sessions, adminIn, fence, secret, writes, login, admin, op>>

Person == [status : {"none", "on", "off", "gone"}, pin : Pins \cup {None},
           ver : Nat, cred : Nat]
Session == [by : Logins, who : People, cred : Nat]

TypeOK ==
  /\ people \in [People -> Person]
  /\ sessions \subseteq Session
  /\ adminIn \subseteq Admins
  /\ fence \in Version
  /\ current \in SecretId /\ pending \in SecretId \cup {None}
  /\ writes \in Nat /\ puts \in Nat /\ late \in BOOLEAN
  /\ login \in [Logins -> [at : {"idle", "verified", "locked", "insert"},
                           who : People \cup {None}, cred : Nat, seen : SUBSET Session]]
  /\ admin \in [Admins -> [at : {"idle", "create", "reset", "enable", "disable"},
                           who : People \cup {None}, pin : Pins \cup {None}, ver : Nat]]
  /\ op \in [Operators -> [at : {"idle", "stage", "clear", "fence", "move", "cleanup"},
                           cur : SecretId \cup {None}, pen : SecretId \cup {None}]]

NoLogin == [at |-> "idle", who |-> None, cred |-> 0, seen |-> {}]
NoAdmin == [at |-> "idle", who |-> None, pin |-> None, ver |-> 0]
NoOp    == [at |-> "idle", cur |-> None, pen |-> None]

Init ==
  /\ people = [i \in People |-> [status |-> "none", pin |-> None, ver |-> 0, cred |-> 0]]
  /\ sessions = {} /\ adminIn = {} /\ fence = 1 /\ writes = 0 /\ puts = 0
  /\ current = [v |-> 1, id |-> 0] /\ pending = None /\ late = FALSE
  /\ login = [p \in Logins |-> NoLogin]
  /\ admin = [a \in Admins |-> NoAdmin]
  /\ op = [o \in Operators |-> NoOp]

Enrolled(i) == people[i].pin # None
Local(i) == people[i].status \in {"on", "off"}
SessionsOf(i) == {s \in sessions : s.who = i}

-----------------------------------------------------------------------------
(* Signing in with a PIN.                                                    *)

(* findLocalPinIdentity and verifyStaffPin: who the PIN belongs to under the *)
(* pepper this handler has cached, which may be an older one.  A PIN that    *)
(* is not found only counts against the limits, which are not modelled.      *)
FindAndVerify(p, i) ==
  /\ login[p].at = "idle"
  /\ people[i].status = "on" /\ Enrolled(i) /\ people[i].ver <= current.v
  /\ login' = [login EXCEPT ![p] = [at |-> "verified", who |-> i, cred |-> people[i].cred,
                                    seen |-> {}]]
  /\ UNCHANGED <<people, sessions, adminIn, fence, secret, writes, admin, op>>

(* Row locks: SELECT ... FOR UPDATE holds the person until the commit.       *)
Holder(p, i) == login[p].who = i /\ login[p].at \in {"locked", "insert"}

(* Mutant: a SELECT without FOR UPDATE. *)
RowFreeAlways(i) == TRUE

RowFree(i) == \A p \in Logins : ~Holder(p, i)

(* Mutant: the state of the account is looked at again, not the material.    *)
LoginLockAccountOnly(p) ==
  /\ login[p].at = "verified"
  /\ LET i == login[p].who IN
     RowFree(i) /\ people[i].status = "on" /\ Enrolled(i)
  /\ login' = [login EXCEPT ![p].at = "locked"]
  /\ UNCHANGED <<people, sessions, adminIn, fence, secret, writes, admin, op>>

(* createLocalPinStaffSession takes the row if it still has the very         *)
(* material that was verified.  The test of auth_time against                *)
(* tokens_valid_after compares two clocks and may refuse as well: Abandon.   *)
LoginLock(p) ==
  /\ login[p].at = "verified"
  /\ LET i == login[p].who IN
     /\ RowFree(i)
     /\ people[i].status = "on" /\ Enrolled(i) /\ people[i].cred = login[p].cred
  /\ login' = [login EXCEPT ![p].at = "locked"]
  /\ UNCHANGED <<people, sessions, adminIn, fence, secret, writes, admin, op>>

(* Then it revokes the person's sessions, and inserts the new one.           *)
LoginRevoke(p) ==
  /\ login[p].at = "locked"
  /\ login' = [login EXCEPT ![p].at = "insert", ![p].seen = SessionsOf(login[p].who)]
  /\ UNCHANGED <<people, sessions, adminIn, fence, secret, writes, admin, op>>

(* The commit.  staff_auth_sessions_one_active_pin_idx refuses a second      *)
(* unrevoked session, and the transaction is rolled back.                    *)
LoginInsert(p) ==
  /\ login[p].at = "insert"
  /\ LET i == login[p].who  mine == [by |-> p, who |-> i, cred |-> login[p].cred] IN
     sessions' = IF SessionsOf(i) \subseteq login[p].seen
                 THEN (sessions \ login[p].seen) \cup {mine} ELSE sessions
  /\ login' = [login EXCEPT ![p] = NoLogin]
  /\ UNCHANGED <<people, adminIn, fence, secret, writes, admin, op>>

(* A session ends by logout, or its row is deleted a day after it ran out.   *)
(* A row that a sign-in has already revoked is waited for.                   *)
SessionEnds(s) ==
  /\ s \in sessions /\ \A p \in Logins : s \notin login[p].seen
  /\ sessions' = sessions \ {s}
  /\ UNCHANGED <<people, adminIn, fence, secret, writes, login, admin, op>>

Abandon(p) ==
  /\ login[p].at # "idle"
  /\ login' = [login EXCEPT ![p] = NoLogin]
  /\ UNCHANGED <<people, sessions, adminIn, fence, secret, writes, admin, op>>

-----------------------------------------------------------------------------
(* Administrators.  Each request is authorized once, when it starts.         *)

AdminSignIn(a) ==
  /\ a \notin adminIn /\ adminIn' = adminIn \cup {a}
  /\ UNCHANGED <<people, sessions, fence, secret, writes, login, admin, op>>
AdminSignOut(a) ==
  /\ a \in adminIn /\ adminIn' = adminIn \ {a}
  /\ UNCHANGED <<people, sessions, fence, secret, writes, login, admin, op>>

Requests(a, what, i, x, v) ==
  /\ a \in adminIn /\ admin[a].at = "idle"
  /\ admin' = [admin EXCEPT ![a] = [at |-> what, who |-> i, pin |-> x, ver |-> v]]
  /\ UNCHANGED <<people, sessions, adminIn, fence, secret, writes, login, op>>

(* createStaffPinCredential reads AWSCURRENT, past the cache.  A new person  *)
(* has a new random id.                                                      *)
CreateStart(a, i, x) ==
  /\ people[i].status = "none" /\ \A b \in Admins : admin[b].who # i
  /\ writes < MaxWrites
  /\ Requests(a, "create", i, x, current.v)
ResetStart(a, i, x) ==
  /\ people[i].status # "none" /\ writes < MaxWrites
  /\ Requests(a, "reset", i, x, current.v)
SwitchStart(a, i, what) ==
  /\ people[i].status # "none"
  /\ Requests(a, what, i, None, 0)

(* Mutant: any version that was ever current. *)
FenceAllowsOlder(v) == v <= fence

(* enforce_staff_pin_pepper_version: a PIN is only written under the version *)
(* of the fence, read with a lock.                                           *)
FenceAllows(v) == v = fence

(* staff_identities_pin_scope_unique_idx is on the keyed lookup hash: equal  *)
(* PINs collide only under one pepper.                                       *)
PinTaken(i, x, v) == \E j \in People \ {i} : people[j].pin = x /\ people[j].ver = v

(* invalidate_staff_identity_sessions revokes with every update. *)
WritePerson(i, row) ==
  /\ people' = [people EXCEPT ![i] = row]
  /\ sessions' = sessions \ SessionsOf(i)

(* The INSERT of createLocalPinStaff or the UPDATE of reset_pin.  An         *)
(* anonymized person has no PIN any more (staff_identities_local_pin_check). *)
EnrollWrite(a) ==
  /\ admin[a].at \in {"create", "reset"} /\ RowFree(admin[a].who)
  /\ LET i == admin[a].who  x == admin[a].pin  v == admin[a].ver
         row == [status |-> IF people[i].status = "none" THEN "on" ELSE people[i].status,
                 pin |-> x, ver |-> v, cred |-> writes + 1]
     IN IF people[i].status # "gone" /\ FenceAllows(v) /\ ~PinTaken(i, x, v)
        THEN WritePerson(i, row) /\ writes' = writes + 1
        ELSE UNCHANGED <<people, sessions, writes>>
  /\ admin' = [admin EXCEPT ![a] = NoAdmin]
  /\ UNCHANGED <<adminIn, fence, secret, login, op>>

(* updateLocalPinStaff, enable and disable. *)
SwitchWrite(a) ==
  /\ admin[a].at \in {"enable", "disable"} /\ RowFree(admin[a].who)
  /\ LET i == admin[a].who
         to == IF admin[a].at = "enable" THEN "on" ELSE "off"
     IN IF Local(i) THEN WritePerson(i, [people[i] EXCEPT !.status = to])
                    ELSE UNCHANGED <<people, sessions>>
  /\ admin' = [admin EXCEPT ![a] = NoAdmin]
  /\ UNCHANGED <<adminIn, fence, secret, writes, login, op>>

(* The data lifecycle anonymizes who was disabled and has no session rows.   *)
Anonymize(i) ==
  /\ people[i].status = "off" /\ SessionsOf(i) = {} /\ RowFree(i)
  /\ people' = [people EXCEPT ![i] = [status |-> "gone", pin |-> None, ver |-> 0, cred |-> 0]]
  /\ UNCHANGED <<sessions, adminIn, fence, secret, writes, login, admin, op>>

AdminFails(a) ==
  /\ admin[a].at # "idle"
  /\ admin' = [admin EXCEPT ![a] = NoAdmin]
  /\ UNCHANGED <<people, sessions, adminIn, fence, secret, writes, login, op>>

-----------------------------------------------------------------------------
(* Rotating the pepper: the commands stage, require-reenrollment and         *)
(* promote.  Each reads the two stages once, from one description of the     *)
(* secret, and works with what it read.                                      *)

(* stagePending with nothing staged yet. *)
StageRead(o) ==
  /\ op[o].at = "idle" /\ pending = None /\ current.v < MaxVersion
  /\ op' = [op EXCEPT ![o] = [at |-> "stage", cur |-> current, pen |-> None]]
  /\ UNCHANGED <<people, sessions, adminIn, fence, secret, writes, login, admin>>

(* A new version takes the label AWSPENDING, wherever it was, and whatever   *)
(* has become of the version that was read.                                  *)
StagePut(o) ==
  /\ op[o].at = "stage"
  /\ pending' = [v |-> op[o].cur.v + 1, id |-> puts + 1] /\ puts' = puts + 1
  /\ late' = (op[o].cur # current)
  /\ op' = [op EXCEPT ![o] = NoOp]
  /\ UNCHANGED <<people, sessions, adminIn, fence, current, writes, login, admin>>

(* requireReenrollment: the staged version must be the next one. *)
RequireRead(o) ==
  /\ op[o].at = "idle" /\ pending # None /\ pending.v = current.v + 1
  /\ op' = [op EXCEPT ![o] = [at |-> "clear", cur |-> current, pen |-> pending]]
  /\ UNCHANGED <<people, sessions, adminIn, fence, secret, writes, login, admin>>

(* Both database transactions lock the three tables against writers, and     *)
(* give up at once when one is at work.  A sign-in that only holds its row   *)
(* does not conflict, but ends in a deadlock with the update of that row,    *)
(* which PostgreSQL breaks: Abandon or OpFails.                              *)
NoSessionWriter == \A p \in Logins : login[p].at # "insert"
NoRowHeld == \A p \in Logins : login[p].at \notin {"locked", "insert"}

(* The PINs of the version are cleared and every staff session is revoked,   *)
(* unless someone is on another version (assertSafeCurrentState).            *)
RequireClear(o) ==
  /\ op[o].at = "clear" /\ NoRowHeld
  /\ IF fence = op[o].cur.v /\ \A i \in People : Local(i) => people[i].ver = fence
     THEN /\ people' = [i \in People |-> [people[i] EXCEPT !.pin = None, !.cred = 0]]
          /\ sessions' = {} /\ adminIn' = {}
     ELSE UNCHANGED <<people, sessions, adminIn>>
  /\ op' = [op EXCEPT ![o] = NoOp]
  /\ UNCHANGED <<fence, secret, writes, login, admin>>

(* promotePending: the staged version is the next one, or the promotion was  *)
(* already made and is repeated.                                             *)
PromoteRead(o) ==
  /\ op[o].at = "idle"
  /\ \/ pending # None /\ pending.v = current.v + 1
     \/ pending \in {None, current}
  /\ op' = [op EXCEPT ![o] = [at |-> "fence", cur |-> current, pen |-> pending]]
  /\ UNCHANGED <<people, sessions, adminIn, fence, secret, writes, login, admin>>

Repeat(o) == op[o].pen \in {None, op[o].cur}
NextOf(o) == IF Repeat(o) THEN op[o].cur.v ELSE op[o].pen.v

(* Mutant: PINs that were not cleared are not counted. *)
ReadySessionsOnly == sessions = {} /\ adminIn = {}

(* loadPromotionReadiness *)
Ready == sessions = {} /\ adminIn = {} /\ \A i \in People : ~Enrolled(i)

(* ensureDatabasePepperFence, committed before the secret is touched. *)
PromoteFence(o) ==
  /\ op[o].at = "fence" /\ NoSessionWriter
  /\ IF Ready /\ fence \in {NextOf(o) - 1, NextOf(o)}
     THEN /\ fence' = NextOf(o)
          /\ op' = [op EXCEPT ![o] = IF op[o].pen = None THEN NoOp
                                     ELSE [@ EXCEPT !.at = IF Repeat(o) THEN "cleanup" ELSE "move"]]
     ELSE fence' = fence /\ op' = [op EXCEPT ![o] = NoOp]
  /\ UNCHANGED <<people, sessions, adminIn, secret, writes, login, admin>>

(* Mutant: it moves from wherever it is (no RemoveFromVersionId). *)
MoveBlind(o) ==
  /\ op[o].at = "move"
  /\ current' = op[o].pen /\ op' = [op EXCEPT ![o].at = "cleanup"]
  /\ UNCHANGED <<people, sessions, adminIn, fence, pending, puts, late, writes, login, admin>>

(* AWSCURRENT moves, if it still is on the version that was read. *)
Move(o) ==
  /\ op[o].at = "move"
  /\ IF current = op[o].cur
     THEN current' = op[o].pen /\ op' = [op EXCEPT ![o].at = "cleanup"]
     ELSE current' = current /\ op' = [op EXCEPT ![o] = NoOp]
  /\ UNCHANGED <<people, sessions, adminIn, fence, pending, puts, late, writes, login, admin>>

(* removePendingStage *)
Cleanup(o) ==
  /\ op[o].at = "cleanup"
  /\ pending' = IF pending = op[o].pen THEN None ELSE pending
  /\ op' = [op EXCEPT ![o] = NoOp]
  /\ UNCHANGED <<people, sessions, adminIn, fence, current, puts, late, writes, login, admin>>

(* The command dies, or the answer to its last step is lost. *)
OpFails(o) ==
  /\ op[o].at # "idle"
  /\ op' = [op EXCEPT ![o] = NoOp]
  /\ UNCHANGED <<people, sessions, adminIn, fence, secret, writes, login, admin>>

-----------------------------------------------------------------------------
LoginStep(p) ==
  \/ \E i \in People : FindAndVerify(p, i)
  \/ LoginLock(p) \/ LoginRevoke(p) \/ LoginInsert(p) \/ Abandon(p)

AdminStep(a) ==
  \/ AdminSignIn(a) \/ AdminSignOut(a)
  \/ \E i \in People, x \in Pins : CreateStart(a, i, x) \/ ResetStart(a, i, x)
  \/ \E i \in People : SwitchStart(a, i, "enable") \/ SwitchStart(a, i, "disable")
  \/ EnrollWrite(a) \/ SwitchWrite(a) \/ AdminFails(a)

OperatorStep(o) ==
  \/ StageRead(o) \/ StagePut(o) \/ RequireRead(o) \/ RequireClear(o)
  \/ PromoteRead(o) \/ PromoteFence(o) \/ Move(o) \/ Cleanup(o) \/ OpFails(o)

Next ==
  \/ \E p \in Logins : LoginStep(p)
  \/ \E a \in Admins : AdminStep(a)
  \/ \E o \in Operators : OperatorStep(o)
  \/ \E s \in sessions : SessionEnds(s)
  \/ \E i \in People : Anonymize(i)

Spec == Init /\ [][Next]_vars

-----------------------------------------------------------------------------
(* The insert never meets a session its own transaction did not revoke: two  *)
(* sign-ins of one person never collide on the index that allows one         *)
(* session, which was an error 500 (docs/t0194-staff-identity.md:210).       *)
LoginNeverCollides ==
  \A p \in Logins : login[p].at = "insert" => SessionsOf(login[p].who) \subseteq login[p].seen

(* Every unrevoked session rests on the PIN its person has now: nobody who   *)
(* was disabled, whose PIN was reset or must be issued anew is signed in,    *)
(* however a sign-in, a reset and a rotation overlap.  Redemption relies on  *)
(* it: authorizePinStaffRedeemRequest does not ask for re-enrollment.        *)
SessionsBacked ==
  \A s \in sessions : LET who == people[s.who] IN
    who.status = "on" /\ who.pin # None /\ who.cred = s.cred

(* No two people share a PIN.  The index cannot tell across peppers, so this *)
(* stands on the fence and on the clearing of PINs before it.                *)
PinsDistinct ==
  \A i, j \in People : i # j /\ Enrolled(i) => people[j].pin # people[i].pin

(* A usable PIN was derived from the pepper that is current: a rotation      *)
(* neither leaves an old PIN in force nor locks out who has a PIN.           *)
PinsCurrent ==
  \A i \in People : Enrolled(i) => people[i].ver = fence /\ fence = current.v

(* The fence is at the current pepper or one ahead of it; and while it is    *)
(* ahead, the version staged is the next one, which promotePending and       *)
(* requireReenrollment ask for: a promotion cut short between the two stores *)
(* can be run again ("remains safely retryable", DECISIONS.md:353).  The one *)
(* exception is a staging that a whole rotation overtook (stagePending, line *)
(* 459).  It puts a version that is no longer the next one in place of the   *)
(* one being promoted; if that promotion dies, every command refuses, and no *)
(* PIN can be issued until the stage is removed by hand.                     *)
SecretFenced ==
  /\ fence \in {current.v, current.v + 1}
  /\ fence # current.v => pending # None /\ (late \/ pending.v = current.v + 1)
=============================================================================
