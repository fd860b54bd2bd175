--------------------------- MODULE StaffPinsProofs ---------------------------
(***************************************************************************)
(* Theorems about StaffPins, for any sets of people, PINs, invocations,    *)
(* administrators and runs of the rotation script, and any bounds.         *)
(***************************************************************************)
EXTENDS StaffPins, TLAPS

(* Sign-ins: a row lock keeps the material that was verified, and one        *)
(* sign-in at a time holds a person.                                         *)
Holds(p) == login[p].at \in {"locked", "insert"}

LockKeepsMaterial ==
  \A p \in Logins :
    /\ login[p].at # "idle" => login[p].who \in People
    /\ Holds(p) => LET who == people[login[p].who] IN
         who.status = "on" /\ who.pin # None /\ who.cred = login[p].cred

OneHolder ==
  \A p, q \in Logins : Holds(p) /\ Holds(q) /\ login[p].who = login[q].who => p = q

LoginInv == LockKeepsMaterial /\ OneHolder /\ LoginNeverCollides /\ SessionsBacked

(* Administrators hold a PIN derived from a pepper that was current.         *)
AdminInv ==
  \A a \in Admins :
    /\ admin[a].at # "idle" => admin[a].who \in People
    /\ admin[a].at \in {"create", "reset"} =>
         admin[a].pin \in Pins /\ admin[a].ver <= current.v

PinInv == PinsDistinct /\ PinsCurrent

(* Versions of the secret are numbered in the order they were staged.        *)
Numbered ==
  /\ current.id <= puts
  /\ pending # None => pending.id <= puts
  /\ \A o \in Operators : op[o].pen # None => op[o].pen.id <= puts

(* What a command read is still so, or the current version has moved on.     *)
ReadOrPassed ==
  \A o \in Operators : op[o].at # "idle" =>
    /\ op[o].cur \in SecretId /\ op[o].cur.v <= current.v
    /\ op[o].cur.v = current.v => op[o].cur = current

(* What each command is about to do with it.                                 *)
Commands ==
  \A o \in Operators :
    /\ op[o].at = "stage" => op[o].cur.v < MaxVersion
    /\ op[o].at = "fence" => Repeat(o) \/ op[o].pen.v = op[o].cur.v + 1
    /\ op[o].at = "move" => /\ op[o].pen # None /\ op[o].pen.v = op[o].cur.v + 1
                            /\ op[o].cur = current => fence = op[o].pen.v
    /\ op[o].at = "cleanup" => op[o].pen # None /\ op[o].pen.v <= current.v

(* A staged version that is not current and that no cleanup is after: the    *)
(* next one, unless the staging was overtaken.                               *)
Staged ==
  /\ pending # None /\ pending # current
  /\ late \/ pending.v = current.v + 1
  /\ \A o \in Operators :
       op[o].at = "cleanup" \/ (op[o].at = "fence" /\ Repeat(o)) => op[o].pen # pending

(* Some promotion is past its reads and may still advance the fence.         *)
Promoting == \E o \in Operators : op[o].at = "fence" /\ ~Repeat(o) /\ op[o].cur = current

SecretInv ==
  /\ Numbered /\ ReadOrPassed /\ Commands
  /\ fence \in {current.v, current.v + 1}
  /\ fence # current.v \/ Promoting => Staged

IInv == TypeOK /\ LoginInv /\ AdminInv /\ PinInv /\ SecretInv

(* What the assumption says of None and the versions. *)
LEMMA Constants ==
  /\ None \notin People /\ None \notin Pins /\ None \notin SecretId
  /\ MaxVersion \in Nat /\ MaxVersion >= 1 /\ Version \subseteq Nat
BY PinAssumption DEF Version

LEMMA SecretVersion ==
  ASSUME NEW c \in SecretId
  PROVE  c.v \in Version /\ c.v \in Nat /\ c.id \in Nat
BY Constants DEF SecretId

LEMMA CurrentVersion ==
  ASSUME TypeOK
  PROVE  current \in SecretId /\ current.v \in Nat /\ current.id \in Nat /\ fence \in Nat
<1>1. current \in SecretId /\ fence \in Version
  BY DEF TypeOK
<1> QED BY <1>1, SecretVersion, Constants

(* The initial state satisfies the inductive invariant. *)
LEMMA InitInv == Init => IInv
<1> SUFFICES ASSUME Init PROVE IInv
  OBVIOUS
<1>1. /\ \A i \in People : people[i].pin = None
      /\ \A p \in Logins : login[p].at = "idle"
      /\ \A a \in Admins : admin[a].at = "idle"
      /\ \A o \in Operators : op[o].at = "idle" /\ op[o].pen = None
  BY DEF Init, NoLogin, NoAdmin, NoOp
<1>2. TypeOK
  <2>1. people \in [People -> Person]
    BY DEF Init, Person
  <2>2. fence \in Version /\ current \in SecretId /\ pending \in SecretId \cup {None}
    BY Constants DEF Init, Version, SecretId
  <2>3. /\ login \in [Logins -> [at : {"idle", "verified", "locked", "insert"},
                           who : People \cup {None}, cred : Nat, seen : SUBSET Session]]
        /\ admin \in [Admins -> [at : {"idle", "create", "reset", "enable", "disable"},
                           who : People \cup {None}, pin : Pins \cup {None}, ver : Nat]]
        /\ op \in [Operators -> [at : {"idle", "stage", "clear", "fence", "move", "cleanup"},
                           cur : SecretId \cup {None}, pen : SecretId \cup {None}]]
    BY DEF Init, NoLogin, NoAdmin, NoOp
  <2> QED BY <2>1, <2>2, <2>3 DEF Init, TypeOK
<1>3. LoginInv
  BY <1>1 DEF Init, LoginInv, LockKeepsMaterial, OneHolder, Holds, LoginNeverCollides,
              SessionsBacked
<1>4. AdminInv /\ PinInv
  BY <1>1 DEF AdminInv, PinInv, PinsDistinct, PinsCurrent, Enrolled
<1>5. SecretInv
  <2>1. fence = current.v /\ pending = None /\ current.id <= puts
    BY DEF Init
  <2> QED BY <1>1, <2>1, <1>2 DEF SecretInv, Numbered, ReadOrPassed, Commands, Promoting, TypeOK,
                               SecretId, Version
<1> QED BY <1>2, <1>3, <1>4, <1>5 DEF IInv

-----------------------------------------------------------------------------
(* Parts of the invariant under steps that do not concern them.              *)

LEMMA SecretKeeps ==
  ASSUME SecretInv, UNCHANGED <<fence, secret, op>>
  PROVE  SecretInv'
BY DEF secret, SecretInv, Numbered, ReadOrPassed, Commands, Staged, Promoting, Repeat

(* A step that clears PINs, or changes none. *)
LEMMA PinsKeep ==
  ASSUME PinInv, UNCHANGED <<fence, current>>,
         \A i \in People : \/ people'[i].pin = None
                           \/ people'[i].pin = people[i].pin /\ people'[i].ver = people[i].ver
  PROVE  PinInv'
BY DEF PinInv, PinsDistinct, PinsCurrent, Enrolled

(* A step that writes no held row and ends the sessions of the rows it       *)
(* writes.                                                                   *)
LEMMA LoginsKeep ==
  ASSUME TypeOK, LoginInv, UNCHANGED login, sessions' \subseteq sessions,
         \A i \in People : RowFree(i) \/ people'[i] = people[i],
         \A s \in sessions' : people'[s.who] = people[s.who]
  PROVE  LoginInv'
<1> USE DEF LoginInv
<1>1. LockKeepsMaterial'
  <2>1. SUFFICES ASSUME NEW p \in Logins
                 PROVE /\ login[p].at # "idle" => login[p].who \in People
                       /\ Holds(p) => LET who == people'[login[p].who] IN
                            who.status = "on" /\ who.pin # None /\ who.cred = login[p].cred
    BY DEF LockKeepsMaterial, Holds
  <2>2. Holds(p) => people'[login[p].who] = people[login[p].who]
    BY DEF LockKeepsMaterial, Holds, RowFree, Holder
  <2> QED BY <2>2 DEF LockKeepsMaterial, Holds
<1>2. OneHolder'
  BY DEF OneHolder, Holds
<1>3. LoginNeverCollides'
  BY DEF LoginNeverCollides, SessionsOf
<1>4. SessionsBacked'
  BY DEF SessionsBacked
<1> QED BY <1>1, <1>2, <1>3, <1>4

(* Of an administrator's request only what it carries matters. *)
LEMMA AdminsKeep ==
  ASSUME TypeOK, AdminInv, UNCHANGED admin, current'.v >= current.v, current' \in SecretId
  PROVE  AdminInv'
<1>1. current.v \in Nat /\ current'.v \in Nat /\ \A a \in Admins : admin[a].ver \in Nat
  BY Constants DEF TypeOK, SecretId
<1> QED BY <1>1 DEF AdminInv

-----------------------------------------------------------------------------
(* Signing in.                                                               *)

LEMMA LoginTypes ==
  ASSUME IInv, NEW p \in Logins, LoginStep(p)
  PROVE  TypeOK'
<1> USE DEF IInv
<1>1. CASE \E i \in People : FindAndVerify(p, i)
  <2>1. PICK i \in People : FindAndVerify(p, i)
    BY <1>1
  <2>2. people[i].cred \in Nat
    BY DEF TypeOK, Person
  <2> QED BY <2>1, <2>2 DEF TypeOK, FindAndVerify, secret
<1>2. CASE LoginLock(p)
  BY <1>2 DEF TypeOK, LoginLock, secret
<1>3. CASE LoginRevoke(p)
  <2>1. SessionsOf(login[p].who) \in SUBSET Session
    BY DEF TypeOK, SessionsOf
  <2> DEFINE kept == SessionsOf(login[p].who)
  <2>2. login' = [login EXCEPT ![p].at = "insert", ![p].seen = kept] /\ kept \in SUBSET Session
    BY <1>3, <2>1 DEF LoginRevoke
  <2> HIDE DEF kept
  <2>3. login' \in [Logins -> [at : {"idle", "verified", "locked", "insert"},
                             who : People \cup {None}, cred : Nat, seen : SUBSET Session]]
    <3>1. login[p] \in [at : {"idle", "verified", "locked", "insert"},
                        who : People \cup {None}, cred : Nat, seen : SUBSET Session]
      BY DEF TypeOK
    <3>2. [login[p] EXCEPT !.at = "insert", !.seen = kept] \in
             [at : {"idle", "verified", "locked", "insert"},
              who : People \cup {None}, cred : Nat, seen : SUBSET Session]
      BY <3>1, <2>2
    <3>3. login' = [login EXCEPT ![p] = [login[p] EXCEPT !.at = "insert", !.seen = kept]]
      BY <2>2 DEF TypeOK
    <3> QED BY <3>2, <3>3 DEF TypeOK
  <2> QED BY <1>3, <2>3 DEF TypeOK, LoginRevoke, secret
<1>4. CASE LoginInsert(p)
  <2>1. login[p].who \in People /\ login[p].cred \in Nat
    BY <1>4 DEF LoginInsert, LoginInv, LockKeepsMaterial, TypeOK
  <2>2. [by |-> p, who |-> login[p].who, cred |-> login[p].cred] \in Session
    BY <2>1 DEF Session
  <2>3. sessions' \subseteq Session
    BY <1>4, <2>2 DEF LoginInsert, TypeOK
  <2> QED BY <1>4, <2>3 DEF LoginInsert, TypeOK, NoLogin, secret
<1>5. CASE Abandon(p)
  BY <1>5 DEF TypeOK, Abandon, NoLogin, secret
<1> QED BY <1>1, <1>2, <1>3, <1>4, <1>5 DEF LoginStep

LEMMA LoginLocks ==
  ASSUME IInv, NEW p \in Logins, LoginStep(p)
  PROVE  LoginInv'
<1> USE DEF IInv, LoginInv
<1>0. /\ UNCHANGED people
      /\ \A q \in Logins \ {p} : login'[q] = login[q]
  BY DEF LoginStep, FindAndVerify, LoginLock, LoginRevoke, LoginInsert, Abandon, TypeOK
<1>1. CASE \E i \in People : FindAndVerify(p, i)
  <2>1. UNCHANGED sessions /\ login'[p].at = "verified" /\ login'[p].who \in People
    BY <1>1 DEF FindAndVerify, TypeOK
  <2> QED BY <1>0, <2>1 DEF LockKeepsMaterial, OneHolder, Holds, LoginNeverCollides,
                            SessionsBacked, SessionsOf
<1>2. CASE LoginLock(p)
  <2>1. /\ UNCHANGED sessions /\ login'[p].at = "locked" /\ login[p].at = "verified"
        /\ login'[p].who = login[p].who /\ login'[p].cred = login[p].cred
    BY <1>2 DEF LoginLock, TypeOK
  <2>2. /\ people[login[p].who].status = "on" /\ people[login[p].who].pin # None
        /\ people[login[p].who].cred = login[p].cred
        /\ \A q \in Logins : Holds(q) => login[q].who # login[p].who
    BY <1>2 DEF LoginLock, RowFree, Holder, Holds, Enrolled
  <2> QED BY <1>0, <2>1, <2>2 DEF LockKeepsMaterial, OneHolder, Holds, LoginNeverCollides,
                                  SessionsBacked, SessionsOf
<1>3. CASE LoginRevoke(p)
  <2>1. /\ UNCHANGED sessions /\ login'[p].at = "insert" /\ login[p].at = "locked"
        /\ login'[p].who = login[p].who /\ login'[p].cred = login[p].cred
        /\ login'[p].seen = SessionsOf(login[p].who)
    BY <1>3 DEF LoginRevoke, TypeOK
  <2> QED BY <1>0, <2>1 DEF LockKeepsMaterial, OneHolder, Holds, LoginNeverCollides,
                            SessionsBacked, SessionsOf
<1>4. CASE LoginInsert(p)
  <2> DEFINE i == login[p].who
             mine == [by |-> p, who |-> i, cred |-> login[p].cred]
  <2>1. /\ login[p].at = "insert" /\ login'[p].at = "idle" /\ Holds(p)
        /\ sessions' \subseteq sessions \cup {mine}
    BY <1>4 DEF LoginInsert, NoLogin, TypeOK, Holds
  <2>2. LockKeepsMaterial' /\ OneHolder'
    BY <1>0, <2>1 DEF LockKeepsMaterial, OneHolder, Holds
  <2>3. LoginNeverCollides'
    <3>1. SUFFICES ASSUME NEW q \in Logins \ {p}, login[q].at = "insert"
                   PROVE {s \in sessions' : s.who = login[q].who} \subseteq login[q].seen
      BY <1>0, <2>1 DEF LoginNeverCollides, SessionsOf
    <3>2. login[q].who # i
      BY <2>1, <3>1 DEF OneHolder, Holds
    <3> QED BY <2>1, <3>1, <3>2 DEF LoginNeverCollides, SessionsOf
  <2>4. SessionsBacked'
    BY <1>0, <2>1 DEF SessionsBacked, LockKeepsMaterial
  <2> QED BY <2>2, <2>3, <2>4
<1>5. CASE Abandon(p)
  <2>1. UNCHANGED sessions /\ login'[p].at = "idle"
    BY <1>5 DEF Abandon, NoLogin, TypeOK
  <2> QED BY <1>0, <2>1 DEF LockKeepsMaterial, OneHolder, Holds, LoginNeverCollides,
                            SessionsBacked, SessionsOf
<1> QED BY <1>1, <1>2, <1>3, <1>4, <1>5 DEF LoginStep

(* A sign-in touches the sessions only. *)
LEMMA LoginKeepsInv ==
  ASSUME IInv, NEW p \in Logins, LoginStep(p)
  PROVE  IInv'
<1>1. UNCHANGED <<people, fence, secret, admin, op>>
  BY DEF LoginStep, FindAndVerify, LoginLock, LoginRevoke, LoginInsert, Abandon
<1>2. TypeOK' /\ LoginInv'
  BY LoginTypes, LoginLocks
<1>3. AdminInv' /\ PinInv' /\ SecretInv'
  BY <1>1, SecretKeeps DEF IInv, AdminInv, PinInv, PinsDistinct, PinsCurrent, Enrolled, secret
<1> QED BY <1>2, <1>3 DEF IInv

(* Sessions that end, and people who are anonymized. *)
LEMMA DataKeepsInv ==
  ASSUME IInv, (\E s \in sessions : SessionEnds(s)) \/ (\E i \in People : Anonymize(i))
  PROVE  IInv'
<1> USE DEF IInv
<1>1. CASE \E s \in sessions : SessionEnds(s)
  <2>1. UNCHANGED <<people, adminIn, fence, secret, writes, login, admin, op>>
        /\ sessions' \subseteq sessions
    BY <1>1 DEF SessionEnds
  <2>2. LoginInv'
    BY <2>1, LoginsKeep
  <2> QED BY <2>1, <2>2, SecretKeeps
          DEF TypeOK, AdminInv, PinInv, PinsDistinct, PinsCurrent, Enrolled, secret
<1>2. CASE \E i \in People : Anonymize(i)
  <2>1. PICK i \in People : Anonymize(i)
    BY <1>2
  <2> DEFINE gone == [status |-> "gone", pin |-> None, ver |-> 0, cred |-> 0]
  <2>2. /\ people' = [people EXCEPT ![i] = gone] /\ gone \in Person
        /\ people'[i] = gone /\ \A j \in People \ {i} : people'[j] = people[j]
        /\ RowFree(i) /\ \A s \in sessions : s.who \in People /\ s.who # i
        /\ UNCHANGED <<sessions, adminIn, fence, secret, writes, login, admin, op>>
    BY <2>1 DEF Anonymize, TypeOK, Person, SessionsOf, Session
  <2>3. LoginInv'
    BY <2>2, LoginsKeep
  <2>4. PinInv'
    BY <2>2, PinsKeep DEF secret
  <2>5. SecretInv' /\ AdminInv'
    BY <2>2, SecretKeeps DEF secret, AdminInv
  <2>6. TypeOK'
    BY <2>2 DEF TypeOK, secret
  <2> QED BY <2>3, <2>4, <2>5, <2>6
<1> QED BY <1>1, <1>2

-----------------------------------------------------------------------------
(* Administrators.                                                           *)

(* Starting and giving up a request, and the sessions of administrators.     *)
Request(a) ==
  \/ AdminSignIn(a) \/ AdminSignOut(a) \/ AdminFails(a)
  \/ \E i \in People, x \in Pins : CreateStart(a, i, x) \/ ResetStart(a, i, x)
  \/ \E i \in People : SwitchStart(a, i, "enable") \/ SwitchStart(a, i, "disable")

LEMMA RequestKeepsInv ==
  ASSUME IInv, NEW a \in Admins, Request(a)
  PROVE  IInv'
<1> USE DEF IInv
<1>1. UNCHANGED <<people, sessions, fence, secret, writes, login, op>>
  BY DEF Request, AdminSignIn, AdminSignOut, AdminFails, CreateStart, ResetStart, SwitchStart,
         Requests
<1>2. LoginInv'
  BY <1>1, LoginsKeep
<1>3. PinInv' /\ SecretInv'
  BY <1>1, PinsKeep, SecretKeeps DEF secret
<1>4. adminIn' \subseteq Admins
  BY DEF Request, AdminSignIn, AdminSignOut, AdminFails, CreateStart, ResetStart, SwitchStart,
         Requests, TypeOK
<1> DEFINE Row == [at : {"idle", "create", "reset", "enable", "disable"},
                   who : People \cup {None}, pin : Pins \cup {None}, ver : Nat]
           Carries(r) == /\ r.at # "idle" => r.who \in People
                         /\ r.at \in {"create", "reset"} => r.pin \in Pins /\ r.ver <= current.v
<1>5. UNCHANGED admin \/ \E r \in Row : admin' = [admin EXCEPT ![a] = r] /\ Carries(r)
  <2>1. current.v \in Nat
    BY CurrentVersion
  <2>2. CASE AdminSignIn(a) \/ AdminSignOut(a)
    BY <2>2 DEF AdminSignIn, AdminSignOut
  <2>3. CASE AdminFails(a)
    <3>1. NoAdmin \in Row /\ Carries(NoAdmin)
      BY DEF NoAdmin
    <3> QED BY <2>3, <3>1 DEF AdminFails
  <2>4. CASE \E i \in People, x \in Pins : CreateStart(a, i, x) \/ ResetStart(a, i, x)
    <3>1. PICK i \in People, x \in Pins, what \in {"create", "reset"} :
            Requests(a, what, i, x, current.v)
      BY <2>4 DEF CreateStart, ResetStart
    <3> DEFINE r == [at |-> what, who |-> i, pin |-> x, ver |-> current.v]
    <3>2. r \in Row /\ Carries(r) /\ admin' = [admin EXCEPT ![a] = r]
      BY <2>1, <3>1 DEF Requests
    <3> QED BY <3>2
  <2>5. CASE \E i \in People : SwitchStart(a, i, "enable") \/ SwitchStart(a, i, "disable")
    BY <2>5 DEF SwitchStart, Requests
  <2> QED BY <2>2, <2>3, <2>4, <2>5 DEF Request
<1>6. AdminInv' /\ admin' \in [Admins -> Row]
  <2>1. CASE UNCHANGED admin
    BY <1>1, <2>1 DEF AdminInv, TypeOK, secret
  <2>2. CASE \E r \in Row : admin' = [admin EXCEPT ![a] = r] /\ Carries(r)
    <3>1. PICK r \in Row : admin' = [admin EXCEPT ![a] = r] /\ Carries(r)
      BY <2>2
    <3>2. /\ admin' \in [Admins -> Row] /\ admin'[a] = r
          /\ \A b \in Admins \ {a} : admin'[b] = admin[b]
      BY <3>1 DEF TypeOK
    <3> QED BY <1>1, <3>1, <3>2 DEF AdminInv, secret
  <2> QED BY <1>5, <2>1, <2>2
<1>7. TypeOK'
  BY <1>1, <1>4, <1>6 DEF TypeOK, secret
<1> QED BY <1>2, <1>3, <1>6, <1>7

(* Writing the row of a person whom no sign-in holds, with its sessions. *)
LEMMA WriteKeeps ==
  ASSUME TypeOK, LoginInv, NEW i \in People, NEW row \in Person, RowFree(i), WritePerson(i, row),
         UNCHANGED login
  PROVE  /\ LoginInv' /\ people' \in [People -> Person] /\ sessions' \subseteq Session
         /\ people'[i] = row /\ \A j \in People \ {i} : people'[j] = people[j]
<1>1. /\ people' \in [People -> Person] /\ sessions' \subseteq sessions
      /\ people'[i] = row /\ \A j \in People \ {i} : people'[j] = people[j]
      /\ \A s \in sessions' : s.who \in People \ {i}
  BY DEF WritePerson, TypeOK, SessionsOf, Session
<1>2. LoginInv'
  BY <1>1, LoginsKeep
<1> QED BY <1>1, <1>2 DEF TypeOK

LEMMA EnrollKeepsInv ==
  ASSUME IInv, NEW a \in Admins, EnrollWrite(a)
  PROVE  IInv'
<1> USE DEF IInv
<1> DEFINE i == admin[a].who
           x == admin[a].pin
           v == admin[a].ver
           row == [status |-> IF people[i].status = "none" THEN "on" ELSE people[i].status,
                   pin |-> x, ver |-> v, cred |-> writes + 1]
           allowed == people[i].status # "gone" /\ FenceAllows(v) /\ ~PinTaken(i, x, v)
<1>1. /\ UNCHANGED <<adminIn, fence, secret, login, op>>
      /\ admin' = [admin EXCEPT ![a] = NoAdmin]
      /\ i \in People /\ x \in Pins /\ v \in Nat /\ v <= current.v /\ RowFree(i)
  BY DEF EnrollWrite, AdminInv, TypeOK
<1>2. AdminInv' /\ SecretInv'
  BY <1>1, SecretKeeps DEF AdminInv, TypeOK, NoAdmin, secret
<1>3. admin' \in [Admins -> [at : {"idle", "create", "reset", "enable", "disable"},
                          who : People \cup {None}, pin : Pins \cup {None}, ver : Nat]]
  BY <1>1 DEF TypeOK, NoAdmin
<1>4. CASE allowed
  <2>1. row \in Person /\ writes + 1 \in Nat
    BY <1>1 DEF TypeOK, Person
  <2>2. WritePerson(i, row) /\ writes' = writes + 1
    BY <1>4 DEF EnrollWrite
  <2> HIDE DEF row
  <2>3. /\ LoginInv' /\ people' \in [People -> Person] /\ sessions' \subseteq Session
        /\ people'[i] = row /\ \A j \in People \ {i} : people'[j] = people[j]
    BY <1>1, <2>1, <2>2, WriteKeeps
  <2>4. v = fence /\ fence = current.v
    <3>1. fence \in {current.v, current.v + 1} /\ current.v \in Nat /\ v = fence
      BY <1>4, Constants DEF SecretInv, TypeOK, SecretId, FenceAllows
    <3> QED BY <1>1, <3>1
  <2>5. people'[i].pin = x /\ people'[i].ver = v
    BY <2>3 DEF row
  <2>6. \A j \in People \ {i} : people[j].pin # None => people[j].pin # x
    BY <1>4, <2>4 DEF PinTaken, PinInv, PinsCurrent, Enrolled
  <2>7. PinInv'
    <3>1. PinsDistinct'
      BY <1>1, <2>3, <2>5, <2>6, Constants DEF PinInv, PinsDistinct, Enrolled
    <3>2. PinsCurrent'
      BY <1>1, <2>3, <2>4, <2>5 DEF PinInv, PinsCurrent, Enrolled, secret
    <3> QED BY <3>1, <3>2 DEF PinInv
  <2>8. TypeOK'
    BY <1>1, <1>3, <2>1, <2>2, <2>3 DEF TypeOK, secret
  <2> QED BY <1>2, <2>3, <2>7, <2>8
<1>5. CASE ~allowed
  <2>1. UNCHANGED <<people, sessions, writes>>
    BY <1>5 DEF EnrollWrite
  <2>2. LoginInv' /\ PinInv'
    BY <1>1, <2>1, LoginsKeep, PinsKeep DEF secret
  <2> QED BY <1>1, <1>2, <1>3, <2>1, <2>2 DEF TypeOK, secret
<1> QED BY <1>4, <1>5

LEMMA SwitchKeepsInv ==
  ASSUME IInv, NEW a \in Admins, SwitchWrite(a)
  PROVE  IInv'
<1> USE DEF IInv
<1> DEFINE i == admin[a].who
           to == IF admin[a].at = "enable" THEN "on" ELSE "off"
           row == [people[i] EXCEPT !.status = to]
<1>1. /\ UNCHANGED <<adminIn, fence, secret, writes, login, op>>
      /\ admin' = [admin EXCEPT ![a] = NoAdmin]
      /\ i \in People /\ RowFree(i)
  BY DEF SwitchWrite, AdminInv, TypeOK
<1>2. AdminInv' /\ SecretInv'
  BY <1>1, SecretKeeps DEF AdminInv, TypeOK, NoAdmin, secret
<1>3. admin' \in [Admins -> [at : {"idle", "create", "reset", "enable", "disable"},
                          who : People \cup {None}, pin : Pins \cup {None}, ver : Nat]]
  BY <1>1 DEF TypeOK, NoAdmin
<1>4. CASE Local(i)
  <2>1. row \in Person /\ row.pin = people[i].pin /\ row.ver = people[i].ver
    <3>1. people[i] \in Person
      BY <1>1 DEF TypeOK
    <3> QED BY <3>1 DEF Person
  <2>2. WritePerson(i, row)
    BY <1>4 DEF SwitchWrite
  <2> HIDE DEF row
  <2>3. /\ LoginInv' /\ people' \in [People -> Person] /\ sessions' \subseteq Session
        /\ people'[i] = row /\ \A j \in People \ {i} : people'[j] = people[j]
    BY <1>1, <2>1, <2>2, WriteKeeps
  <2>4. PinInv'
    BY <1>1, <2>1, <2>3, PinsKeep DEF secret
  <2> QED BY <1>1, <1>2, <1>3, <2>3, <2>4 DEF TypeOK, secret
<1>5. CASE ~Local(i)
  <2>1. UNCHANGED <<people, sessions>>
    BY <1>5 DEF SwitchWrite
  <2>2. LoginInv' /\ PinInv'
    BY <1>1, <2>1, LoginsKeep, PinsKeep DEF secret
  <2> QED BY <1>1, <1>2, <1>3, <2>1, <2>2 DEF TypeOK, secret
<1> QED BY <1>4, <1>5

-----------------------------------------------------------------------------
(* Rotation: the people, the sessions and the administrators.                *)

(* A command that advances the fence or moves AWSCURRENT: what it read has   *)
(* not been passed, or the fence and the secret stay as they are.            *)
LEMMA FenceChange ==
  ASSUME IInv, NEW o \in Operators, PromoteFence(o)
  PROVE  \/ UNCHANGED fence
         \/ /\ Ready /\ ~Repeat(o) /\ op[o].cur = current /\ fence = current.v
            /\ fence' = current.v + 1 /\ op[o].pen \in SecretId /\ op[o].pen.v = current.v + 1
            /\ op' = [op EXCEPT ![o] = [op[o] EXCEPT !.at = "move"]]
<1> USE DEF IInv
<1>1. SUFFICES ASSUME fence' # fence
               PROVE /\ Ready /\ ~Repeat(o) /\ op[o].cur = current /\ fence = current.v
                     /\ fence' = current.v + 1 /\ op[o].pen \in SecretId
                     /\ op[o].pen.v = current.v + 1
                     /\ op' = [op EXCEPT ![o] = [op[o] EXCEPT !.at = "move"]]
  OBVIOUS
<1>2. /\ op[o].at = "fence" /\ Ready /\ fence \in {NextOf(o) - 1, NextOf(o)}
      /\ fence' = NextOf(o)
      /\ op' = [op EXCEPT ![o] = IF op[o].pen = None THEN NoOp
                                 ELSE [@ EXCEPT !.at = IF Repeat(o) THEN "cleanup" ELSE "move"]]
  BY <1>1 DEF PromoteFence
<1>3. /\ op[o].cur \in SecretId /\ op[o].cur.v <= current.v
      /\ op[o].cur.v = current.v => op[o].cur = current
      /\ fence \in {current.v, current.v + 1}
      /\ Repeat(o) \/ op[o].pen.v = op[o].cur.v + 1
      /\ op[o].pen \in SecretId \cup {None}
  BY <1>2 DEF SecretInv, ReadOrPassed, Commands, TypeOK
<1>4. current.v \in Nat /\ op[o].cur.v \in Nat /\ fence \in Nat
  BY <1>3, CurrentVersion, SecretVersion
<1>5. ~Repeat(o)
  <2>1. SUFFICES ASSUME Repeat(o) PROVE FALSE
    OBVIOUS
  <2>2. fence = op[o].cur.v - 1 \/ fence = op[o].cur.v
    BY <1>2, <2>1 DEF NextOf
  <2> QED BY <1>1, <1>2, <1>3, <1>4, <2>1, <2>2 DEF NextOf
<1>6. /\ op[o].pen \in SecretId /\ op[o].pen.v = op[o].cur.v + 1 /\ op[o].pen # None
      /\ fence' = op[o].cur.v + 1 /\ fence = op[o].cur.v
  BY <1>1, <1>2, <1>3, <1>4, <1>5, Constants DEF NextOf, Repeat
<1>7. op[o].cur = current /\ fence = current.v
  BY <1>3, <1>4, <1>6
<1> QED BY <1>2, <1>5, <1>6, <1>7

LEMMA MoveChange ==
  ASSUME IInv, NEW o \in Operators, Move(o)
  PROVE  \/ UNCHANGED current /\ op' = [op EXCEPT ![o] = NoOp]
         \/ /\ op[o].cur = current /\ current' = op[o].pen /\ op[o].pen \in SecretId
            /\ op[o].pen.v = current.v + 1 /\ fence = current.v + 1
            /\ op' = [op EXCEPT ![o].at = "cleanup"]
<1>1. op[o].at = "move" /\ op[o].pen \in SecretId \cup {None}
  BY DEF Move, IInv, TypeOK
<1> QED BY <1>1 DEF Move, IInv, SecretInv, Commands

LEMMA OperatorData ==
  ASSUME IInv, NEW o \in Operators, OperatorStep(o)
  PROVE  LoginInv' /\ AdminInv' /\ PinInv'
<1> USE DEF IInv
<1>1. CASE RequireClear(o)
  <2>1. /\ UNCHANGED <<fence, secret, writes, login, admin>>
        /\ \A i \in People : RowFree(i)
        /\ \/ UNCHANGED <<people, sessions, adminIn>>
           \/ /\ people' = [i \in People |-> [people[i] EXCEPT !.pin = None, !.cred = 0]]
              /\ sessions' = {} /\ adminIn' = {}
    BY <1>1 DEF RequireClear, NoRowHeld, RowFree, Holder
  <2>2. LoginInv'
    BY <2>1, LoginsKeep
  <2>3. \A i \in People : people'[i].pin = None \/ people'[i] = people[i]
    <3>1. \A i \in People : people[i] \in Person
      BY DEF TypeOK
    <3> QED BY <2>1, <3>1 DEF Person
  <2>4. PinInv' /\ AdminInv'
    BY <2>1, <2>3, PinsKeep DEF secret, AdminInv
  <2> QED BY <2>2, <2>4
<1>2. CASE PromoteFence(o)
  <2>1. UNCHANGED <<people, sessions, adminIn, secret, writes, login, admin>>
    BY <1>2 DEF PromoteFence
  <2>2. LoginInv' /\ AdminInv'
    BY <2>1, LoginsKeep DEF AdminInv, secret
  <2>3. UNCHANGED fence \/ \A i \in People : people[i].pin = None
    BY <1>2, FenceChange DEF Ready, Enrolled
  <2>4. PinInv'
    BY <2>1, <2>3 DEF PinInv, PinsDistinct, PinsCurrent, Enrolled, secret
  <2> QED BY <2>2, <2>4
<1>3. CASE Move(o)
  <2>1. UNCHANGED <<people, sessions, adminIn, fence, pending, puts, writes, login, admin>>
    BY <1>3 DEF Move
  <2>2. \/ UNCHANGED current
        \/ current' \in SecretId /\ current'.v = current.v + 1 /\ fence = current.v + 1
    BY <1>3, MoveChange
  <2>3. LoginInv'
    BY <2>1, LoginsKeep
  <2>4. AdminInv'
    <3>1. CASE UNCHANGED current
      BY <2>1, <3>1 DEF AdminInv
    <3>2. CASE current' \in SecretId /\ current'.v = current.v + 1
      <4>1. current'.v >= current.v
        BY <3>2, CurrentVersion
      <4> QED BY <2>1, <3>2, <4>1, AdminsKeep
    <3> QED BY <2>2, <3>1, <3>2
  <2>5. PinInv'
    <3>1. UNCHANGED current \/ \A i \in People : people[i].pin = None
      BY <2>2, CurrentVersion DEF PinInv, PinsCurrent, Enrolled
    <3> QED BY <2>1, <3>1 DEF PinInv, PinsDistinct, PinsCurrent, Enrolled
  <2> QED BY <2>3, <2>4, <2>5
<1>4. CASE \/ StageRead(o) \/ StagePut(o) \/ RequireRead(o) \/ PromoteRead(o)
          \/ Cleanup(o) \/ OpFails(o)
  <2>1. UNCHANGED <<people, sessions, fence, current, login, admin>>
    BY <1>4 DEF StageRead, StagePut, RequireRead, PromoteRead, Cleanup, OpFails, secret
  <2>2. LoginInv'
    BY <2>1, LoginsKeep
  <2> QED BY <2>1, <2>2 DEF AdminInv, PinInv, PinsDistinct, PinsCurrent, Enrolled
<1> QED BY <1>1, <1>2, <1>3, <1>4 DEF OperatorStep

-----------------------------------------------------------------------------
(* Rotation: the commands and the secret.                                    *)

OpRow == [at : {"idle", "stage", "clear", "fence", "move", "cleanup"},
          cur : SecretId \cup {None}, pen : SecretId \cup {None}]

(* What a command may remember while the secret and the fence stay.          *)
Fits(r) ==
  /\ r.pen # None => r.pen.id <= puts
  /\ r.at # "idle" => /\ r.cur \in SecretId /\ r.cur.v <= current.v
                      /\ r.cur.v = current.v => r.cur = current
  /\ r.at = "stage" => r.cur.v < MaxVersion
  /\ r.at = "fence" => \/ r.pen \in {None, r.cur}
                       \/ r.pen.v = r.cur.v + 1 /\ (r.cur = current => Staged)
  /\ r.at = "move" => /\ r.pen # None /\ r.pen.v = r.cur.v + 1
                      /\ r.cur = current => fence = r.pen.v
  /\ r.at = "cleanup" => r.pen # None /\ r.pen.v <= current.v
  /\ r.at = "cleanup" \/ (r.at = "fence" /\ r.pen \in {None, r.cur}) =>
       (Staged => r.pen # pending)

LEMMA NoOpFits == NoOp \in OpRow /\ Fits(NoOp)
BY DEF NoOp, OpRow, Fits

LEMMA OpReplaced ==
  ASSUME TypeOK, SecretInv, NEW o \in Operators, NEW r \in OpRow, Fits(r),
         op' = [op EXCEPT ![o] = r], UNCHANGED <<fence, secret>>
  PROVE  SecretInv' /\ op' \in [Operators -> OpRow]
<1> USE DEF SecretInv
<1>1. /\ op' \in [Operators -> OpRow] /\ op'[o] = r
      /\ \A q \in Operators \ {o} : op'[q] = op[q]
      /\ UNCHANGED <<fence, current, pending, puts, late>>
  BY DEF TypeOK, OpRow, secret
<1>2. Numbered'
  BY <1>1 DEF Numbered, Fits
<1>3. ReadOrPassed'
  BY <1>1 DEF ReadOrPassed, Fits
<1>4. Commands'
  <2>1. SUFFICES ASSUME NEW q \in Operators
                 PROVE /\ op'[q].at = "stage" => op'[q].cur.v < MaxVersion
                       /\ op'[q].at = "fence" => \/ op'[q].pen \in {None, op'[q].cur}
                                                 \/ op'[q].pen.v = op'[q].cur.v + 1
                       /\ op'[q].at = "move" =>
                            /\ op'[q].pen # None /\ op'[q].pen.v = op'[q].cur.v + 1
                            /\ op'[q].cur = current => fence = op'[q].pen.v
                       /\ op'[q].at = "cleanup" => op'[q].pen # None /\ op'[q].pen.v <= current.v
    BY <1>1 DEF Commands, Repeat
  <2>2. CASE q = o
    BY <1>1, <2>2 DEF Fits
  <2>3. CASE q # o
    BY <1>1, <2>3 DEF Commands, Repeat
  <2> QED BY <2>2, <2>3
<1>5. Staged => Staged'
  <2>1. SUFFICES ASSUME Staged, NEW q \in Operators,
                        op'[q].at = "cleanup" \/ (op'[q].at = "fence" /\ op'[q].pen \in {None, op'[q].cur})
                 PROVE op'[q].pen # pending
    BY <1>1 DEF Staged, Repeat
  <2>2. CASE q = o
    BY <1>1, <2>1, <2>2 DEF Fits
  <2>3. CASE q # o
    BY <1>1, <2>1, <2>3 DEF Staged, Repeat
  <2> QED BY <2>2, <2>3
<1>6. fence # current.v \/ Promoting' => Staged
  BY <1>1 DEF Promoting, Repeat, Fits
<1> QED BY <1>1, <1>2, <1>3, <1>4, <1>5, <1>6

LEMMA StageReadSecret ==
  ASSUME IInv, NEW o \in Operators, StageRead(o)
  PROVE  SecretInv' /\ op' \in [Operators -> OpRow]
<1> DEFINE r == [at |-> "stage", cur |-> current, pen |-> None]
<1>1. current \in SecretId /\ current.v \in Nat
  BY CurrentVersion DEF IInv
<1>2. r \in OpRow /\ Fits(r)
  BY <1>1 DEF StageRead, OpRow, Fits
<1> QED BY <1>2, OpReplaced DEF StageRead, IInv

LEMMA RequireReadSecret ==
  ASSUME IInv, NEW o \in Operators, RequireRead(o)
  PROVE  SecretInv' /\ op' \in [Operators -> OpRow]
<1> DEFINE r == [at |-> "clear", cur |-> current, pen |-> pending]
<1>1. current \in SecretId /\ current.v \in Nat /\ pending \in SecretId \cup {None}
      /\ (pending # None => pending.id <= puts)
  BY CurrentVersion DEF IInv, TypeOK, SecretInv, Numbered
<1>2. r \in OpRow /\ Fits(r)
  BY <1>1 DEF OpRow, Fits
<1> QED BY <1>2, OpReplaced DEF RequireRead, IInv

(* A promotion that finds the next version staged finds it beyond the reach  *)
(* of every cleanup.                                                         *)
LEMMA PromoteReadSecret ==
  ASSUME IInv, NEW o \in Operators, PromoteRead(o)
  PROVE  SecretInv' /\ op' \in [Operators -> OpRow]
<1> USE DEF IInv
<1> DEFINE r == [at |-> "fence", cur |-> current, pen |-> pending]
<1>1. current \in SecretId /\ current.v \in Nat /\ pending \in SecretId \cup {None}
      /\ (pending # None => pending.id <= puts)
  BY CurrentVersion DEF TypeOK, SecretInv, Numbered
<1>2. r \in OpRow
  BY <1>1 DEF OpRow
<1>3. pending # None /\ pending.v = current.v + 1 => Staged
  <2>1. SUFFICES ASSUME pending \in SecretId, pending.v = current.v + 1 PROVE Staged
    BY <1>1
  <2>2. pending # None /\ pending # current
    BY <1>1, <2>1, Constants
  <2>3. ASSUME NEW q \in Operators,
               op[q].at = "cleanup" \/ (op[q].at = "fence" /\ Repeat(q))
        PROVE  op[q].pen # pending
    <3>1. SUFFICES ASSUME op[q].pen = pending PROVE FALSE
      OBVIOUS
    <3>2. CASE op[q].at = "cleanup"
      <4>1. pending.v <= current.v
        BY <3>1, <3>2 DEF SecretInv, Commands
      <4> QED BY <4>1, <2>1, <1>1
    <3>3. CASE op[q].at = "fence" /\ Repeat(q)
      <4>1. op[q].cur = pending
        BY <2>2, <3>1, <3>3 DEF Repeat
      <4>2. pending.v <= current.v
        BY <3>3, <4>1 DEF SecretInv, ReadOrPassed
      <4> QED BY <4>2, <2>1, <1>1
    <3> QED BY <2>3, <3>2, <3>3
  <2> QED BY <2>1, <2>2, <2>3 DEF Staged
<1>4. Fits(r)
  BY <1>1, <1>3 DEF PromoteRead, Fits, Staged
<1> QED BY <1>2, <1>4, OpReplaced DEF PromoteRead

LEMMA PromoteFenceSecret ==
  ASSUME IInv, NEW o \in Operators, PromoteFence(o)
  PROVE  SecretInv' /\ op' \in [Operators -> OpRow] /\ fence' \in Version
<1> USE DEF IInv
<1>1. UNCHANGED secret /\ op[o].at = "fence" /\ op[o] \in OpRow
  BY DEF PromoteFence, TypeOK, OpRow
<1>2. current \in SecretId /\ current.v \in Nat
  BY CurrentVersion
<1>3. CASE UNCHANGED fence
  <2> DEFINE r == [op[o] EXCEPT !.at = IF Repeat(o) THEN "cleanup" ELSE "move"]
  <2>1. CASE op' = [op EXCEPT ![o] = NoOp]
    BY <1>1, <1>3, <2>1, NoOpFits, OpReplaced DEF TypeOK
  <2>2. CASE Ready /\ fence = NextOf(o) /\ op[o].pen # None /\ op' = [op EXCEPT ![o] = r]
    <3>1. /\ op[o].cur \in SecretId /\ op[o].cur.v <= current.v
          /\ op[o].cur.v = current.v => op[o].cur = current
          /\ op[o].pen.id <= puts
          /\ Repeat(o) \/ op[o].pen.v = op[o].cur.v + 1
          /\ op[o].at = "fence" /\ Repeat(o) => (Staged => op[o].pen # pending)
      BY <1>1, <2>2 DEF SecretInv, Numbered, ReadOrPassed, Commands, Staged
    <3>2. r \in OpRow /\ r.cur = op[o].cur /\ r.pen = op[o].pen
          /\ r.at = IF Repeat(o) THEN "cleanup" ELSE "move"
      BY <1>1 DEF OpRow
    <3>3. Fits(r)
      <4>1. CASE Repeat(o)
        <5>1. r.at = "cleanup" /\ op[o].pen = op[o].cur
          BY <2>2, <3>2, <4>1 DEF Repeat
        <5> QED BY <1>1, <2>2, <3>1, <3>2, <4>1, <5>1 DEF Fits
      <4>2. CASE ~Repeat(o)
        <5>1. r.at = "move" /\ fence = op[o].pen.v
          BY <2>2, <3>2, <4>2 DEF NextOf
        <5> QED BY <2>2, <3>1, <3>2, <4>2, <5>1 DEF Fits
      <4> QED BY <4>1, <4>2
    <3> HIDE DEF r
    <3> QED BY <1>1, <1>3, <2>2, <3>2, <3>3, OpReplaced DEF TypeOK
  <2> QED BY <1>3, <2>1, <2>2 DEF PromoteFence
<1>4. CASE /\ Ready /\ ~Repeat(o) /\ op[o].cur = current /\ fence = current.v
           /\ fence' = current.v + 1 /\ op[o].pen \in SecretId /\ op[o].pen.v = current.v + 1
           /\ op' = [op EXCEPT ![o] = [op[o] EXCEPT !.at = "move"]]
  <2> DEFINE r == [op[o] EXCEPT !.at = "move"]
  <2>1. r \in OpRow /\ r.cur = current /\ r.pen = op[o].pen /\ r.at = "move"
    BY <1>1, <1>4 DEF OpRow
  <2>2. /\ op' \in [Operators -> OpRow] /\ op'[o] = r
        /\ \A q \in Operators \ {o} : op'[q] = op[q]
        /\ UNCHANGED <<current, pending, puts, late>>
    BY <1>1, <1>4, <2>1 DEF TypeOK, OpRow, secret
  <2> HIDE DEF r
  <2>3. Staged
    BY <1>1, <1>4 DEF SecretInv, Promoting
  <2>4. Staged'
    BY <2>1, <2>2, <2>3 DEF Staged, Repeat
  <2>5. Numbered' /\ ReadOrPassed'
    BY <1>1, <1>2, <1>4, <2>1, <2>2 DEF SecretInv, Numbered, ReadOrPassed
  <2>6. Commands'
    <3>1. op[o].pen # None
      BY <1>4, Constants
    <3> QED BY <1>4, <2>1, <2>2, <3>1 DEF SecretInv, Commands, Repeat
  <2>7. fence' \in Version
    BY <1>4, SecretVersion
  <2> QED BY <1>4, <2>2, <2>4, <2>5, <2>6, <2>7 DEF SecretInv
<1>5. UNCHANGED fence => fence' \in Version
  BY DEF TypeOK
<1> QED BY <1>3, <1>4, <1>5, FenceChange

(* A freshly staged version is in nobody's hands. *)
LEMMA StagePutSecret ==
  ASSUME IInv, NEW o \in Operators, StagePut(o)
  PROVE  SecretInv' /\ op' \in [Operators -> OpRow] /\ pending' \in SecretId /\ puts' \in Nat
<1> USE DEF IInv
<1>1. /\ op[o].at = "stage" /\ op[o].cur \in SecretId /\ op[o].cur.v < MaxVersion
      /\ puts \in Nat /\ puts' = puts + 1 /\ UNCHANGED <<fence, current>>
      /\ pending' = [v |-> op[o].cur.v + 1, id |-> puts + 1] /\ late' = (op[o].cur # current)
      /\ op' = [op EXCEPT ![o] = NoOp]
  BY DEF StagePut, TypeOK, SecretInv, ReadOrPassed, Commands
<1>2. pending' \in SecretId /\ pending'.id = puts + 1
  <2>1. op[o].cur.v \in Version /\ op[o].cur.v \in Nat
    BY <1>1, SecretVersion
  <2>2. op[o].cur.v + 1 \in Version
    BY <1>1, <2>1, Constants DEF Version
  <2> QED BY <1>1, <2>2 DEF SecretId
<1>3. /\ op' \in [Operators -> OpRow] /\ op'[o] = NoOp
      /\ \A q \in Operators \ {o} : op'[q] = op[q]
  BY <1>1, NoOpFits DEF TypeOK, OpRow
<1>4. current.id \in Nat /\ \A q \in Operators : op[q].pen # None => op[q].pen.id \in Nat
  <2>1. \A q \in Operators : op[q].pen \in SecretId \cup {None}
    BY DEF TypeOK
  <2> QED BY <2>1, SecretVersion, CurrentVersion
<1>5. Numbered'
  BY <1>1, <1>2, <1>3, <1>4 DEF SecretInv, Numbered, NoOp
<1>6. ReadOrPassed' /\ Commands'
  BY <1>1, <1>3 DEF SecretInv, ReadOrPassed, Commands, Repeat, NoOp
<1>7. Staged'
  <2>1. pending' # None
    BY <1>2, Constants
  <2>2. pending' # current
    BY <1>1, <1>2, <1>4 DEF SecretInv, Numbered
  <2>3. \A q \in Operators : op'[q].pen # pending'
    <3>1. \A q \in Operators : op[q].pen # None => op[q].pen.id # puts + 1
      BY <1>1, <1>4 DEF SecretInv, Numbered
    <3> QED BY <1>2, <1>3, <2>1, <3>1 DEF NoOp
  <2>4. late' \/ pending'.v = current.v + 1
    BY <1>1
  <2> QED BY <1>1, <2>1, <2>2, <2>3, <2>4 DEF Staged
<1> QED BY <1>1, <1>2, <1>3, <1>5, <1>6, <1>7 DEF SecretInv

LEMMA MoveSecret ==
  ASSUME IInv, NEW o \in Operators, Move(o)
  PROVE  SecretInv' /\ op' \in [Operators -> OpRow] /\ current' \in SecretId
<1> USE DEF IInv
<1>1. UNCHANGED <<fence, pending, puts, late>> /\ op[o].at = "move" /\ op[o] \in OpRow
      /\ current \in SecretId /\ current.v \in Nat
  BY CurrentVersion DEF Move, TypeOK, OpRow
<1>2. CASE UNCHANGED current /\ op' = [op EXCEPT ![o] = NoOp]
  BY <1>1, <1>2, NoOpFits, OpReplaced DEF secret
<1>3. CASE /\ op[o].cur = current /\ current' = op[o].pen /\ op[o].pen \in SecretId
           /\ op[o].pen.v = current.v + 1 /\ fence = current.v + 1
           /\ op' = [op EXCEPT ![o].at = "cleanup"]
  <2> DEFINE r == [op[o] EXCEPT !.at = "cleanup"]
  <2>1. r \in OpRow /\ r.cur = current /\ r.pen = current' /\ r.at = "cleanup"
    BY <1>1, <1>3 DEF OpRow
  <2>2. op' = [op EXCEPT ![o] = r]
    BY <1>1, <1>3 DEF TypeOK
  <2>3. /\ op' \in [Operators -> OpRow] /\ op'[o] = r
        /\ \A q \in Operators \ {o} : op'[q] = op[q]
    BY <1>1, <2>1, <2>2 DEF TypeOK, OpRow
  <2> HIDE DEF r
  <2>4. /\ current'.v = current.v + 1 /\ current'.id <= puts /\ current' # None
        /\ fence' = current'.v
    BY <1>1, <1>3, Constants DEF SecretInv, Numbered
  <2>5. \A q \in Operators : op[q].at # "idle" =>
           op[q].cur \in SecretId /\ op[q].cur.v \in Nat /\ op[q].cur.v <= current.v
    BY SecretVersion DEF SecretInv, ReadOrPassed
  <2>6. \A q \in Operators : op'[q].at # "idle" =>
           op'[q].cur \in SecretId /\ op'[q].cur.v < current'.v /\ op'[q].cur # current'
    <3>1. current.v < current'.v
      BY <1>1, <2>4
    <3> QED BY <1>1, <2>1, <2>3, <2>4, <2>5, <3>1
  <2>7. Numbered'
    BY <1>1, <2>1, <2>3, <2>4 DEF SecretInv, Numbered
  <2>8. ReadOrPassed'
    <3>1. SUFFICES ASSUME NEW q \in Operators, op'[q].at # "idle"
                   PROVE /\ op'[q].cur \in SecretId /\ op'[q].cur.v <= current'.v
                         /\ op'[q].cur.v # current'.v
      BY DEF ReadOrPassed
    <3>2. op'[q].cur \in SecretId /\ op'[q].cur.v < current'.v /\ op'[q].cur.v \in Nat
          /\ current'.v \in Nat
      BY <2>6, <3>1, SecretVersion, <1>1, <2>4
    <3> QED BY <3>2
  <2>9. Commands'
    <3>1. SUFFICES ASSUME NEW q \in Operators
                   PROVE /\ op'[q].at = "stage" => op'[q].cur.v < MaxVersion
                         /\ op'[q].at = "fence" => \/ op'[q].pen \in {None, op'[q].cur}
                                                   \/ op'[q].pen.v = op'[q].cur.v + 1
                         /\ op'[q].at = "move" =>
                              op'[q].pen # None /\ op'[q].pen.v = op'[q].cur.v + 1
                         /\ op'[q].at = "cleanup" =>
                              op'[q].pen # None /\ op'[q].pen.v <= current'.v
      BY <2>6 DEF Commands, Repeat
    <3>2. CASE q = o
      BY <2>1, <2>3, <2>4, <1>1, <3>2
    <3>3. CASE q # o
      <4>1. op'[q] = op[q]
        BY <2>3, <3>3
      <4>2. op[q].at = "cleanup" => op[q].pen # None /\ op[q].pen.v <= current'.v
        <5>1. SUFFICES ASSUME op[q].at = "cleanup" PROVE op[q].pen # None /\ op[q].pen.v <= current'.v
          OBVIOUS
        <5>2. op[q].pen # None /\ op[q].pen.v <= current.v /\ op[q].pen \in SecretId \cup {None}
          BY <5>1 DEF SecretInv, Commands, TypeOK
        <5>3. op[q].pen.v \in Nat
          BY <5>2, SecretVersion
        <5> QED BY <1>1, <2>4, <5>2, <5>3
      <4> QED BY <4>1, <4>2 DEF SecretInv, Commands, Repeat
    <3> QED BY <3>2, <3>3
  <2>10. ~Promoting' /\ fence' = current'.v
    BY <2>4, <2>6 DEF Promoting
  <2> QED BY <1>3, <2>3, <2>7, <2>8, <2>9, <2>10 DEF SecretInv
<1> QED BY <1>1, <1>2, <1>3, MoveChange DEF TypeOK

LEMMA CleanupSecret ==
  ASSUME IInv, NEW o \in Operators, Cleanup(o)
  PROVE  SecretInv' /\ op' \in [Operators -> OpRow] /\ pending' \in SecretId \cup {None}
<1> USE DEF IInv
<1>1. /\ op[o].at = "cleanup" /\ op' = [op EXCEPT ![o] = NoOp]
      /\ UNCHANGED <<fence, current, puts, late>>
      /\ pending' \in {pending, None} /\ (op[o].pen # pending => pending' = pending)
  BY DEF Cleanup
<1>2. CASE pending' = pending
  BY <1>1, <1>2, NoOpFits, OpReplaced DEF secret, TypeOK
<1>3. CASE pending' = None /\ op[o].pen = pending
  <2>1. ~Staged
    BY <1>1, <1>3 DEF Staged
  <2>2. fence = current.v /\ ~Promoting
    BY <2>1 DEF SecretInv
  <2>3. /\ op' \in [Operators -> OpRow] /\ op'[o] = NoOp
        /\ \A q \in Operators \ {o} : op'[q] = op[q]
    BY <1>1, NoOpFits DEF TypeOK, OpRow
  <2>4. Numbered' /\ ReadOrPassed' /\ Commands'
    BY <1>1, <1>3, <2>3 DEF SecretInv, Numbered, ReadOrPassed, Commands, Repeat, NoOp
  <2>5. ~Promoting'
    BY <1>1, <2>2, <2>3 DEF Promoting, Repeat, NoOp
  <2> QED BY <1>1, <1>3, <2>2, <2>3, <2>4, <2>5 DEF SecretInv
<1> QED BY <1>1, <1>2, <1>3

LEMMA OperatorKeepsInv ==
  ASSUME IInv, NEW o \in Operators, OperatorStep(o)
  PROVE  IInv'
<1> USE DEF IInv
<1>1. LoginInv' /\ AdminInv' /\ PinInv'
  BY OperatorData
<1>2. RequireClear(o) \/ OpFails(o) => SecretInv' /\ op' \in [Operators -> OpRow]
  <2>1. SUFFICES ASSUME RequireClear(o) \/ OpFails(o)
                 PROVE  SecretInv' /\ op' \in [Operators -> OpRow]
    OBVIOUS
  <2>2. op' = [op EXCEPT ![o] = NoOp] /\ UNCHANGED <<fence, secret>>
    BY <2>1 DEF RequireClear, OpFails
  <2> QED BY <2>2, NoOpFits, OpReplaced
<1>3. SecretInv' /\ op' \in [Operators -> OpRow]
  BY <1>2, StageReadSecret, StagePutSecret, RequireReadSecret, PromoteReadSecret,
     PromoteFenceSecret, MoveSecret, CleanupSecret DEF OperatorStep
<1>4. /\ fence' \in Version /\ current' \in SecretId
      /\ pending' \in SecretId \cup {None} /\ puts' \in Nat /\ late' \in BOOLEAN
  <2>1. /\ fence \in Version /\ current \in SecretId
        /\ pending \in SecretId \cup {None} /\ puts \in Nat /\ late \in BOOLEAN
    BY DEF TypeOK
  <2> QED BY <2>1, StagePutSecret, PromoteFenceSecret, MoveSecret, CleanupSecret
          DEF OperatorStep, StageRead, StagePut, RequireRead, RequireClear, PromoteRead,
              PromoteFence, Move, Cleanup, OpFails, secret
<1>5. /\ people' \in [People -> Person] /\ sessions' \subseteq Session /\ adminIn' \subseteq Admins
      /\ UNCHANGED <<writes, login, admin>>
  <2>1. CASE RequireClear(o)
    <3> DEFINE Cleared(i) == [people[i] EXCEPT !.pin = None, !.cred = 0]
    <3>1. ASSUME NEW i \in People
          PROVE  Cleared(i) \in Person
      <4>1. people[i] \in Person
        BY DEF TypeOK
      <4> QED BY <4>1 DEF Person
    <3>2. people' = [i \in People |-> Cleared(i)] \/ people' = people
      BY <2>1 DEF RequireClear
    <3> HIDE DEF Cleared
    <3>3. people' \in [People -> Person]
      <4>1. [i \in People |-> Cleared(i)] \in [People -> Person]
        BY <3>1
      <4> QED BY <3>2, <4>1 DEF TypeOK
    <3> QED BY <2>1, <3>3 DEF RequireClear, TypeOK
  <2>2. CASE ~RequireClear(o)
    BY <2>2 DEF OperatorStep, StageRead, StagePut, RequireRead, PromoteRead, PromoteFence,
                Move, Cleanup, OpFails, TypeOK
  <2> QED BY <2>1, <2>2
<1>6. TypeOK'
  BY <1>3, <1>4, <1>5 DEF TypeOK, OpRow
<1> QED BY <1>1, <1>3, <1>6

-----------------------------------------------------------------------------
(* Every step preserves the inductive invariant. *)
LEMMA StepInv == IInv /\ [Next]_vars => IInv'
<1> SUFFICES ASSUME IInv, [Next]_vars PROVE IInv'
  OBVIOUS
<1>1. CASE \E p \in Logins : LoginStep(p)
  BY <1>1, LoginKeepsInv
<1>2. CASE \E a \in Admins : AdminStep(a)
  <2>1. PICK a \in Admins : AdminStep(a)
    BY <1>2
  <2>2. Request(a) \/ EnrollWrite(a) \/ SwitchWrite(a)
    BY <2>1 DEF AdminStep, Request
  <2> QED BY <2>2, RequestKeepsInv, EnrollKeepsInv, SwitchKeepsInv
<1>3. CASE \E o \in Operators : OperatorStep(o)
  BY <1>3, OperatorKeepsInv
<1>4. CASE (\E s \in sessions : SessionEnds(s)) \/ (\E i \in People : Anonymize(i))
  BY <1>4, DataKeepsInv
<1>5. CASE UNCHANGED vars
  <2>1. UNCHANGED <<people, sessions, adminIn, fence, secret, writes, login, admin, op>>
    BY <1>5 DEF vars
  <2>2. LoginInv'
    BY <2>1, LoginsKeep DEF IInv
  <2>3. SecretInv'
    BY <2>1, SecretKeeps DEF IInv
  <2> QED BY <2>1, <2>2, <2>3 DEF IInv, TypeOK, AdminInv, PinInv, PinsDistinct, PinsCurrent,
                                  Enrolled, secret
<1> QED BY <1>1, <1>2, <1>3, <1>4, <1>5 DEF Next

-----------------------------------------------------------------------------
(* The inductive invariant holds in every reachable state. *)
THEOREM Invariant == Spec => []IInv
BY InitInv, StepInv, PTL DEF Spec

(* The state keeps its types. *)
THEOREM TypeCorrect == Spec => []TypeOK
BY Invariant, PTL DEF IInv

(* However many sign-ins of one person overlap, an insert never meets a      *)
(* session that its own transaction did not revoke                           *)
(* (createLocalPinStaffSession).                                             *)
THEOREM SignInsNeverCollide == Spec => []LoginNeverCollides
<1>1. IInv => LoginNeverCollides
  BY DEF IInv, LoginInv
<1> QED BY <1>1, Invariant, PTL

(* Every unrevoked session rests on the PIN its person has now, which is     *)
(* what redemption takes for granted (authorizePinStaffRedeemRequest).       *)
THEOREM SessionsRestOnPins == Spec => []SessionsBacked
<1>1. IInv => SessionsBacked
  BY DEF IInv, LoginInv
<1> QED BY <1>1, Invariant, PTL

(* No two people ever share a PIN, across any number of rotations            *)
(* (staff_identities_pin_scope_unique_idx with the fence of migration 0012). *)
THEOREM PinsAreDistinct == Spec => []PinsDistinct
<1>1. IInv => PinsDistinct
  BY DEF IInv, PinInv
<1> QED BY <1>1, Invariant, PTL

(* A usable PIN always belongs to the current pepper                         *)
(* (enforce_staff_pin_pepper_version, ensureDatabasePepperFence).            *)
THEOREM PinsAreCurrent == Spec => []PinsCurrent
<1>1. IInv => PinsCurrent
  BY DEF IInv, PinInv
<1> QED BY <1>1, Invariant, PTL

(* While the fence is ahead of the secret, the staged version is the next    *)
(* one, so that a promotion that died can be run again (promotePending),     *)
(* with any number of commands running and dying, unless the staging was     *)
(* overtaken by a rotation (late).                                           *)
THEOREM PromotionCanResume == Spec => []SecretFenced
<1>1. IInv => SecretFenced
  BY DEF IInv, SecretInv, SecretFenced, Staged
<1> QED BY <1>1, Invariant, PTL
=============================================================================
