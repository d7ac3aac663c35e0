------------------------ MODULE AccountBinding_proofs -------------------------
(***************************************************************************)
(* Logins that race for one identity get one user, and no login leaves     *)
(* anything half-made, for any number of logins, sources and claims.       *)
(***************************************************************************)
EXTENDS AccountBinding, TLAPS

Made(r) == login[r].at \in {"done", "lost"}

(* The unique index, and that a user has one binding. *)
KeysInv ==
  /\ \A b, c \in bindings : SameKey(b, c) => b = c
  /\ \A b, c \in bindings : b.user = c.user => b = c
  /\ \A b \in bindings : b.user \in users

(* The users are those that a committed login made for itself.             *)
UsersInv == \A u \in Login : u \in users <=> Made(u) /\ login[u].user = u

(* The binding of a login's identity is that of its user.                  *)
Bound(k) == \E b \in bindings : SameKey(b, k.identity) /\ b.user = k.user
(* No one has the identity's key yet. *)
Unbound(k) == \A b \in bindings : ~SameKey(b, k.identity)

(* What a login has found out and written, by the statement it is at.      *)
Holding(k) == k.row # None /\ k.user # None /\ SameKey(k.row, k.identity) /\ k.row.user = k.user
Settled(r, k) == \/ k.user = r /\ Unbound(k)
                 \/ k.user # r /\ Bound(k)
Events(r, k) == {[event |-> IF k.user = r THEN "created" ELSE "reused", user |-> k.user, by |-> r],
                 [event |-> "resolved", user |-> k.user, by |-> r]}

Consistent(r, k) ==
  /\ k.at \in {"start", "skipped", "failed"} => k.row = None
  /\ k.at \in Phase \ {"start", "skipped", "failed"} => k.identity # None
  /\ k.at = "lookup" => k.row = None
  /\ k.at = "insert" => k.row = None /\ k.user = r
  /\ k.at = "touch"  => \/ k.row = None /\ k.user # r /\ Bound(k)
                        \/ k.user = r /\ Holding(k) /\ Unbound(k)
  /\ k.at = "audit"  => Holding(k) /\ Settled(r, k)
  /\ k.at = "commit" => Holding(k) /\ Settled(r, k) /\ k.events = Events(r, k)
  /\ k.at \in {"done", "lost"} => k.row = None /\ k.user # None /\ Bound(k)

LoginInv == \A r \in Login : Consistent(r, login[r])

(* Two transactions never hold rows with one key. *)
RowsInv == \A r, q \in Login :
  login[r].row # None /\ login[q].row # None /\ SameKey(login[r].row, login[q].row) => r = q

AuditInv ==
  /\ \A e \in audits : Made(e.by) /\ e.user = login[e.by].user /\ (e.event = "created" => e.by = e.user)
  /\ \A r \in Login : Made(r) =>
       /\ [event |-> "resolved", user |-> login[r].user, by |-> r] \in audits
       /\ login[r].user = r => [event |-> "created", user |-> r, by |-> r] \in audits

BindingInv == TypeOK /\ KeysInv /\ UsersInv /\ LoginInv /\ RowsInv /\ AuditInv

LoginType == [at : Phase, identity : Identity \cup {None}, user : Login \cup {None},
              row : Binding \cup {None}, events : SUBSET Audit]

LEMMA BindingInvInit == Init => BindingInv
<1> SUFFICES ASSUME Init PROVE BindingInv
  OBVIOUS
<1>1. TypeOK
  BY DEF Init, TypeOK, Idle, Phase
<1>2. \A r \in Login : login[r] = Idle
  BY DEF Init
<1>3. LoginInv /\ RowsInv
  BY <1>2 DEF LoginInv, RowsInv, Consistent, Idle, Phase
<1>4. KeysInv /\ UsersInv /\ AuditInv
  BY <1>2 DEF Init, KeysInv, UsersInv, AuditInv, Made, Idle
<1> QED
  BY <1>1, <1>3, <1>4 DEF BindingInv

(* A step of one login that leaves the tables alone.                       *)
LEMMA QuietLogin ==
  ASSUME BindingInv, NEW r \in Login, NEW k \in LoginType, Become(r, k),
         UNCHANGED <<users, bindings, audits, bearer>>,
         ~Made(r), k.at \notin {"done", "lost"}, Consistent(r, k),
         \A q \in Login \ {r} : k.row = None \/ login[q].row = None \/ ~SameKey(k.row, login[q].row)
  PROVE  BindingInv'
<1>1. login' = [login EXCEPT ![r] = k] /\ login \in [Login -> LoginType]
  BY DEF BindingInv, TypeOK, Become, LoginType
<1>2. login'[r] = k /\ \A q \in Login \ {r} : login'[q] = login[q]
  BY <1>1
<1>3. TypeOK'
  BY <1>1 DEF BindingInv, TypeOK, LoginType
<1>4. \A q \in Login : Made(q)' <=> Made(q)
  BY <1>2 DEF Made
<1>5. KeysInv' /\ UsersInv'
  BY <1>2, <1>4 DEF BindingInv, KeysInv, UsersInv, SameKey
<1>6. LoginInv'
  BY <1>2 DEF BindingInv, LoginInv, Consistent, Bound, Unbound, Holding, Settled, Events
<1>7. RowsInv'
  BY <1>2 DEF BindingInv, RowsInv, SameKey
<1>8. AuditInv'
  <2>1. \A e \in audits : e.by \in Login
    BY DEF BindingInv, TypeOK, Audit
  <2> QED
    BY <1>2, <1>4, <2>1 DEF BindingInv, AuditInv, Made
<1> QED
  BY <1>3, <1>5, <1>6, <1>7, <1>8 DEF BindingInv

LEMMA FailKeeps ==
  ASSUME BindingInv, NEW r \in Login, ~Made(r), Fail(r), UNCHANGED <<users, bindings, audits, bearer>>
  PROVE  BindingInv'
<1> DEFINE k == [Idle EXCEPT !.at = "failed"]
<1>1. k \in LoginType /\ Consistent(r, k) /\ k.row = None /\ k.at = "failed"
  BY DEF LoginType, Consistent, Idle, Phase
<1> QED
  BY <1>1, QuietLogin DEF Fail

LEMMA UserInfoKeeps ==
  ASSUME BindingInv, NEW r \in Login, UserInfo(r)
  PROVE  BindingInv'
<1>1. ~Made(r) /\ UNCHANGED <<users, bindings, audits, bearer>>
  BY DEF UserInfo, Made
<1>2. CASE Fail(r)
  BY <1>1, <1>2, FailKeeps
<1>3. ASSUME NEW s \in Source, NEW claims \in Claims,
             Become(r, [login[r] EXCEPT !.at = IF IdentityOf(s, claims) = None THEN "skipped" ELSE "lookup",
                                        !.identity = IdentityOf(s, claims)])
      PROVE  BindingInv'
  <2> DEFINE i == IdentityOf(s, claims)
             k == [login[r] EXCEPT !.at = IF i = None THEN "skipped" ELSE "lookup", !.identity = i]
  <2>1. i \in Identity \cup {None}
    BY DEF IdentityOf, Identity, Claims
  <2>2. login[r] \in LoginType /\ login[r].row = None
    BY DEF BindingInv, TypeOK, LoginType, LoginInv, Consistent, UserInfo
  <2> HIDE DEF i
  <2>3. k \in LoginType /\ k.row = None /\ k.at \in {"skipped", "lookup"}
        /\ (k.at = "lookup" => k.identity # None)
    BY <2>1, <2>2 DEF LoginType, Phase
  <2>4. Consistent(r, k)
    BY <2>3 DEF Consistent, Phase
  <2> QED
    BY <1>1, <1>3, <2>3, <2>4, QuietLogin DEF i
<1> QED
  BY <1>2, <1>3 DEF UserInfo

LEMMA LookupKeeps ==
  ASSUME BindingInv, NEW r \in Login, Lookup(r)
  PROVE  BindingInv'
<1> DEFINE k == login[r]
<1>1. ~Made(r) /\ UNCHANGED <<users, bindings, audits, bearer>>
  BY DEF Lookup, Made
<1>2. k \in LoginType /\ k.row = None /\ k.at = "lookup" /\ k.identity # None
  BY DEF BindingInv, TypeOK, LoginType, LoginInv, Consistent, Lookup, Phase
<1>3. ASSUME NEW b \in bindings, SameKey(b, k.identity), Become(r, [k EXCEPT !.at = "touch", !.user = b.user])
      PROVE  BindingInv'
  <2> DEFINE new == [k EXCEPT !.at = "touch", !.user = b.user]
  <2>1. b.user \in Login /\ b.user # r
    BY <1>1 DEF BindingInv, TypeOK, Binding, KeysInv, UsersInv
  <2>2. new \in LoginType /\ new.row = None /\ new.at = "touch" /\ new.user = b.user
        /\ new.identity = k.identity
    BY <1>2, <2>1 DEF LoginType, Phase
  <2> HIDE DEF new
  <2>3. Consistent(r, new)
    BY <1>2, <1>3, <2>1, <2>2 DEF Consistent, Bound, Phase
  <2> QED
    BY <1>1, <1>3, <2>2, <2>3, QuietLogin DEF new
<1>4. ASSUME Become(r, [k EXCEPT !.at = "insert", !.user = r])
      PROVE  BindingInv'
  <2> DEFINE new == [k EXCEPT !.at = "insert", !.user = r]
  <2>1. new \in LoginType /\ new.row = None /\ new.at = "insert" /\ new.user = r
        /\ new.identity = k.identity
    BY <1>2 DEF LoginType, Phase
  <2> HIDE DEF new
  <2>2. Consistent(r, new)
    BY <1>2, <2>1 DEF Consistent, Phase
  <2> QED
    BY <1>1, <1>4, <2>1, <2>2, QuietLogin DEF new
<1> QED
  BY <1>3, <1>4 DEF Lookup

(* The index check and the wait keep two rows with one key apart.          *)
LEMMA InsertKeeps ==
  ASSUME BindingInv, NEW r \in Login, Insert(r)
  PROVE  BindingInv'
<1> DEFINE k == login[r]
           i == k.identity
           row == [source |-> i.source, subject |-> i.subject, key |-> i.key, user |-> r]
           new == [k EXCEPT !.at = "touch", !.row = row]
<1>1. ~Made(r) /\ UNCHANGED <<users, bindings, audits, bearer>> /\ ~Contended(r)
  BY DEF Insert, Made
<1>2. k \in LoginType /\ k.at = "insert" /\ i # None /\ k.user = r /\ r # None
  BY AccountBindingAssumption DEF BindingInv, TypeOK, LoginType, LoginInv, Consistent, Insert, Phase
<1>3. CASE Fail(r)
  BY <1>1, <1>3, FailKeeps
<1>4. CASE Unbound(k) /\ Become(r, new)
  <2>1. i \in Identity
    BY <1>2 DEF LoginType
  <2>2. row \in Binding /\ SameKey(row, i) /\ row.user = r
    BY <2>1 DEF Binding, Identity, SameKey
  <2>3. row # None
    BY <2>2, AccountBindingAssumption DEF Binding
  <2> HIDE DEF row
  <2>4. new \in LoginType /\ new.row = row /\ new.at = "touch" /\ new.user = r /\ new.identity = i
    BY <1>2, <2>2 DEF LoginType, Phase
  <2> HIDE DEF new
  <2>5. Consistent(r, new)
    BY <1>2, <1>4, <2>2, <2>3, <2>4 DEF Consistent, Holding, Unbound, Phase
  <2>6. \A q \in Login \ {r} : login[q].row = None \/ ~SameKey(new.row, login[q].row)
    BY <1>1, <2>2, <2>4 DEF Contended, SameKey
  <2> QED
    BY <1>1, <1>4, <2>4, <2>5, <2>6, QuietLogin
<1> QED
  BY <1>3, <1>4 DEF Insert, Unbound

LEMMA TouchKeeps ==
  ASSUME BindingInv, NEW r \in Login, Touch(r)
  PROVE  BindingInv'
<1> DEFINE k == login[r]
           i == k.identity
           seen == IF k.row # None THEN {k.row} ELSE {b \in bindings : SameKey(b, i) /\ Owned(k.user, b)}
<1>1. ~Made(r) /\ UNCHANGED <<users, bindings, audits, bearer>> /\ ~Contended(r)
  BY DEF Touch, Made
<1>2. /\ k \in LoginType /\ k.at = "touch" /\ i # None
      /\ \/ k.row = None /\ k.user # r /\ Bound(k)
         \/ k.user = r /\ Holding(k) /\ Unbound(k)
  BY DEF BindingInv, TypeOK, LoginType, LoginInv, Consistent, Touch, Phase
<1>3. PICK b \in seen : Become(r, [k EXCEPT !.at = "audit", !.row = [b EXCEPT !.subject = i.subject]])
  <2>1. seen # {}
    BY <1>2 DEF Bound, Owned, Holding
  <2>2. \/ \E b \in seen : Become(r, [k EXCEPT !.at = "audit", !.row = [b EXCEPT !.subject = i.subject]])
        \/ seen = {} /\ Become(r, [k EXCEPT !.at = "audit"])
    BY DEF Touch
  <2> QED
    BY <2>1, <2>2
<1> DEFINE row == [b EXCEPT !.subject = i.subject]
           new == [k EXCEPT !.at = "audit", !.row = row]
<1>4. b \in Binding /\ SameKey(b, i) /\ b.user = k.user /\ i \in Identity
  BY <1>2 DEF LoginType, Holding, BindingInv, TypeOK, Owned
<1>5. row \in Binding /\ SameKey(row, i) /\ row.user = k.user
  BY <1>4 DEF Binding, Identity, SameKey
<1>6. row # None /\ k.user # None
  BY <1>4, <1>5, AccountBindingAssumption DEF Binding
<1> HIDE DEF row
<1>7. new \in LoginType /\ new.row = row /\ new.at = "audit" /\ new.user = k.user /\ new.identity = i
  BY <1>2, <1>5 DEF LoginType, Phase
<1> HIDE DEF new
<1>8. Consistent(r, new)
  BY <1>2, <1>5, <1>6, <1>7 DEF Consistent, Holding, Settled, Bound, Unbound, Phase
<1>9. \A q \in Login \ {r} : login[q].row = None \/ ~SameKey(new.row, login[q].row)
  BY <1>1, <1>5, <1>7 DEF Contended, SameKey
<1> QED
  BY <1>1, <1>3, <1>7, <1>8, <1>9, QuietLogin DEF new, row

LEMMA RecordAuditKeeps ==
  ASSUME BindingInv, NEW r \in Login, RecordAudit(r)
  PROVE  BindingInv'
<1> DEFINE k == login[r]
           new == [k EXCEPT !.at = "commit", !.events = Events(r, k)]
<1>1. ~Made(r) /\ UNCHANGED <<users, bindings, audits, bearer>> /\ Become(r, new)
  BY DEF RecordAudit, Made, Events
<1>2. k \in LoginType /\ k.at = "audit" /\ k.identity # None /\ Holding(k) /\ Settled(r, k)
  BY DEF BindingInv, TypeOK, LoginType, LoginInv, Consistent, RecordAudit, Phase
<1>3. Events(r, k) \in SUBSET Audit
  BY <1>2 DEF LoginType, Holding, Events, Audit
<1>4. /\ new \in LoginType /\ new.row = k.row /\ new.at = "commit" /\ new.user = k.user
      /\ new.identity = k.identity /\ new.events = Events(r, k)
  BY <1>2, <1>3 DEF LoginType, Phase
<1> HIDE DEF new
<1>5. Consistent(r, new)
  BY <1>2, <1>4 DEF Consistent, Holding, Settled, Bound, Unbound, Events, Phase
<1>6. \A q \in Login \ {r} : new.row = None \/ login[q].row = None \/ ~SameKey(new.row, login[q].row)
  BY <1>4 DEF BindingInv, RowsInv, SameKey
<1> QED
  BY <1>1, <1>4, <1>5, <1>6, QuietLogin

LEMMA RollbackKeeps ==
  ASSUME BindingInv, NEW r \in Login, Rollback(r)
  PROVE  BindingInv'
  BY FailKeeps DEF Rollback, Running, Made

(* The committed row replaces the one with its key, or is the first.       *)
LEMMA CommitKeeps ==
  ASSUME BindingInv, NEW r \in Login, Commit(r)
  PROVE  BindingInv'
<1> DEFINE k == login[r]
<1>1. PICK at \in {"done", "lost"} : Become(r, [k EXCEPT !.at = at, !.row = None, !.events = {}])
  BY DEF Commit
<1> DEFINE new == [k EXCEPT !.at = at, !.row = None, !.events = {}]
<1>2. /\ k \in LoginType /\ k.at = "commit" /\ k.identity # None /\ Holding(k) /\ Settled(r, k)
      /\ k.events = Events(r, k) /\ ~Made(r)
  BY DEF BindingInv, TypeOK, LoginType, LoginInv, Consistent, Commit, Phase, Made
<1>3. /\ k.row \in Binding /\ k.row # None /\ SameKey(k.row, k.identity) /\ k.row.user = k.user
      /\ k.user \in Login /\ k.user # None /\ k.identity \in Identity
  BY <1>2 DEF LoginType, Holding
<1>4. /\ users' = IF k.user = r THEN users \cup {r} ELSE users
      /\ bindings' = {b \in bindings : ~SameKey(b, k.identity)} \cup {k.row}
      /\ audits' = audits \cup Events(r, k)
      /\ bearer' = bearer
  BY <1>2, <1>3 DEF Commit
<1>5. login' = [login EXCEPT ![r] = new] /\ login \in [Login -> LoginType]
  BY <1>1 DEF BindingInv, TypeOK, Become, LoginType
<1>6. /\ new \in LoginType /\ new.at \in {"done", "lost"} /\ new.row = None
      /\ new.user = k.user /\ new.identity = k.identity
  BY <1>2 DEF LoginType, Phase
<1> HIDE DEF new
<1>7. login'[r] = new /\ \A q \in Login \ {r} : login'[q] = login[q]
  BY <1>5
<1>8. Made(r)' /\ \A q \in Login \ {r} : Made(q)' <=> Made(q)
  BY <1>6, <1>7 DEF Made
<1>9. Events(r, k) \subseteq Audit
  BY <1>3 DEF Events, Audit
<1>10. TypeOK'
  <2>1. users' \subseteq Login /\ bindings' \subseteq Binding /\ audits' \subseteq Audit
    BY <1>3, <1>4, <1>9 DEF BindingInv, TypeOK
  <2>2. login' \in [Login -> LoginType]
    BY <1>5, <1>6
  <2> QED
    BY <1>4, <2>1, <2>2 DEF BindingInv, TypeOK, LoginType
(* With another user's binding, r replaces that user's; else it adds one.  *)
<1>11. \A b \in bindings : SameKey(b, k.identity) => b.user = k.user /\ k.user # r
  BY <1>2 DEF Settled, Bound, Unbound, BindingInv, KeysInv, SameKey
<1>12. k.user # r => k.user \in users
  BY <1>2 DEF Settled, Bound, BindingInv, KeysInv
<1>13. r \notin users
  BY <1>2 DEF BindingInv, UsersInv
<1>14. \A b \in bindings : b.user = k.user => SameKey(b, k.identity)
  BY <1>2, <1>13 DEF Settled, Bound, BindingInv, KeysInv
<1>15. KeysInv'
  <2>1. \A b \in bindings' : b = k.row \/ (b \in bindings /\ ~SameKey(b, k.identity))
    BY <1>4
  <2>2. \A b, c \in bindings' : SameKey(b, c) => b = c
    BY <1>3, <2>1 DEF BindingInv, KeysInv, SameKey
  <2>3. \A b, c \in bindings' : b.user = c.user => b = c
    BY <1>3, <1>14, <2>1 DEF BindingInv, KeysInv
  <2>4. \A b \in bindings' : b.user \in users'
    BY <1>3, <1>4, <1>12, <2>1 DEF BindingInv, KeysInv
  <2> QED
    BY <2>2, <2>3, <2>4 DEF KeysInv, SameKey
<1>16. UsersInv'
  <2>1. \A u \in Login \ {r} : u \in users' <=> Made(u)' /\ login'[u].user = u
    BY <1>4, <1>7, <1>8 DEF BindingInv, UsersInv
  <2>2. r \in users' <=> Made(r)' /\ login'[r].user = r
    BY <1>4, <1>6, <1>7, <1>8, <1>13
  <2> QED
    BY <2>1, <2>2 DEF UsersInv
<1>17. RowsInv'
  BY <1>6, <1>7 DEF BindingInv, RowsInv, SameKey
<1>18. LoginInv'
  <2>1. Consistent(r, login[r])'
    <3>1. k.row \in bindings' /\ SameKey(k.row, k.identity) /\ k.row.user = k.user
      BY <1>3, <1>4
    <3>2. /\ login'[r].at \in {"done", "lost"} /\ login'[r].row = None
          /\ login'[r].user = k.user /\ login'[r].identity = k.identity
      BY <1>6, <1>7
    <3>3. Bound(login[r])'
      BY <3>1, <3>2 DEF Bound, SameKey
    <3> QED
      BY <1>2, <1>3, <3>2, <3>3 DEF Consistent, Phase
  <2>2. ASSUME NEW q \in Login \ {r} PROVE Consistent(q, login[q])'
    <3> DEFINE m == login[q]
    <3>1. Consistent(q, m) /\ m' = m
      BY <1>7 DEF BindingInv, LoginInv
    (* A row that q holds has another key than the one r commits.          *)
    <3>2. m.row # None => ~SameKey(m.row, k.row)
      BY <1>3 DEF BindingInv, RowsInv
    <3>3. Bound(m) => Bound(m)'
      <4>1. SUFFICES ASSUME NEW b \in bindings, SameKey(b, m.identity), b.user = m.user
                     PROVE  \E c \in bindings' : SameKey(c, m.identity) /\ c.user = m.user
        BY <3>1 DEF Bound, SameKey
      <4>2. CASE ~SameKey(b, k.identity)
        BY <1>4, <4>1, <4>2
      <4>3. CASE SameKey(b, k.identity)
        BY <1>3, <1>4, <1>11, <4>1, <4>3 DEF SameKey
      <4> QED
        BY <4>2, <4>3
    <3>4. Holding(m) /\ Unbound(m) => Unbound(m)'
      BY <1>3, <1>4, <3>1, <3>2 DEF Holding, Unbound, SameKey
    <3> HIDE DEF m
    <3>5. Holding(m)' <=> Holding(m)
      BY <3>1 DEF Holding, SameKey
    <3> QED
      BY <3>1, <3>3, <3>4, <3>5 DEF Consistent, Settled, Events, m
  <2> QED
    BY <2>1, <2>2 DEF LoginInv
<1>19. AuditInv'
  <2>1. ASSUME NEW e \in audits'
        PROVE  Made(e.by)' /\ e.user = login'[e.by].user /\ (e.event = "created" => e.by = e.user)
    <3>1. CASE e \in audits
      <4>1. e.by \in Login /\ Made(e.by)
        BY <3>1 DEF BindingInv, TypeOK, Audit, AuditInv
      <4>2. e.by # r
        BY <1>2, <4>1
      <4> QED
        BY <1>7, <1>8, <3>1, <4>1, <4>2 DEF BindingInv, AuditInv
    <3>2. CASE e \in Events(r, k)
      BY <1>6, <1>7, <1>8, <3>2 DEF Events
    <3> QED
      BY <1>4, <3>1, <3>2
  <2>2. ASSUME NEW q \in Login, Made(q)'
        PROVE  /\ [event |-> "resolved", user |-> login'[q].user, by |-> q] \in audits'
               /\ login'[q].user = q => [event |-> "created", user |-> q, by |-> q] \in audits'
    <3>1. CASE q = r
      BY <1>4, <1>6, <1>7, <3>1 DEF Events
    <3>2. CASE q # r
      BY <1>4, <1>7, <1>8, <2>2, <3>2 DEF BindingInv, AuditInv
    <3> QED
      BY <3>1, <3>2
  <2> QED
    BY <2>1, <2>2 DEF AuditInv
<1> QED
  BY <1>10, <1>15, <1>16, <1>17, <1>18, <1>19 DEF BindingInv

LEMMA AuthenticateKeeps ==
  ASSUME BindingInv, NEW b \in Bearer, Authenticate(b)
  PROVE  BindingInv'
<1>1. UNCHANGED <<users, bindings, audits, login>>
  BY DEF Authenticate
<1>a. PICK s \in Source, subject \in Text :
        \E user \in Principals(FoundBySubject(s, subject)) :
          bearer' = [bearer EXCEPT ![b] = [source |-> s, subject |-> subject, user |-> user, logins |-> Committed]]
  BY DEF Authenticate
<1>2. PICK user \in Principals(FoundBySubject(s, subject)) :
        bearer' = [bearer EXCEPT ![b] = [source |-> s, subject |-> subject, user |-> user, logins |-> Committed]]
  BY <1>a
<1>3. user \in Login \cup {None}
  <2> DEFINE found == FoundBySubject(s, subject)
  <2>1. \A x \in found : x.user \in Login
    BY DEF FoundBySubject, BindingInv, TypeOK, Binding
  <2> QED
    BY <2>1 DEF Principals
<1>4. Committed \in SUBSET Login
  BY DEF Committed
<1>5. TypeOK'
  BY <1>1, <1>2, <1>3, <1>4 DEF BindingInv, TypeOK
<1> QED
  BY <1>1, <1>5 DEF BindingInv, KeysInv, UsersInv, LoginInv, RowsInv, AuditInv, Consistent, Bound, Unbound,
     Holding, Settled, Events, SameKey, Made

LEMMA BindingInvStep == BindingInv /\ [Next]_vars => BindingInv'
<1> SUFFICES ASSUME BindingInv, [Next]_vars PROVE BindingInv'
  OBVIOUS
<1>1. ASSUME NEW r \in Login, UserInfo(r) \/ Step(r) \/ Rollback(r) PROVE BindingInv'
  BY <1>1, UserInfoKeeps, LookupKeeps, InsertKeeps, TouchKeeps, RecordAuditKeeps, CommitKeeps, RollbackKeeps
     DEF Step
<1>2. ASSUME NEW b \in Bearer, Authenticate(b) PROVE BindingInv'
  BY <1>2, AuthenticateKeeps
<1>3. CASE UNCHANGED vars
  BY <1>3 DEF vars, BindingInv, TypeOK, KeysInv, UsersInv, LoginInv, RowsInv, AuditInv, Consistent, Bound,
     Unbound, Holding, Settled, Events, SameKey, Made
<1> QED
  BY <1>1, <1>2, <1>3 DEF Next

LEMMA BindingInvariant == Spec => []BindingInv
  BY BindingInvInit, BindingInvStep, PTL DEF Spec

(* Every variable keeps its type. *)
THEOREM AccountTypes == Spec => []TypeOK
<1>1. BindingInv => TypeOK
  BY DEF BindingInv
<1> QED
  BY <1>1, BindingInvariant, PTL

(* Logins that succeed with one source and identity key get one user: each  *)
(* has that key's binding, and there is only one.                          *)
THEOREM LoginsAgree == Spec => []OneUserPerIdentity
<1>1. BindingInv => OneUserPerIdentity
  <2> SUFFICES ASSUME BindingInv, NEW r \in Committed, NEW q \in Committed,
                      SameKey(login[r].identity, login[q].identity)
               PROVE  login[r].user = login[q].user
    BY DEF OneUserPerIdentity
  <2>1. Bound(login[r]) /\ Bound(login[q])
    BY DEF Committed, BindingInv, LoginInv, Consistent
  <2> QED
    BY <2>1 DEF Bound, BindingInv, KeysInv, SameKey
<1> QED
  BY <1>1, BindingInvariant, PTL

(* Users, bindings and audit events are made together or not at all.       *)
THEOREM NothingHalfMade == Spec => []UsersAreAccountedFor
<1>1. BindingInv => UsersAreAccountedFor
  <2> SUFFICES ASSUME BindingInv PROVE UsersAreAccountedFor
    OBVIOUS
  <2>1. users = {b.user : b \in bindings}
    <3>1. ASSUME NEW u \in users PROVE \E b \in bindings : b.user = u
      <4>1. u \in Login /\ Made(u) /\ login[u].user = u
        BY DEF BindingInv, TypeOK, UsersInv
      <4> QED
        BY <4>1 DEF BindingInv, LoginInv, Consistent, Made, Bound
    <3> QED
      BY <3>1 DEF BindingInv, KeysInv
  <2>2. users = {e.user : e \in {x \in audits : x.event = "created"}}
    <3>1. ASSUME NEW u \in users PROVE \E e \in audits : e.event = "created" /\ e.user = u
      <4>1. u \in Login /\ Made(u) /\ login[u].user = u
        BY DEF BindingInv, TypeOK, UsersInv
      <4>2. [event |-> "created", user |-> u, by |-> u] \in audits
        BY <4>1 DEF BindingInv, AuditInv
      <4> QED
        BY <4>2
    <3>2. ASSUME NEW e \in audits, e.event = "created" PROVE e.user \in users
      BY <3>2 DEF BindingInv, TypeOK, Audit, AuditInv, UsersInv
    <3> QED
      BY <3>1, <3>2
  <2>3. {[user |-> e.user, by |-> e.by] : e \in {x \in audits : x.event = "resolved"}}
          = {[user |-> login[r].user, by |-> r] : r \in Committed}
    <3>1. ASSUME NEW e \in audits, e.event = "resolved"
          PROVE  \E r \in Committed : [user |-> e.user, by |-> e.by] = [user |-> login[r].user, by |-> r]
      <4>1. e.by \in Committed /\ e.user = login[e.by].user
        BY DEF BindingInv, TypeOK, Audit, AuditInv, Committed, Made
      <4> QED
        BY <4>1
    <3>2. ASSUME NEW r \in Committed
          PROVE  \E e \in {x \in audits : x.event = "resolved"} :
                   [user |-> login[r].user, by |-> r] = [user |-> e.user, by |-> e.by]
      <4> DEFINE e == [event |-> "resolved", user |-> login[r].user, by |-> r]
      <4>1. e \in audits
        BY DEF BindingInv, AuditInv, Committed, Made
      <4>2. e.event = "resolved" /\ [user |-> login[r].user, by |-> r] = [user |-> e.user, by |-> e.by]
        OBVIOUS
      <4> QED
        BY <4>1, <4>2
    <3> DEFINE A == {[user |-> e.user, by |-> e.by] : e \in {x \in audits : x.event = "resolved"}}
               B == {[user |-> login[r].user, by |-> r] : r \in Committed}
    <3>3. \A x \in A : x \in B
      BY <3>1
    <3>4. \A x \in B : x \in A
      BY <3>2
    <3> HIDE DEF A, B
    <3>5. A = B
      BY <3>3, <3>4
    <3> QED
      BY <3>5 DEF A, B
  <2> QED
    BY <2>1, <2>2, <2>3 DEF UsersAreAccountedFor, BindingInv, KeysInv
<1> QED
  BY <1>1, BindingInvariant, PTL

-----------------------------------------------------------------------------
(* What a bearer token is answered. *)

(* The row that is to be committed carries the subject of its login. *)
RowSubjects == \A r \in Login : login[r].at \in {"audit", "commit"} =>
  login[r].row.subject = login[r].identity.subject

(* Every binding is as the last login that succeeded with its key left it. *)
LeftBy(b, k)  == SameKey(b, k.identity) /\ b.subject = k.identity.subject /\ b.user = k.user
FromLogins    == \A b \in bindings : \E q \in Committed : LeftBy(b, login[q])

Answered == \A b \in Bearer : bearer[b] # None =>
  bearer[b].logins \subseteq Committed

BearerInv == RowSubjects /\ FromLogins /\ Answered /\ BearerFindsLogin

LEMMA BearerInit == Init => BearerInv
BY DEF Init, BearerInv, RowSubjects, FromLogins, Answered, BearerFindsLogin, Idle

(* A login that has succeeded takes no further step. *)
LEMMA CommittedStays ==
  ASSUME BindingInv, [Next]_vars, NEW q \in Committed
  PROVE  q \in Committed' /\ login'[q] = login[q]
<1>1. q \in Login /\ login[q].at \in {"done", "lost"} /\ login \in [Login -> LoginType]
  BY DEF Committed, BindingInv, TypeOK, LoginType
<1>2. ASSUME NEW r \in Login, NEW k, Become(r, k), login[r].at \notin {"done", "lost"}
      PROVE  login'[q] = login[q]
  BY <1>1, <1>2 DEF Become
<1>3. ASSUME NEW r \in Login, UserInfo(r) \/ Step(r) \/ Rollback(r)
      PROVE  \E k : Become(r, k) /\ login[r].at \notin {"done", "lost"}
  BY <1>3 DEF UserInfo, Step, Rollback, Running, Lookup, Insert, Touch, RecordAudit, Commit, Fail
<1>4. login'[q] = login[q]
  <2>1. CASE UNCHANGED vars
    BY <2>1 DEF vars
  <2>2. ASSUME NEW b \in Bearer, Authenticate(b) PROVE login'[q] = login[q]
    BY <2>2 DEF Authenticate
  <2> QED
    BY <1>2, <1>3, <2>1, <2>2 DEF Next
<1> QED
  BY <1>1, <1>4 DEF Committed

LEMMA RowSubjectsNext ==
  ASSUME BindingInv, RowSubjects, [Next]_vars
  PROVE  RowSubjects'
<1>1. login \in [Login -> LoginType]
  BY DEF BindingInv, TypeOK, LoginType
<1>2. CASE UNCHANGED login
  BY <1>2 DEF RowSubjects
<1>3. ASSUME NEW r \in Login, NEW k, Become(r, k),
             k.at \in {"audit", "commit"} => k.row.subject = k.identity.subject
      PROVE  RowSubjects'
  BY <1>1, <1>3 DEF Become, RowSubjects
<1>4. ASSUME NEW r \in Login, NEW at \in Phase \ {"audit", "commit"},
             NEW k \in LoginType, k.at = at, Become(r, k)
      PROVE  RowSubjects'
  BY <1>3, <1>4
<1>5. ASSUME NEW r \in Login, Touch(r) PROVE RowSubjects'
  <2> DEFINE k == login[r]
             i == k.identity
             seen == IF k.row # None THEN {k.row} ELSE {b \in bindings : SameKey(b, i) /\ Owned(k.user, b)}
  <2>1. /\ k \in LoginType
        /\ \/ k.row = None /\ k.user # r /\ Bound(k)
           \/ k.user = r /\ Holding(k) /\ Unbound(k)
    BY <1>1, <1>5 DEF BindingInv, LoginInv, Consistent, Touch
  <2>2. seen # {} /\ \A b \in seen : b \in Binding
    BY <2>1 DEF Bound, Owned, Holding, LoginType, BindingInv, TypeOK
  <2>3. PICK b \in seen : Become(r, [k EXCEPT !.at = "audit", !.row = [b EXCEPT !.subject = i.subject]])
    BY <1>5, <2>2 DEF Touch
  <2>4. [b EXCEPT !.subject = i.subject].subject = i.subject
    BY <2>2 DEF Binding
  <2> DEFINE row == [b EXCEPT !.subject = i.subject]
             new == [k EXCEPT !.at = "audit", !.row = row]
  <2> HIDE DEF row
  <2>5. new.row = row /\ new.identity = i
    BY <2>1 DEF LoginType
  <2> HIDE DEF new
  <2> QED
    BY <1>3, <2>3, <2>4, <2>5 DEF row, new
<1>6. ASSUME NEW r \in Login, RecordAudit(r) PROVE RowSubjects'
  <2>1. PICK k : k = login[r]
    OBVIOUS
  <2>2. k.row.subject = k.identity.subject /\ k \in LoginType
    BY <1>1, <1>6, <2>1 DEF RowSubjects, RecordAudit
  <2>3. PICK events : Become(r, [k EXCEPT !.at = "commit", !.events = events])
    BY <1>6, <2>1 DEF RecordAudit
  <2>4. PICK new : new = [k EXCEPT !.at = "commit", !.events = events]
    OBVIOUS
  <2>5. new.row = k.row /\ new.identity = k.identity
    BY <2>2, <2>4 DEF LoginType
  <2> QED
    BY <1>3, <2>2, <2>3, <2>4, <2>5
<1>7. ASSUME NEW r \in Login, Fail(r) PROVE RowSubjects'
  <2>1. [Idle EXCEPT !.at = "failed"].at = "failed"
    BY DEF Idle
  <2> QED
    BY <1>3, <1>7, <2>1 DEF Fail
<1>8. ASSUME NEW r \in Login, UserInfo(r) \/ Lookup(r) \/ Insert(r) \/ Commit(r), ~Fail(r)
      PROVE  RowSubjects'
  <2>1. PICK k \in LoginType : k = login[r]
    BY <1>1
  <2>2. ASSUME NEW at \in {"skipped", "lookup", "insert", "touch", "done", "lost"},
               NEW w, w.at = at, Become(r, w)
        PROVE  RowSubjects'
    BY <1>3, <2>2
  <2>3. CASE UserInfo(r)
    <3>1. PICK at \in {"skipped", "lookup"} : \E i : Become(r, [k EXCEPT !.at = at, !.identity = i])
      BY <1>8, <2>1, <2>3 DEF UserInfo
    <3>2. \A i : [k EXCEPT !.at = at, !.identity = i].at = at
      BY <2>1 DEF LoginType
    <3> QED
      BY <2>2, <3>1, <3>2
  <2>4. CASE Lookup(r)
    <3>1. PICK at \in {"touch", "insert"} : \E u : Become(r, [k EXCEPT !.at = at, !.user = u])
      BY <2>1, <2>4 DEF Lookup
    <3>2. \A u : [k EXCEPT !.at = at, !.user = u].at = at
      BY <2>1 DEF LoginType
    <3> QED
      BY <2>2, <3>1, <3>2
  <2>5. CASE Insert(r)
    <3>1. PICK row : Become(r, [k EXCEPT !.at = "touch", !.row = row])
      BY <1>8, <2>1, <2>5 DEF Insert
    <3>2. [k EXCEPT !.at = "touch", !.row = row].at = "touch"
      BY <2>1 DEF LoginType
    <3> QED
      BY <2>2, <3>1, <3>2
  <2>6. CASE Commit(r)
    <3>1. PICK at \in {"done", "lost"} : Become(r, [k EXCEPT !.at = at, !.row = None, !.events = {}])
      BY <2>1, <2>6 DEF Commit
    <3>2. [k EXCEPT !.at = at, !.row = None, !.events = {}].at = at
      BY <2>1 DEF LoginType
    <3> QED
      BY <2>2, <3>1, <3>2
  <2> QED
    BY <1>8, <2>3, <2>4, <2>5, <2>6
<1>9. ASSUME NEW b \in Bearer, Authenticate(b) PROVE UNCHANGED login
  BY <1>9 DEF Authenticate
<1> QED
  BY <1>2, <1>5, <1>6, <1>7, <1>8, <1>9 DEF Next, Step, Rollback, vars

LEMMA FromLoginsNext ==
  ASSUME BindingInv, RowSubjects, FromLogins, [Next]_vars
  PROVE  FromLogins'
<1>1. ASSUME NEW b \in bindings PROVE \E q \in Committed' : LeftBy(b, login'[q])
  BY <1>1, CommittedStays DEF FromLogins
<1>2. ASSUME NEW r \in Login, Commit(r), NEW b \in bindings' \ bindings
      PROVE  \E q \in Committed' : LeftBy(b, login'[q])
  <2>1. PICK k \in LoginType : k = login[r]
    BY DEF BindingInv, TypeOK, LoginType
  <2>2. k.at = "commit" /\ Holding(k) /\ k.row.subject = k.identity.subject
    BY <1>2, <2>1 DEF Commit, BindingInv, LoginInv, Consistent, RowSubjects
  <2>3. b = k.row
    BY <1>2, <2>1, <2>2 DEF Commit, Holding
  <2>4. PICK at \in {"done", "lost"} : Become(r, [k EXCEPT !.at = at, !.row = None, !.events = {}])
    BY <1>2, <2>1 DEF Commit
  <2>5. PICK new : new = [k EXCEPT !.at = at, !.row = None, !.events = {}]
    OBVIOUS
  <2>6. new.at = at /\ new.identity = k.identity /\ new.user = k.user
    BY <2>1, <2>5 DEF LoginType
  <2>7. login'[r] = new
    BY <2>4, <2>5 DEF Become, BindingInv, TypeOK
  <2>8. r \in Committed' /\ LeftBy(b, login'[r])
    BY <2>2, <2>3, <2>6, <2>7 DEF Committed, LeftBy, Holding
  <2> QED
    BY <2>8
<1>3. ASSUME ~\E r \in Login : Commit(r) PROVE bindings' = bindings
  BY <1>3 DEF Next, Step, UserInfo, Lookup, Insert, Touch, RecordAudit, Rollback, Authenticate, vars
<1>4. \A b \in bindings' : \E q \in Committed' : LeftBy(b, login'[q])
  BY <1>1, <1>2, <1>3
<1> QED
  BY <1>4 DEF FromLogins, LeftBy, SameKey, Committed

(* The answer is taken from a row that some login left, and a login whose   *)
(* key has no other subject left a row with its own.                       *)
LEMMA AnswerFindsLogin ==
  ASSUME BindingInv, FromLogins, NEW s \in Source, NEW subject \in Text,
         NEW user \in Principals(FoundBySubject(s, subject)),
         NEW mine, mine = {r \in Committed : login[r].identity.source = s /\ login[r].identity.subject = subject}
  PROVE  /\ user # None => \E r \in mine : login[r].user = user
         /\ \A r \in mine :
              (\A q \in Committed : SameKey(login[q].identity, login[r].identity) => q \in mine) => user # None
<1> DEFINE found == FoundBySubject(s, subject)
<1>1. \A x \in found : x \in bindings /\ x.source = s /\ x.subject = subject /\ x.user # None
  BY AccountBindingAssumption DEF FoundBySubject, BindingInv, TypeOK, Binding
<1>2. ASSUME user # None PROVE \E r \in mine : login[r].user = user
  <2>1. PICK x \in found : x.user = user
    BY <1>2 DEF Principals
  <2>2. PICK q \in Committed : LeftBy(x, login[q])
    BY <1>1, <2>1 DEF FromLogins
  <2>3. q \in mine /\ login[q].user = user
    BY <1>1, <2>1, <2>2 DEF LeftBy, SameKey
  <2> QED
    BY <2>3
<1>3. ASSUME NEW r \in mine,
             \A q \in Committed : SameKey(login[q].identity, login[r].identity) => q \in mine
      PROVE  user # None
  <2>1. PICK b \in bindings : SameKey(b, login[r].identity)
    BY <1>3 DEF Committed, BindingInv, LoginInv, Consistent, Bound
  <2>2. PICK q \in Committed : LeftBy(b, login[q])
    BY <2>1 DEF FromLogins
  <2>3. q \in mine
    BY <1>3, <2>1, <2>2 DEF LeftBy, SameKey
  <2>4. b.source = s /\ b.subject = subject
    BY <2>2, <2>3 DEF LeftBy, SameKey
  <2>5. b \in found
    BY <2>1, <2>4 DEF FoundBySubject, Visible, AskedBySubject
  <2> QED
    BY <1>1, <2>5 DEF Principals
<1> QED
  BY <1>2, <1>3

LEMMA AnsweredNext ==
  ASSUME BindingInv, FromLogins, Answered, BearerFindsLogin, [Next]_vars
  PROVE  Answered' /\ BearerFindsLogin'
<1> DEFINE Good(a, P, C) ==
      LET mine == {r \in a.logins : P[r].identity.source = a.source /\ P[r].identity.subject = a.subject}
      IN /\ a.logins \subseteq C
         /\ a.user # None => \E r \in mine : P[r].user = a.user
         /\ \A r \in mine :
              (\A q \in a.logins : SameKey(P[q].identity, P[r].identity) => q \in mine) => a.user # None
<1>1. ASSUME NEW a, Good(a, login, Committed) PROVE Good(a, login', Committed')
  <2>1. \A r \in a.logins : login'[r] = login[r] /\ r \in Committed'
    BY <1>1, CommittedStays
  <2> QED
    BY <1>1, <2>1
<1>2. \A b \in Bearer : bearer[b] # None => Good(bearer[b], login, Committed)
  BY DEF Answered, BearerFindsLogin
<1>3. ASSUME NEW b \in Bearer, Authenticate(b) PROVE bearer'[b] # None => Good(bearer'[b], login, Committed)
  <2>1. PICK s \in Source, subject \in Text :
          \E user \in Principals(FoundBySubject(s, subject)) :
            bearer' = [bearer EXCEPT ![b] = [source |-> s, subject |-> subject, user |-> user, logins |-> Committed]]
    BY <1>3 DEF Authenticate
  <2>2. PICK user \in Principals(FoundBySubject(s, subject)) :
          bearer' = [bearer EXCEPT ![b] = [source |-> s, subject |-> subject, user |-> user, logins |-> Committed]]
    BY <2>1
  <2>3. bearer'[b] = [source |-> s, subject |-> subject, user |-> user, logins |-> Committed]
    BY <2>2 DEF BindingInv, TypeOK
  <2>4. PICK mine : mine = {r \in Committed : login[r].identity.source = s /\ login[r].identity.subject = subject}
    OBVIOUS
  <2>5. /\ user # None => \E r \in mine : login[r].user = user
        /\ \A r \in mine :
             (\A q \in Committed : SameKey(login[q].identity, login[r].identity) => q \in mine) => user # None
    BY <2>4, AnswerFindsLogin
  <2> QED
    BY <2>3, <2>4, <2>5
<1>4. \A b \in Bearer : bearer'[b] = bearer[b] \/ Authenticate(b)
  <2>1. ASSUME NEW c \in Bearer, Authenticate(c) PROVE \A b \in Bearer \ {c} : bearer'[b] = bearer[b]
    BY <2>1 DEF Authenticate, BindingInv, TypeOK
  <2>2. ASSUME ~\E c \in Bearer : Authenticate(c) PROVE bearer' = bearer
    BY <2>2 DEF Next, Step, UserInfo, Lookup, Insert, Touch, RecordAudit, Commit, Rollback, vars
  <2> QED
    BY <2>1, <2>2
<1>5. \A b \in Bearer : bearer'[b] # None => Good(bearer'[b], login, Committed)
  BY <1>2, <1>3, <1>4
<1> HIDE DEF Good
<1>6. \A b \in Bearer : bearer'[b] # None => Good(bearer'[b], login', Committed')
  BY <1>1, <1>5
<1> QED
  BY <1>6 DEF Good, Answered, BearerFindsLogin, SameKey

(* A bearer token is answered with the user of a login with its subject, if *)
(* there is one whose identity has not since been seen with another.       *)
THEOREM BearersFindLogins == Spec => []BearerFindsLogin
<1>1. Init => BindingInv /\ BearerInv
  BY BindingInvInit, BearerInit
<1>2. BindingInv /\ BearerInv /\ [Next]_vars => (BindingInv /\ BearerInv)'
  BY BindingInvStep, RowSubjectsNext, FromLoginsNext, AnsweredNext DEF BearerInv
<1>3. BearerInv => BearerFindsLogin
  BY DEF BearerInv
<1> QED
  BY <1>1, <1>2, <1>3, PTL DEF Spec
=============================================================================
