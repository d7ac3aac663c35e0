---------------------------- MODULE AccountBinding ----------------------------
(***************************************************************************)
(* How an OIDC login becomes an amagi user: AuthFacadeService and          *)
(* AccountBindingRepository of packages/amagi-auth.  A user-info request   *)
(* with verified claims looks its binding up or inserts a user, an         *)
(* auth_user and a binding, touches the binding and writes audit events,   *)
(* all in one transaction; a business request with a bearer token only     *)
(* looks the user up by the token's subject.  PostgreSQL runs at READ      *)
(* COMMITTED, holds the unique index on (oidc_source, oidc_identity_key)   *)
(* and enforces the row level security policies of the bindings table.     *)
(*                                                                         *)
(* Verification of tokens is SecurityDept's.  A user, and its auth_user,   *)
(* is named for the login that inserted it, as ids are fresh UUIDs.        *)
(***************************************************************************)
EXTENDS FiniteSets

CONSTANTS
  None,
  Source,        \* the configured oidc_sources
  KeyedByOther,  \* those whose oidc_identity_claim is not sub
  Text,          \* what a claim can say
  Login,         \* user-info requests
  Bearer         \* business requests

Claims   == [sub : Text \cup {None}, other : Text \cup {None}]
Identity == [source : Source, subject : Text, key : Text]
Binding  == [source : Source, subject : Text, key : Text, user : Login]
Audit    == [event : {"created", "reused", "resolved"}, user : Login, by : Login]
Phase    == {"start", "lookup", "insert", "touch", "audit", "commit", "done", "lost", "failed", "skipped"}

ASSUME AccountBindingAssumption ==
  KeyedByOther \subseteq Source /\ None \notin Text \cup Login \cup Binding

VARIABLES
  users,      \* users and, one for each, auth_users
  bindings,   \* oidc_account_bindings
  audits,     \* audit_events
  login,      \* a login request with its transaction
  bearer      \* what a business request was answered

vars == <<users, bindings, audits, login, bearer>>

(* A transaction: the identity it resolves, the user set for row level     *)
(* security, the binding row it has written and holds, its audit events.   *)
Idle == [at |-> "start", identity |-> None, user |-> None, row |-> None, events |-> {}]

Init ==
  /\ users = {} /\ bindings = {} /\ audits = {}
  /\ login = [r \in Login |-> Idle]
  /\ bearer = [b \in Bearer |-> None]

-----------------------------------------------------------------------------
(* ExternalOidcIdentity::new: None when a claim it needs is missing.       *)
IdentityOf(s, claims) ==
  LET key == IF s \in KeyedByOther THEN claims.other ELSE claims.sub IN
  IF claims.sub = None \/ key = None THEN None
  ELSE [source |-> s, subject |-> claims.sub, key |-> key]

(* The policies of oidc_account_bindings: the owner's rows, and for SELECT  *)
(* those with the source and the key or the subject that were set.         *)
Owned(user, b)          == b.user = user
Visible(user, asked, b) ==
  \/ Owned(user, b)
  \/ b.source = asked.source /\ (b.key = asked.key \/ b.subject = asked.subject)

SameKey(b, i) == b.source = i.source /\ b.key = i.key

Running(r) == login[r].at \in {"lookup", "insert", "touch", "audit", "commit"}

(* Mutant of Contended: a transaction waits for its own row as well.       *)
ContendedBySelf(r) == \E q \in Login :
  login[q].row # None /\ SameKey(login[q].row, login[r].identity)

(* Another transaction holds an uncommitted row with the key r is after.   *)
Contended(r) == \E q \in Login \ {r} :
  login[q].row # None /\ SameKey(login[q].row, login[r].identity)

Become(r, k) == login' = [login EXCEPT ![r] = k]

(* The request ends with an error; of its transaction nothing remains.     *)
Fail(r) == Become(r, [Idle EXCEPT !.at = "failed"])

-----------------------------------------------------------------------------
(* Mutants of the actions below. *)

(* The unique index is gone. *)
InsertAnyway(r) ==
  /\ login[r].at = "insert"
  /\ LET i == login[r].identity IN
     Become(r, [login[r] EXCEPT !.at = "touch",
       !.row = [source |-> i.source, subject |-> i.subject, key |-> i.key, user |-> r]])
  /\ UNCHANGED <<users, bindings, audits, bearer>>

(* Audit events are written on a connection of their own. *)
RecordOutside(r) ==
  /\ login[r].at = "audit"
  /\ LET k == login[r]
         Event(e) == [event |-> e, user |-> k.user, by |-> r]
     IN /\ audits' = audits \cup {Event(IF k.user = r THEN "created" ELSE "reused"), Event("resolved")}
        /\ Become(r, [k EXCEPT !.at = "commit"])
  /\ UNCHANGED <<users, bindings, bearer>>

(* A bearer is looked up by identity key. *)
AuthenticateByKey(b) ==
  /\ bearer[b] = None
  /\ \E s \in Source, subject \in Text :
       LET found == {x \in bindings : x.source = s /\ x.key = subject}
       IN \E user \in IF found = {} THEN {None} ELSE {x.user : x \in found} :
            bearer' = [bearer EXCEPT ![b] = [source |-> s, subject |-> subject, user |-> user,
              logins |-> {r \in Login : login[r].at \in {"done", "lost"}}]]
  /\ UNCHANGED <<users, bindings, audits, login>>

(* The user that is set is taken from the wrong column. *)
LookupKey(r) ==
  /\ login[r].at = "lookup"
  /\ LET k     == login[r]
         found == {b \in bindings : SameKey(b, k.identity)}
     IN \/ \E b \in found : Become(r, [k EXCEPT !.at = "touch", !.user = b.key])
        \/ found = {} /\ Become(r, [k EXCEPT !.at = "insert", !.user = r])
  /\ UNCHANGED <<users, bindings, audits, bearer>>

-----------------------------------------------------------------------------
(* One login. *)

(* oidc_user_info: the token may be missing or refused; claims that name no *)
(* identity leave the login without a principal.                           *)
UserInfo(r) ==
  /\ login[r].at = "start"
  /\ \/ Fail(r)
     \/ \E s \in Source, claims \in Claims :
          LET i == IdentityOf(s, claims) IN
          Become(r, [login[r] EXCEPT !.at = IF i = None THEN "skipped" ELSE "lookup", !.identity = i])
  /\ UNCHANGED <<users, bindings, audits, bearer>>

Lookup(r) ==
  /\ login[r].at = "lookup"
  /\ LET k     == login[r]
         found == {b \in bindings : SameKey(b, k.identity) /\ Visible(k.user, k.identity, b)}
     IN \/ \E b \in found : Become(r, [k EXCEPT !.at = "touch", !.user = b.user])
        \/ found = {} /\ Become(r, [k EXCEPT !.at = "insert", !.user = r])
  /\ UNCHANGED <<users, bindings, audits, bearer>>

(* insert_new_binding waits for a transaction that has the key uncommitted, *)
(* and fails on the unique index when the key is there.                    *)
Insert(r) ==
  /\ login[r].at = "insert" /\ ~Contended(r)
  /\ LET k == login[r]
         i == k.identity
     IN IF \E b \in bindings : SameKey(b, i)
        THEN Fail(r)
        ELSE Become(r, [k EXCEPT !.at = "touch",
               !.row = [source |-> i.source, subject |-> i.subject, key |-> i.key, user |-> r]])
  /\ UNCHANGED <<users, bindings, audits, bearer>>

(* touch_binding updates the rows with the key that the current user owns,  *)
(* its own uncommitted one or the committed one, once it has the row lock. *)
Touch(r) ==
  /\ login[r].at = "touch" /\ ~Contended(r)
  /\ LET k    == login[r]
         seen == IF k.row # None THEN {k.row}
                 ELSE {b \in bindings : SameKey(b, k.identity) /\ Owned(k.user, b)}
     IN \/ \E b \in seen : Become(r, [k EXCEPT !.at = "audit", !.row = [b EXCEPT !.subject = k.identity.subject]])
        \/ seen = {} /\ Become(r, [k EXCEPT !.at = "audit"])
  /\ UNCHANGED <<users, bindings, audits, bearer>>

RecordAudit(r) ==
  /\ login[r].at = "audit"
  /\ LET k == login[r]
         Event(e) == [event |-> e, user |-> k.user, by |-> r]
     IN Become(r, [k EXCEPT !.at = "commit",
                   !.events = {Event(IF k.user = r THEN "created" ELSE "reused"), Event("resolved")}])
  /\ UNCHANGED <<users, bindings, audits, bearer>>

(* The commit may succeed and its answer be lost. *)
Commit(r) ==
  /\ login[r].at = "commit"
  /\ LET k == login[r] IN
     /\ users' = IF k.user = r THEN users \cup {r} ELSE users
     /\ bindings' = IF k.row = None THEN bindings
                    ELSE {b \in bindings : ~SameKey(b, k.identity)} \cup {k.row}
     /\ audits' = audits \cup k.events
     /\ \E at \in {"done", "lost"} : Become(r, [k EXCEPT !.at = at, !.row = None, !.events = {}])
  /\ UNCHANGED bearer

(* A statement fails or the connection breaks. *)
Rollback(r) ==
  /\ Running(r)
  /\ Fail(r)
  /\ UNCHANGED <<users, bindings, audits, bearer>>

-----------------------------------------------------------------------------
(* resolve_sync_user_id, resolve_dashboard_user_id: a verified token of a   *)
(* source with a subject is answered with a user, or 401.  logins are the  *)
(* requests whose transactions had committed by then.                      *)
Committed == {r \in Login : login[r].at \in {"done", "lost"}}

(* AuthLookupIdentity::for_oidc_subject, as it is set for the lookup.       *)
AskedBySubject(s, subject) == [source |-> s, subject |-> subject, key |-> None]

(* lookup_by_oidc_subject: some row with the subject, in no order.         *)
FoundBySubject(s, subject) ==
  {x \in bindings : x.source = s /\ x.subject = subject /\ Visible(None, AskedBySubject(s, subject), x)}

(* resolve_bearer_principal_from_facts: the users it may answer with.      *)
Principals(found) == IF found = {} THEN {None} ELSE {x.user : x \in found}

Authenticate(b) ==
  /\ bearer[b] = None
  /\ \E s \in Source, subject \in Text : \E user \in Principals(FoundBySubject(s, subject)) :
       bearer' = [bearer EXCEPT ![b] =
         [source |-> s, subject |-> subject, user |-> user, logins |-> Committed]]
  /\ UNCHANGED <<users, bindings, audits, login>>

-----------------------------------------------------------------------------
Step(r) == Lookup(r) \/ Insert(r) \/ Touch(r) \/ RecordAudit(r) \/ Commit(r)

Next ==
  \/ \E r \in Login : UserInfo(r) \/ Step(r) \/ Rollback(r)
  \/ \E b \in Bearer : Authenticate(b)

Spec     == Init /\ [][Next]_vars
FairSpec == Spec /\ \A r \in Login : WF_vars(Step(r))

-----------------------------------------------------------------------------
(* Properties. *)

TypeOK ==
  /\ users \subseteq Login /\ bindings \subseteq Binding /\ audits \subseteq Audit
  /\ login \in [Login -> [at : Phase, identity : Identity \cup {None}, user : Login \cup {None},
                          row : Binding \cup {None}, events : SUBSET Audit]]
  /\ bearer \in [Bearer -> {None} \cup
       [source : Source, subject : Text, user : Login \cup {None}, logins : SUBSET Login]]

(* However logins race, fail or are repeated after a lost answer, all that  *)
(* succeed with one source and identity key are given one user.            *)
OneUserPerIdentity == \A r, q \in Committed :
  SameKey(login[r].identity, login[q].identity) => login[r].user = login[q].user

(* Nothing is left half-made: a user has exactly one binding and exactly    *)
(* one "created" event, written by the login that made it, and each login  *)
(* that succeeded has its "resolved" event and no other login has one.     *)
UsersAreAccountedFor ==
  /\ users = {b.user : b \in bindings}
  /\ \A b, c \in bindings : b.user = c.user => b = c
  /\ users = {e.user : e \in {x \in audits : x.event = "created"}}
  /\ {[user |-> e.user, by |-> e.by] : e \in {x \in audits : x.event = "resolved"}}
       = {[user |-> login[r].user, by |-> r] : r \in Committed}

(* A bearer token is answered with a user that a login with its subject     *)
(* was given; and it finds one, unless the identity that logged in with the *)
(* subject has since been seen with another.                               *)
BearerFindsLogin == \A b \in Bearer : bearer[b] # None =>
  LET a    == bearer[b]
      mine == {r \in a.logins : login[r].identity.source = a.source /\ login[r].identity.subject = a.subject}
  IN /\ a.user # None => \E r \in mine : login[r].user = a.user
     /\ \A r \in mine :
          (\A q \in a.logins : SameKey(login[q].identity, login[r].identity) => q \in mine) => a.user # None

(* A login that has begun its transaction ends, though it may wait for the  *)
(* key that another login has inserted or touched.                         *)
LoginsEnd == \A r \in Login : Running(r) ~> ~Running(r)
=============================================================================
