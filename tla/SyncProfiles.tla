----------------------------- MODULE SyncProfiles -----------------------------
(***************************************************************************)
(* Devices, browser clients and sync profiles of one user: the handlers of *)
(* packages/amagi-sync/src/service.rs that register a client, start a      *)
(* session and administer profiles, run by concurrent Postgres             *)
(* transactions at READ COMMITTED.                                         *)
(*                                                                         *)
(* A handler is a sequence of statements; an action is a statement, or     *)
(* several when nothing another transaction does between them can be seen. *)
(* What a transaction wrote stays in its draft, and the rows are locked,   *)
(* until it commits.  A check that fails rolls the transaction back, as    *)
(* finish_write_txn does.  Every profile is in manual mode: no handler     *)
(* writes another one.                                                     *)
(***************************************************************************)
EXTENDS Naturals, FiniteSets

CONSTANTS
  Device, Client, Profile, Rule, Target,   \* ids (fresh UUIDs: inserted at most once)
  Instance,    \* extension instance ids
  Txn,         \* database connections, each running one transaction at a time
  Operation,   \* the operations clients request, among OpType
  Disabler,    \* the connections that serve requests to disable a profile
  RuleOrder,   \* positions of the rules users write
  RuleAction,  \* actions of the rules users write, among Action
  Matcher,     \* the matchers users write, as <<type, value>>
  None,        \* no row, no id, no value
  Gone         \* a row that was deleted

OpType == {"register", "session", "list", "create", "update", "target.create",
           "target.delete", "rule.create", "rule.update", "rule.delete"}

Id == Device \cup Client \cup Profile \cup Rule \cup Target

Action == {"include", "exclude", "readonly"}

MatcherType   == {"library_kind", "folder_id", "folder_path", "tag"}
MatcherTypes  == {m[1] : m \in Matcher}
MatcherValues == {m[2] : m \in Matcher}

(* validate_rule_matcher: which value fits which type.  "uuid" is any text  *)
(* that parses as one.                                                      *)
MatcherFits(type, value) ==
  CASE type = "library_kind" -> value \in {"normal", "vault"}
    [] type = "folder_id" -> value = "uuid"
    [] type \in {"folder_path", "tag"} -> value # "empty"
    [] OTHER -> FALSE

(* The columns the handlers read.  They read none of a device. *)
DeviceRow  == [kind : {"device"}]
ClientRow  == [device : Device, instance : Instance]
ProfileRow == [enabled : BOOLEAN]
RuleRow    == [profile : Profile, order : Nat, action : Action, type : MatcherType,
               value : {"normal", "vault"} \cup MatcherValues]
TargetRow  == [profile : Profile, selects : Device \cup Client \cup {None}]
Row == DeviceRow \cup ClientRow \cup ProfileRow \cup RuleRow \cup TargetRow

RuleBody == {b \in [order : RuleOrder, action : RuleAction, type : MatcherTypes,
                     value : MatcherValues] : MatcherFits(b.type, b.value)}

(* Mutant of ValidPatch: the columns of a matcher are validated one by one. *)
AnyPatch(p) == TRUE

(* validate_profile_rule_update_request: the two columns of a matcher come  *)
(* together or not at all.                                                  *)
ValidPatch(p) ==
  \/ p.type = None /\ p.value = None
  \/ p.type # None /\ p.value # None /\ MatcherFits(p.type, p.value)

(* None stands for a column the request leaves alone. *)
RulePatch == {p \in [order : RuleOrder \cup {None}, action : RuleAction \cup {None},
                      type : MatcherTypes \cup {None}, value : MatcherValues \cup {None}] :
                ValidPatch(p)}

(* The requests that pass validation.  device is None for a first           *)
(* registration; a target that selects by platform, device type or browser *)
(* family names no row.                                                     *)
Request ==
  [op : {"register"}, device : Device \cup {None}, instance : Instance] \cup
  [op : {"session"}, client : Client, preferred : Profile \cup {None}] \cup
  [op : {"list", "create"}] \cup
  [op : {"update"}, profile : Profile, enabled : BOOLEAN \cup {None}] \cup
  [op : {"target.create"}, profile : Profile, selects : Device \cup Client \cup {None}] \cup
  [op : {"target.delete"}, profile : Profile, target : Target] \cup
  [op : {"rule.create"}, profile : Profile, body : RuleBody] \cup
  [op : {"rule.update"}, profile : Profile, rule : Rule, patch : RulePatch] \cup
  [op : {"rule.delete"}, profile : Profile, rule : Rule]

ASSUME ProfilesAssumption ==
  /\ Operation \subseteq OpType /\ Disabler \subseteq Txn
  /\ Device \cap (Client \cup Profile \cup Rule \cup Target) = {}
  /\ Client \cap (Profile \cup Rule \cup Target) = {}
  /\ Profile \cap (Rule \cup Target) = {} /\ Rule \cap Target = {}
  /\ RuleOrder \subseteq Nat /\ RuleAction \subseteq Action
  /\ \A m \in Matcher : MatcherFits(m[1], m[2])
  /\ None # Gone /\ {None, Gone} \cap (Id \cup Instance \cup Txn \cup Row \cup BOOLEAN) = {}
  /\ None \notin Request

VARIABLES
  rows,    \* the committed row of an id, None before its insert, Gone after its delete
  draft,   \* uncommitted row versions of a transaction (None: none): its row locks
  run      \* a transaction's request, its next statement, and what it has read

vars == <<rows, draft, run>>

Idle == [request |-> None, at |-> "idle", device |-> None, client |-> None,
         profile |-> None]
NoDraft == [i \in Id |-> None]

Init ==
  /\ rows = [i \in Id |-> None]
  /\ draft = [t \in Txn |-> NoDraft]
  /\ run = [t \in Txn |-> Idle]
-----------------------------------------------------------------------------
See(t, i)    == IF draft[t][i] # None THEN draft[t][i] ELSE rows[i]
Exists(t, i) == See(t, i) \notin {None, Gone}
Locked(t, i) == \E u \in Txn \ {t} : draft[u][i] # None
Fresh(i)     == rows[i] = None /\ \A u \in Txn : draft[u][i] = None

(* A new UUID: one that is in no row.  It does not matter which. *)
NewId(S) == CHOOSE i \in S : Fresh(i)

At(t, op, step) == run[t].at = step /\ run[t].request.op = op
Write(t, i, row) == draft' = [draft EXCEPT ![t] = [@ EXCEPT ![i] = row]]
Goto(t, step) == run' = [run EXCEPT ![t] = [@ EXCEPT !.at = step]]

Commit(t) ==
  /\ run[t].at = "done"
  /\ rows' = [i \in Id |-> See(t, i)]
  /\ draft' = [draft EXCEPT ![t] = NoDraft]
  /\ run' = [run EXCEPT ![t] = Idle]

(* Whatever ends a transaction without committing: a check that fails, a    *)
(* database error, the client going away, the server stopping.              *)
Rollback(t) ==
  /\ run[t].at # "idle"
  /\ draft' = [draft EXCEPT ![t] = NoDraft]
  /\ run' = [run EXCEPT ![t] = Idle]
  /\ UNCHANGED rows

FirstStep(op) ==
  CASE op = "register" -> "device"
    [] op = "session" -> "client"
    [] op = "list" -> "default"
    [] op = "create" -> "insert"
    [] OTHER -> "profile"

(* begin_owner_txn with a validated request. *)
Begin(t, request) ==
  /\ run[t].at = "idle"
  /\ request.op \in Operation
  /\ request.op = "update" => (request.enabled = FALSE => t \in Disabler)
  /\ run' = [run EXCEPT ![t] = [Idle EXCEPT !.request = request, !.at = FirstStep(request.op)]]
  /\ UNCHANGED <<rows, draft>>
-----------------------------------------------------------------------------
(* register_client *)

(* Mutant of UpsertDevice: a known device is not written. *)
FindDevice(t) ==
  /\ At(t, "register", "device")
  /\ LET known == run[t].request.device IN
     IF known # None /\ ~Exists(t, known) THEN Rollback(t)
     ELSE \E d \in Device :
       /\ IF known = None THEN d = NewId(Device) /\ Write(t, d, [kind |-> "device"])
          ELSE d = known /\ UNCHANGED draft
       /\ run' = [run EXCEPT ![t] = [@ EXCEPT !.at = "client", !.device = d]]
       /\ UNCHANGED rows

(* upsert_device: a known device is updated, which locks its row. *)
UpsertDevice(t) ==
  /\ At(t, "register", "device")
  /\ LET known == run[t].request.device IN
     IF known # None /\ ~Exists(t, known) THEN Rollback(t)
     ELSE LET d == IF known = None THEN NewId(Device) ELSE known IN
       /\ ~Locked(t, d)
       /\ Write(t, d, [kind |-> "device"])
       /\ run' = [run EXCEPT ![t] = [@ EXCEPT !.at = "client", !.device = d]]
       /\ UNCHANGED rows

(* The client of a device and an extension instance, as t reads it. *)
Registered(t, c, device, instance) ==
  /\ Exists(t, c)
  /\ See(t, c) = [device |-> device, instance |-> instance]

(* upsert_browser_client, its read ... *)
FindClient(t) ==
  /\ At(t, "register", "client")
  /\ \E c \in Client \cup {None} :
       /\ IF c # None THEN Registered(t, c, run[t].device, run[t].request.instance)
          ELSE \A k \in Client : ~Registered(t, k, run[t].device, run[t].request.instance)
       /\ run' = [run EXCEPT ![t] = [@ EXCEPT !.at = "upsert", !.client = c]]
  /\ UNCHANGED <<rows, draft>>

(* The unique index on (device_id, extension_instance_id): an insert waits  *)
(* for another one that is not committed and fails on one that is.          *)
Collides(t) == \E c \in Client : \E u \in Txn \cup {None} :
  LET row == IF u = None THEN rows[c] ELSE draft[u][c] IN
  row # None /\ row = [device |-> run[t].device, instance |-> run[t].request.instance]

(* ... and its write. *)
WriteClient(t) ==
  /\ At(t, "register", "upsert")
  /\ LET row == [device |-> run[t].device, instance |-> run[t].request.instance] IN
     IF run[t].client = None /\ \E c \in Client : rows[c] = row THEN Rollback(t)
     ELSE /\ IF run[t].client = None THEN ~Collides(t) ELSE ~Locked(t, run[t].client)
          /\ Write(t, IF run[t].client = None THEN NewId(Client) ELSE run[t].client, row)
          /\ Goto(t, "default")
          /\ UNCHANGED rows
-----------------------------------------------------------------------------
(* ensure_default_profile *)

EnabledManual(t) == {p \in Profile : Exists(t, p) /\ See(t, p).enabled}

(* Mutant of EnsureDefault: the rules are left to the next session. *)
InsertBareDefault(t) ==
  /\ run[t].at = "default"
  /\ \E p \in Profile :
       /\ IF EnabledManual(t) # {} THEN p \in EnabledManual(t) /\ UNCHANGED draft
          ELSE p = NewId(Profile) /\ Write(t, p, [enabled |-> TRUE])
       /\ run' = [run EXCEPT ![t] = [@ EXCEPT !.at = "done", !.profile = p]]
  /\ UNCHANGED rows

(* Mutant of EnsureDefault: the enabled profiles are read FOR UPDATE. *)
LockEnabled(t) ==
  /\ run[t].at = "default"
  /\ \A p \in EnabledManual(t) : ~Locked(t, p)
  /\ \E p \in Profile :
       /\ IF EnabledManual(t) # {}
          THEN /\ p \in EnabledManual(t)
               /\ draft' = [draft EXCEPT ![t] =
                     [i \in Id |-> IF i \in EnabledManual(t) THEN See(t, i) ELSE @[i]]]
          ELSE p = NewId(Profile) /\ Write(t, p, [enabled |-> TRUE])
       /\ run' = [run EXCEPT ![t] = [@ EXCEPT !.at = "rules", !.profile = p]]
  /\ UNCHANGED rows

(* The first enabled manual profile, or else a new one.  Which of them is   *)
(* first is left open: by created_at, it is the one whose transaction began *)
(* first, not the one that was committed first.                             *)
EnsureDefault(t) ==
  /\ run[t].at = "default"
  /\ \E p \in Profile :
       /\ IF EnabledManual(t) # {} THEN p \in EnabledManual(t) /\ UNCHANGED draft
          ELSE p = NewId(Profile) /\ Write(t, p, [enabled |-> TRUE])
       /\ run' = [run EXCEPT ![t] = [@ EXCEPT !.at = "rules", !.profile = p]]
  /\ UNCHANGED rows

DefaultRule(p, k) ==
  [profile |-> p, order |-> k, action |-> IF k = 1 THEN "include" ELSE "exclude",
   type |-> "library_kind", value |-> IF k = 1 THEN "normal" ELSE "vault"]

RulesOf(t, p) == {r \in Rule : Exists(t, r) /\ See(t, r).profile = p}

AfterRules(op) == IF op = "session" THEN "select" ELSE "done"

(* ensure_default_profile_rules: a profile without a rule gets the two. *)
EnsureRules(t) ==
  /\ run[t].at = "rules"
  /\ IF RulesOf(t, run[t].profile) # {} THEN UNCHANGED draft
     ELSE LET r == NewId(Rule)
              s == NewId(Rule \ {r})
     IN draft' = [draft EXCEPT ![t] =
          [@ EXCEPT ![r] = DefaultRule(run[t].profile, 1),
                    ![s] = DefaultRule(run[t].profile, 2)]]
  /\ Goto(t, AfterRules(run[t].request.op))
  /\ UNCHANGED rows

-----------------------------------------------------------------------------
(* start_session *)

FindSessionClient(t) ==
  /\ At(t, "session", "client")
  /\ IF Exists(t, run[t].request.client) THEN Goto(t, "default") /\ UNCHANGED <<rows, draft>>
     ELSE Rollback(t)

(* find_enabled_profile_for_owner, for a client that names a profile. *)
SelectProfile(t) ==
  /\ At(t, "session", "select")
  /\ LET p == run[t].request.preferred IN
     IF p = None \/ p \in EnabledManual(t) THEN Goto(t, "done") /\ UNCHANGED <<rows, draft>>
     ELSE Rollback(t)
-----------------------------------------------------------------------------
(* Administration of profiles. *)

CreateProfile(t) ==
  /\ At(t, "create", "insert")
  /\ Write(t, NewId(Profile), [enabled |-> TRUE])
  /\ Goto(t, "done")
  /\ UNCHANGED rows

(* find_profile_for_owner and, for a target, the rows it selects. *)
FindProfile(t) ==
  /\ run[t].at = "profile"
  /\ LET request == run[t].request
         p == request.profile
         next == CASE request.op = "update" ->
                        IF request.enabled = FALSE /\ See(t, p).enabled THEN "count"
                        ELSE "write"
                   [] request.op \in {"target.create", "rule.create"} -> "insert"
                   [] OTHER -> "find"
         selected == request.op = "target.create" /\ request.selects # None
     IN IF Exists(t, p) /\ (selected => Exists(t, request.selects))
        THEN Goto(t, next) /\ UNCHANGED <<rows, draft>>
        ELSE Rollback(t)

(* Mutant of CountManual: a profile too few. *)
CountNone(t) ==
  /\ At(t, "update", "count")
  /\ IF EnabledManual(t) # {} THEN Goto(t, "write") /\ UNCHANGED <<rows, draft>>
     ELSE Rollback(t)

(* count_enabled_manual_profiles: the last one is not disabled. *)
CountManual(t) ==
  /\ At(t, "update", "count")
  /\ IF \E p, q \in EnabledManual(t) : p # q
     THEN Goto(t, "write") /\ UNCHANGED <<rows, draft>>
     ELSE Rollback(t)

(* Mutant of WriteProfile: the column is set to what the request says, also *)
(* when that is nothing.                                                   *)
WriteAsRequested(t) ==
  /\ At(t, "update", "write")
  /\ ~Locked(t, run[t].request.profile)
  /\ Write(t, run[t].request.profile, [enabled |-> run[t].request.enabled])
  /\ Goto(t, "done")
  /\ UNCHANGED rows

(* update_profile sets the columns of the request on the newest row.  One  *)
(* that leaves a profile enabled makes sure of the default profile.        *)
WriteProfile(t) ==
  /\ At(t, "update", "write")
  /\ ~Locked(t, run[t].request.profile)
  /\ LET p == run[t].request.profile
         enabled == IF run[t].request.enabled = None THEN See(t, p).enabled
                    ELSE run[t].request.enabled
     IN /\ Write(t, p, [enabled |-> enabled])
        /\ Goto(t, IF enabled THEN "default" ELSE "done")
  /\ UNCHANGED rows
-----------------------------------------------------------------------------
(* Targets and rules of a profile. *)

InsertTarget(t) ==
  /\ At(t, "target.create", "insert")
  /\ Write(t, NewId(Target),
        [profile |-> run[t].request.profile, selects |-> run[t].request.selects])
  /\ Goto(t, "done")
  /\ UNCHANGED rows

InsertRule(t) ==
  /\ At(t, "rule.create", "insert")
  /\ LET body == run[t].request.body IN
     Write(t, NewId(Rule),
        [profile |-> run[t].request.profile, order |-> body.order, action |-> body.action,
         type |-> body.type, value |-> body.value])
  /\ Goto(t, "done")
  /\ UNCHANGED rows

Named(request) == IF request.op = "target.delete" THEN request.target ELSE request.rule

(* find_profile_target, find_profile_rule: the row is one of the profile. *)
FindRow(t) ==
  /\ run[t].at = "find"
  /\ LET i == Named(run[t].request) IN
     IF Exists(t, i) /\ See(t, i).profile = run[t].request.profile
     THEN Goto(t, "write") /\ UNCHANGED <<rows, draft>>
     ELSE Rollback(t)

(* DELETE of a row that was found: that it is gone by now is no error. *)
DeleteRow(t) ==
  /\ At(t, "target.delete", "write") \/ At(t, "rule.delete", "write")
  /\ ~Locked(t, Named(run[t].request))
  /\ Write(t, Named(run[t].request), Gone)
  /\ Goto(t, "done")
  /\ UNCHANGED rows

Set(column, new) == IF new = None THEN column ELSE new
Patched(row, patch) ==
  [row EXCEPT !.order = Set(@, patch.order), !.action = Set(@, patch.action),
              !.type = Set(@, patch.type), !.value = Set(@, patch.value)]

(* Mutant of UpdateRule: saved as read in the find, whether it is there or not. *)
SaveRule(t) ==
  /\ At(t, "rule.update", "write")
  /\ ~Locked(t, run[t].request.rule)
  /\ Write(t, run[t].request.rule,
           Patched(DefaultRule(run[t].request.profile, 1), run[t].request.patch))
  /\ Goto(t, "done")
  /\ UNCHANGED rows

(* UPDATE of a row that was found: that it is gone by now is an error. *)
UpdateRule(t) ==
  /\ At(t, "rule.update", "write")
  /\ LET r == run[t].request.rule IN
     /\ ~Locked(t, r)
     /\ IF ~Exists(t, r) THEN Rollback(t)
        ELSE /\ Write(t, r, Patched(See(t, r), run[t].request.patch))
             /\ Goto(t, "done")
             /\ UNCHANGED rows
-----------------------------------------------------------------------------
(* Bound: an insert fails, as on any database error, when no id is left. *)
Left(S, k) == Cardinality({i \in S : Fresh(i)}) >= k
OutOfIds(t) ==
  CASE run[t].at = "device" -> run[t].request.device = None /\ ~Left(Device, 1)
    [] run[t].at = "upsert" -> run[t].client = None /\ ~Left(Client, 1)
    [] run[t].at = "default" -> EnabledManual(t) = {} /\ ~Left(Profile, 1)
    [] run[t].at = "rules" -> RulesOf(t, run[t].profile) = {} /\ ~Left(Rule, 2)
    [] run[t].at = "insert" ->
         ~Left(CASE run[t].request.op = "create" -> Profile
                 [] run[t].request.op = "target.create" -> Target
                 [] OTHER -> Rule, 1)
    [] OTHER -> FALSE

Statement(t) ==
  IF OutOfIds(t) THEN Rollback(t)
  ELSE \/ UpsertDevice(t) \/ FindClient(t) \/ WriteClient(t)
       \/ EnsureDefault(t) \/ EnsureRules(t) \/ FindSessionClient(t) \/ SelectProfile(t)
       \/ CreateProfile(t) \/ FindProfile(t) \/ CountManual(t) \/ WriteProfile(t)
       \/ InsertTarget(t) \/ InsertRule(t) \/ FindRow(t) \/ DeleteRow(t) \/ UpdateRule(t)
       \/ Commit(t)

Next == \E t \in Txn :
  (\E request \in Request : Begin(t, request)) \/ Statement(t) \/ Rollback(t)

Spec == Init /\ [][Next]_vars

(* A transaction that was begun runs on: a statement that waits for a row  *)
(* gets it in turn.                                                        *)
FairSpec == Spec /\ \A t \in Txn : SF_vars(Statement(t))

-----------------------------------------------------------------------------
(* Properties. *)

Steps == {"idle", "device", "client", "upsert", "default", "rules", "select", "insert",
          "profile", "count", "find", "write", "done"}

TypeOK ==
  /\ rows \in [Id -> Row \cup {None, Gone}]
  /\ draft \in [Txn -> [Id -> Row \cup {None, Gone}]]
  /\ run \in [Txn -> [request : Request \cup {None}, at : Steps, device : Device \cup {None},
                      client : Client \cup {None}, profile : Profile \cup {None}]]

(* Once a user has an enabled manual profile there always is one, whatever *)
(* sessions, registrations and administration run beside the connection   *)
(* that disables: a disable is refused when it counts a single one.        *)
HasManualProfile == \E p \in Profile : rows[p] \notin {None, Gone} /\ rows[p].enabled
ManualProfileRemains == [][HasManualProfile => HasManualProfile']_rows

(* Two registrations of one extension instance on one device never meet in *)
(* the unique index of browser_clients: the update of the device row makes *)
(* the second wait until it can see the client of the first.               *)
RegistrationsDoNotCollide == \A t \in Txn :
  At(t, "register", "upsert") /\ run[t].client = None => ~Collides(t)

(* Whoever sees a profile that registration, a session or a listing made   *)
(* for the user sees its two rules: a client never syncs by a default      *)
(* profile that does not yet leave out the vault.                          *)
DefaultArrivesWithRules ==
  [][\A p \in Profile, t \in Txn :
       rows[p] = None /\ rows'[p] # None /\ draft[t][p] # None /\ run[t].request.op # "create" =>
         \A k \in 1 .. 2 : \E r \in Rule : rows'[r] = DefaultRule(p, k)]_rows

(* A column changes when a committed request names it, and never back by a *)
(* request about another column that read the row earlier.                 *)
ColumnsChangeByRequest ==
  [][/\ \A p \in Profile : rows[p] # None /\ rows'[p] # rows[p] =>
          \E t \in Txn : /\ At(t, "update", "done") /\ run[t].request.profile = p
                         /\ run[t].request.enabled = rows'[p].enabled
     /\ \A r \in Rule : rows[r] \notin {None, Gone} /\ rows'[r] \notin {Gone, rows[r]} =>
          \E t \in Txn : /\ At(t, "rule.update", "done") /\ run[t].request.rule = r
                         /\ rows'[r] = Patched(rows[r], run[t].request.patch)]_rows

(* A rule or target that was deleted stays deleted, also when another      *)
(* request found it before.                                                *)
DeletedStaysDeleted == [][\A i \in Id : rows[i] = Gone => rows'[i] = Gone]_rows

(* The value of a rule's matcher is one of its type, though each update    *)
(* sets only some columns of the row it finds.                             *)
MatchersFit == \A r \in Rule :
  rows[r] \notin {None, Gone} => MatcherFits(rows[r].type, rows[r].value)

(* Every request is answered: transactions that lock devices, clients,     *)
(* profiles and rules never wait for each other in a ring.                 *)
TransactionsEnd == \A t \in Txn : run[t].at # "idle" ~> run[t].at = "idle"
=============================================================================
