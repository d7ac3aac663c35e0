-------------------------- MODULE SyncProfiles_proofs --------------------------
(***************************************************************************)
(* Devices, clients, profiles, targets and rules keep their promises for   *)
(* any number of connections, requests and rows.                           *)
(*                                                                         *)
(* The inductive invariant is a predicate of the committed rows R and, for *)
(* one transaction, of its draft D and its run k.  A step of one           *)
(* transaction other than its commit leaves R and all other D and k alone, *)
(* and a commit changes no row that another transaction has drafted.       *)
(***************************************************************************)
EXTENDS SyncProfiles, FiniteSetTheorems, TLAPS

RunType == [request : Request \cup {None}, at : Steps, device : Device \cup {None},
            client : Client \cup {None}, profile : Profile \cup {None}]
RowType == Row \cup {None, Gone}

SeeIn(R, D, i) == IF D[i] # None THEN D[i] ELSE R[i]

(* A row is one of its table, only rules and targets are deleted, and the  *)
(* matcher of a rule is valid.                                             *)
Fits(i, v) ==
  /\ i \in Device  => v \in DeviceRow
  /\ i \in Client  => v \in ClientRow
  /\ i \in Profile => v \in ProfileRow
  /\ i \in Rule    => v = Gone \/ (v \in RuleRow /\ MatcherFits(v.type, v.value))
  /\ i \in Target  => v = Gone \/ v \in TargetRow
Typed(F) == \A i \in Id : F[i] # None => Fits(i, F[i])

(* A rule is one of a profile that its writer sees. *)
Referenced(F, R, D) ==
  \A r \in Rule : F[r] \notin {None, Gone} => SeeIn(R, D, F[r].profile) # None

(* What a draft may hold, given the request that wrote it. *)
WroteClients(D, k) == \A c \in Client :
  D[c] # None => k.device \in Device /\ D[c].device = k.device /\ D[k.device] # None
WroteProfiles(R, D, k) == \A p \in Profile : D[p] # None =>
  \/ R[p] = None /\ D[p].enabled = TRUE /\ (k.request.op = "create" \/ k.profile = p)
  \/ /\ R[p] # None /\ k.request.op = "update" /\ k.request.profile = p
     /\ k.at \in {"default", "rules", "done"}
     /\ D[p] = R[p] \/ D[p].enabled = k.request.enabled
WroteRules(R, D, k) == \A r \in Rule : D[r] # None =>
  \/ D[r] = Gone
  \/ R[r] = None
  \/ /\ R[r] # Gone /\ k.at = "done" /\ k.request.op = "rule.update" /\ k.request.rule = r
     /\ D[r] = Patched(R[r], k.request.patch)
WroteTargets(R, D) == \A g \in Target : D[g] # None => D[g] = Gone \/ R[g] = None

(* What a transaction relies on, by the statement it stands at.            *)
Unwritten(D, k) ==
  /\ k.at \in {"idle", "device", "profile", "count", "find", "insert", "write"} => D = NoDraft
  /\ k.at = "client" /\ k.request.op = "session" => D = NoDraft
  /\ k.at \in {"default", "rules"} => \A r \in Rule : D[r] = None
Requested(R, k) ==
  /\ k.at # "idle" => k.request \in Request
  /\ k.at = "client" => k.request.op \in {"register", "session"}
  /\ k.at = "default" => k.request.op \in {"register", "session", "list", "update"}
  /\ k.at \in {"rules", "select"} => k.request.op # "create"
  /\ k.at = "profile" => k.request.op \in {"update", "target.create", "target.delete",
                                            "rule.create", "rule.update", "rule.delete"}
  /\ k.at = "count" => k.request.op = "update"
  /\ k.at = "find" => k.request.op \in {"target.delete", "rule.update", "rule.delete"}
  /\ k.at = "insert" => k.request.op \in {"create", "target.create", "rule.create"}
  /\ k.at = "write" => k.request.op \in {"update", "target.delete", "rule.update", "rule.delete"}
  /\ k.at \in {"count", "write", "insert"} /\ k.request.op \in {"update", "target.create", "rule.create"} =>
       R[k.request.profile] # None

(* A registration holds its device from its first statement on, so that    *)
(* what it has not found is still not there when it inserts.               *)
Registering(R, D, k) ==
  /\ k.at = "upsert" => k.request.op = "register"
  /\ k.request.op = "register" /\ k.at \in {"client", "upsert"} =>
       /\ k.device \in Device /\ D[k.device] # None
       /\ \A i \in Id \ Device : D[i] = None
  /\ k.at = "upsert" /\ k.client = None =>
       \A c \in Client : R[c] # [device |-> k.device, instance |-> k.request.instance]

(* A default profile that is still uncommitted comes with its two rules.   *)
Defaulting(R, D, k) ==
  /\ k.at \notin {"rules", "select", "done"} => k.profile = None
  /\ k.at = "rules" => k.profile # None
  /\ k.profile # None => k.profile \in Profile /\ SeeIn(R, D, k.profile) # None
  /\ k.profile # None /\ k.at \in {"select", "done"} /\ R[k.profile] = None =>
       \A n \in 1 .. 2 : \E r \in Rule : D[r] = DefaultRule(k.profile, n)

OwnInv(R, D, k) ==
  /\ Typed(D) /\ Referenced(D, R, D)
  /\ WroteClients(D, k) /\ WroteProfiles(R, D, k) /\ WroteRules(R, D, k) /\ WroteTargets(R, D)
  /\ Unwritten(D, k) /\ Requested(R, k) /\ Registering(R, D, k) /\ Defaulting(R, D, k)

(* A row is drafted by one transaction at a time. *)
Exclusive == \A t, u \in Txn, i \in Id : draft[t][i] # None /\ draft[u][i] # None => t = u

ProfilesInv ==
  /\ TypeOK /\ Exclusive
  /\ Typed(rows) /\ Referenced(rows, rows, NoDraft)
  /\ \A t \in Txn : OwnInv(rows, draft[t], run[t])

-----------------------------------------------------------------------------
(* Rows, requests and ids. *)

LEMMA Tables ==
  /\ Id = Device \cup Client \cup Profile \cup Rule \cup Target
  /\ None # Gone /\ None \notin Id /\ Gone \notin Id /\ None \notin Txn
  /\ None \notin Row /\ Gone \notin Row /\ None \notin BOOLEAN
  /\ \A i \in Device : i \notin Client /\ i \notin Profile /\ i \notin Rule /\ i \notin Target
  /\ \A i \in Client : i \notin Profile /\ i \notin Rule /\ i \notin Target
  /\ \A i \in Profile : i \notin Rule /\ i \notin Target
  /\ \A i \in Rule : i \notin Target
<1>1. Id = Device \cup Client \cup Profile \cup Rule \cup Target
  BY DEF Id
<1>2. None # Gone /\ {None, Gone} \cap (Id \cup Instance \cup Txn \cup Row \cup BOOLEAN) = {}
  BY ProfilesAssumption
<1>3. None \notin Id /\ Gone \notin Id /\ None \notin Txn
      /\ None \notin Row /\ Gone \notin Row /\ None \notin BOOLEAN
  BY <1>2
<1>4. /\ Device \cap (Client \cup Profile \cup Rule \cup Target) = {}
      /\ Client \cap (Profile \cup Rule \cup Target) = {}
      /\ Profile \cap (Rule \cup Target) = {} /\ Rule \cap Target = {}
  BY ProfilesAssumption
<1> QED
  BY <1>1, <1>2, <1>3, <1>4

LEMMA RequestFields ==
  ASSUME NEW q \in Request
  PROVE  /\ q # None /\ q.op \in OpType
         /\ q.op = "register" => q.device \in Device \cup {None} /\ q.instance \in Instance
         /\ q.op = "session" => q.client \in Client
         /\ q.op = "update" => q.profile \in Profile /\ q.enabled \in BOOLEAN \cup {None}
         /\ q.op = "target.create" => q.profile \in Profile /\ q.selects \in Device \cup Client \cup {None}
         /\ q.op = "target.delete" => q.target \in Target
         /\ q.op = "rule.create" => q.profile \in Profile /\ q.body \in RuleBody
         /\ q.op = "rule.update" => q.rule \in Rule /\ q.patch \in RulePatch
         /\ q.op = "rule.delete" => q.rule \in Rule
BY ProfilesAssumption DEF Request, OpType

(* A new id is of the set, in no row, and locked by nobody. *)
LEMMA NewIdIsFresh ==
  ASSUME NEW S, \E i \in S : Fresh(i)
  PROVE  NewId(S) \in S /\ Fresh(NewId(S))
BY DEF NewId

LEMMA OneLeft ==
  ASSUME NEW S, Left(S, 1)
  PROVE  NewId(S) \in S /\ Fresh(NewId(S))
<1>1. Cardinality({}) = 0
  BY FS_EmptySet
<1>2. {i \in S : Fresh(i)} # {}
  BY <1>1 DEF Left
<1> QED
  BY <1>2, NewIdIsFresh

LEMMA TwoLeft ==
  ASSUME NEW S, Left(S, 2)
  PROVE  /\ NewId(S) \in S /\ Fresh(NewId(S))
         /\ NewId(S \ {NewId(S)}) \in S \ {NewId(S)} /\ Fresh(NewId(S \ {NewId(S)}))
<1> DEFINE F == {i \in S : Fresh(i)}
<1>1. Cardinality({}) = 0 /\ \A x : Cardinality({x}) = 1
  BY FS_EmptySet, FS_Singleton
<1>2. Cardinality(F) >= 2
  BY DEF Left
<1> HIDE DEF F
<1>3. F # {}
  <2> SUFFICES ASSUME F = {} PROVE FALSE
    OBVIOUS
  <2>1. Cardinality(F) = 0
    BY <1>1
  <2> QED
    BY <1>2, <2>1
<1>0. \A x : F # {x}
  <2> SUFFICES ASSUME NEW x, F = {x} PROVE FALSE
    OBVIOUS
  <2>1. Cardinality(F) = 1
    BY <1>1
  <2> QED
    BY <1>2, <2>1
<1> USE DEF F
<1>4. NewId(S) \in S /\ Fresh(NewId(S))
  BY <1>3, NewIdIsFresh
<1>5. \E i \in S \ {NewId(S)} : Fresh(i)
  <2>1. F # {NewId(S)}
    BY <1>0
  <2> QED
    BY <1>4, <2>1
<1> QED
  BY <1>4, <1>5, NewIdIsFresh

-----------------------------------------------------------------------------
(* Steps. *)

(* An idle transaction relies on nothing. *)
LEMMA IdleOwn == ASSUME NEW R PROVE OwnInv(R, NoDraft, Idle)
<1>1. \A i \in Id : NoDraft[i] = None
  BY DEF NoDraft
<1>2. Device \subseteq Id /\ Client \subseteq Id /\ Profile \subseteq Id /\ Rule \subseteq Id /\ Target \subseteq Id
  BY DEF Id
<1>3. Typed(NoDraft) /\ Referenced(NoDraft, R, NoDraft)
  BY <1>1, <1>2 DEF Typed, Referenced
<1>4. WroteClients(NoDraft, Idle) /\ WroteProfiles(R, NoDraft, Idle)
      /\ WroteRules(R, NoDraft, Idle) /\ WroteTargets(R, NoDraft)
  BY <1>1, <1>2 DEF WroteClients, WroteProfiles, WroteRules, WroteTargets
<1>5. Unwritten(NoDraft, Idle) /\ Requested(R, Idle) /\ Registering(R, NoDraft, Idle)
      /\ Defaulting(R, NoDraft, Idle)
  BY <1>1, <1>2 DEF Unwritten, Requested, Registering, Defaulting, Idle
<1> QED
  BY <1>3, <1>4, <1>5 DEF OwnInv

(* A step of one transaction that does not commit. *)
LEMMA OwnStep ==
  ASSUME ProfilesInv, NEW t \in Txn, NEW d, NEW k,
         rows' = rows, draft' = [draft EXCEPT ![t] = d], run' = [run EXCEPT ![t] = k],
         d \in [Id -> RowType], k \in RunType, OwnInv(rows, d, k),
         \A i \in Id : d[i] = None \/ d[i] = draft[t][i] \/ ~Locked(t, i)
  PROVE  ProfilesInv'
<1>1. TypeOK'
  BY DEF ProfilesInv, TypeOK, RunType, RowType
<1>2. draft'[t] = d /\ run'[t] = k /\ \A u \in Txn \ {t} : draft'[u] = draft[u] /\ run'[u] = run[u]
  BY DEF ProfilesInv, TypeOK
<1>3. Exclusive'
  <2> SUFFICES ASSUME NEW u \in Txn, NEW v \in Txn, NEW i \in Id,
                      draft'[u][i] # None, draft'[v][i] # None, u # v
               PROVE  FALSE
    BY DEF Exclusive
  <2>1. CASE u # t /\ v # t
    BY <1>2, <2>1 DEF ProfilesInv, Exclusive
  <2>2. CASE u = t
    BY <1>2, <2>2 DEF ProfilesInv, Exclusive, Locked
  <2>3. CASE v = t
    BY <1>2, <2>3 DEF ProfilesInv, Exclusive, Locked
  <2> QED
    BY <2>1, <2>2, <2>3
<1>4. Typed(rows)' /\ Referenced(rows, rows, NoDraft)'
  BY DEF ProfilesInv, Typed, Referenced, SeeIn, NoDraft
<1>5. \A u \in Txn : OwnInv(rows, draft[u], run[u])'
  <2>1. \A u \in Txn : OwnInv(rows', draft'[u], run'[u])
    BY <1>2 DEF ProfilesInv
  <2> QED
    BY <2>1
<1> QED
  BY <1>1, <1>3, <1>4, <1>5 DEF ProfilesInv

LEMMA RollbackKeeps ==
  ASSUME ProfilesInv, NEW t \in Txn, Rollback(t)
  PROVE  ProfilesInv'
<1>1. NoDraft \in [Id -> RowType] /\ \A i \in Id : NoDraft[i] = None
  BY DEF NoDraft, RowType
<1>2. Idle \in RunType
  BY DEF Idle, RunType, Steps
<1> QED
  BY <1>1, <1>2, IdleOwn, OwnStep DEF Rollback

(* A step of a transaction that has written nothing, and writes nothing.   *)
LEMMA ReadStep ==
  ASSUME ProfilesInv, NEW t \in Txn, NEW k,
         UNCHANGED <<rows, draft>>, draft[t] = NoDraft,
         run' = [run EXCEPT ![t] = k], k \in RunType,
         Requested(rows, k), Registering(rows, NoDraft, k), Defaulting(rows, NoDraft, k)
  PROVE  ProfilesInv'
<1>1. NoDraft \in [Id -> RowType] /\ \A i \in Id : NoDraft[i] = None
  BY DEF NoDraft, RowType
<1>2. Device \subseteq Id /\ Client \subseteq Id /\ Profile \subseteq Id /\ Rule \subseteq Id /\ Target \subseteq Id
  BY DEF Id
<1>3. Typed(NoDraft) /\ Referenced(NoDraft, rows, NoDraft)
  BY <1>1, <1>2 DEF Typed, Referenced
<1>4. WroteClients(NoDraft, k) /\ WroteProfiles(rows, NoDraft, k)
      /\ WroteRules(rows, NoDraft, k) /\ WroteTargets(rows, NoDraft)
  BY <1>1, <1>2 DEF WroteClients, WroteProfiles, WroteRules, WroteTargets
<1>5. Unwritten(NoDraft, k)
  BY <1>1, <1>2 DEF Unwritten
<1>6. OwnInv(rows, NoDraft, k)
  BY <1>3, <1>4, <1>5 DEF OwnInv
<1>7. draft' = [draft EXCEPT ![t] = NoDraft]
  BY DEF ProfilesInv, TypeOK
<1> QED
  BY <1>1, <1>6, <1>7, OwnStep

(* The first write of a transaction. *)
LEMMA FirstWrite ==
  ASSUME ProfilesInv, NEW t \in Txn, NEW i \in Id \ Client, NEW v \in Row \cup {Gone}, NEW k,
         UNCHANGED rows, draft[t] = NoDraft, Write(t, i, v), ~Locked(t, i), Fits(i, v),
         run' = [run EXCEPT ![t] = k], k \in RunType,
         i \in Profile =>
           \/ rows[i] = None /\ v.enabled = TRUE /\ (k.request.op = "create" \/ k.profile = i)
           \/ /\ rows[i] # None /\ k.request.op = "update" /\ k.request.profile = i
              /\ k.at \in {"default", "rules", "done"}
              /\ v = rows[i] \/ v.enabled = k.request.enabled,
         i \in Rule => /\ k.at = "done"
                       /\ v # Gone => rows[v.profile] # None
                       /\ \/ v = Gone
                          \/ rows[i] = None
                          \/ /\ rows[i] # Gone /\ k.request.op = "rule.update" /\ k.request.rule = i
                             /\ v = Patched(rows[i], k.request.patch),
         i \in Target => v = Gone \/ rows[i] = None,
         k.at \in {"client", "default", "done"}, k.at = "client" => k.request.op = "register",
         Requested(rows, k), k.profile = None,
         k.request.op = "register" => k.at = "client" /\ i \in Device /\ k.device = i
  PROVE  ProfilesInv'
<1> DEFINE d == [NoDraft EXCEPT ![i] = v]
<1>0. v # None
  BY Tables
<1>1. d \in [Id -> RowType] /\ d[i] = v /\ \A j \in Id \ {i} : d[j] = None
  BY DEF NoDraft, RowType
<1>2. Device \subseteq Id /\ Client \subseteq Id /\ Profile \subseteq Id /\ Rule \subseteq Id /\ Target \subseteq Id
  BY DEF Id
<1>3. draft' = [draft EXCEPT ![t] = d]
  BY DEF Write, ProfilesInv, TypeOK
<1> HIDE DEF d
<1>4. Typed(d)
  BY <1>1 DEF Typed
<1>5. Referenced(d, rows, d)
  <2> SUFFICES ASSUME NEW r \in Rule, d[r] \notin {None, Gone}
               PROVE  SeeIn(rows, d, d[r].profile) # None
    BY DEF Referenced
  <2>1. r = i
    BY <1>1, <1>2
  <2> QED
    BY <1>1, <2>1 DEF SeeIn
<1>6. WroteClients(d, k) /\ WroteProfiles(rows, d, k)
  BY <1>1, <1>2 DEF WroteClients, WroteProfiles
<1>7. WroteRules(rows, d, k) /\ WroteTargets(rows, d)
  BY <1>1, <1>2 DEF WroteRules, WroteTargets
<1>8. Unwritten(d, k)
  BY <1>1, <1>2 DEF Unwritten
<1>9. Registering(rows, d, k)
  BY <1>0, <1>1, <1>2 DEF Registering
<1>10. Defaulting(rows, d, k)
  BY DEF Defaulting
<1>11. OwnInv(rows, d, k)
  BY <1>4, <1>5, <1>6, <1>7, <1>8, <1>9, <1>10 DEF OwnInv
<1>12. rows' = rows /\ \A j \in Id : d[j] = None \/ d[j] = draft[t][j] \/ ~Locked(t, j)
  BY <1>1
<1> QED
  BY <1>1, <1>3, <1>11, <1>12, OwnStep

LEMMA GotoRun ==
  ASSUME ProfilesInv, NEW t \in Txn, NEW step \in Steps, NEW k, k = [run[t] EXCEPT !.at = step]
  PROVE  /\ k \in RunType /\ k.at = step
         /\ k.request = run[t].request /\ k.device = run[t].device
         /\ k.client = run[t].client /\ k.profile = run[t].profile
BY DEF ProfilesInv, TypeOK, RunType

(* What is known of a transaction that has not written yet. *)
LEMMA AtRest ==
  ASSUME ProfilesInv, NEW t \in Txn
  PROVE  /\ run[t] \in RunType /\ draft[t] \in [Id -> RowType]
         /\ run[t].at \in {"idle", "device", "profile", "count", "find", "insert", "write"} =>
              draft[t] = NoDraft /\ \A i \in Id : See(t, i) = rows[i]
         /\ At(t, "session", "client") => draft[t] = NoDraft /\ \A i \in Id : See(t, i) = rows[i]
         /\ run[t].at \notin {"rules", "select", "done"} => run[t].profile = None
         /\ run[t].at # "idle" => run[t].request \in Request
         /\ OwnInv(rows, draft[t], run[t])
<1>1. OwnInv(rows, draft[t], run[t])
  BY DEF ProfilesInv
<1>2. run[t] \in RunType /\ draft[t] \in [Id -> RowType]
  BY DEF ProfilesInv, TypeOK, RunType, RowType
<1>3. Unwritten(draft[t], run[t]) /\ Requested(rows, run[t]) /\ Defaulting(rows, draft[t], run[t])
  BY <1>1 DEF OwnInv
<1>4. /\ run[t].at \in {"idle", "device", "profile", "count", "find", "insert", "write"} => draft[t] = NoDraft
      /\ At(t, "session", "client") => draft[t] = NoDraft
  BY <1>3 DEF Unwritten, At
<1>5. draft[t] = NoDraft => \A i \in Id : See(t, i) = rows[i]
  BY DEF NoDraft, See
<1>6. run[t].at \notin {"rules", "select", "done"} => run[t].profile = None
  BY <1>3 DEF Defaulting
<1>7. run[t].at # "idle" => run[t].request \in Request
  BY <1>3 DEF Requested
<1> QED
  BY <1>1, <1>2, <1>4, <1>5, <1>6, <1>7

-----------------------------------------------------------------------------
(* The statements one by one. *)

LEMMA BeginKeeps ==
  ASSUME ProfilesInv, NEW t \in Txn, NEW q \in Request, Begin(t, q)
  PROVE  ProfilesInv'
<1> DEFINE k == [Idle EXCEPT !.request = q, !.at = FirstStep(q.op)]
<1>1. draft[t] = NoDraft
  BY AtRest DEF Begin
<1>2. q.op \in OpType
  BY RequestFields
<1>3. FirstStep(q.op) \in {"device", "client", "default", "insert", "profile"}
  BY <1>2 DEF FirstStep, OpType
<1>4. k \in RunType /\ k.request = q /\ k.at = FirstStep(q.op) /\ k.profile = None /\ k.client = None
  BY <1>3 DEF Idle, RunType, Steps
<1>5. run' = [run EXCEPT ![t] = k] /\ UNCHANGED <<rows, draft>>
  BY DEF Begin
<1> HIDE DEF k
<1>6. Requested(rows, k)
  BY <1>2, <1>4 DEF Requested, FirstStep, OpType
<1>7. Registering(rows, NoDraft, k)
  BY <1>2, <1>4 DEF Registering, FirstStep, OpType
<1>8. Defaulting(rows, NoDraft, k)
  BY <1>3, <1>4 DEF Defaulting
<1> QED
  BY <1>1, <1>4, <1>5, <1>6, <1>7, <1>8, ReadStep

(* A statement of a transaction that has not written yet which only reads. *)
LEMMA GotoKeeps ==
  ASSUME ProfilesInv, NEW t \in Txn, NEW step \in Steps, UNCHANGED <<rows, draft>>, Goto(t, step),
         draft[t] = NoDraft, run[t].profile = None, run[t].request \in Request,
         \/ step = "default" /\ run[t].request.op = "session"
         \/ step = "count" /\ run[t].request.op = "update" /\ rows[run[t].request.profile] # None
         \/ /\ step = "write"
            /\ run[t].request.op \in {"update", "target.delete", "rule.update", "rule.delete"}
            /\ run[t].request.op = "update" => rows[run[t].request.profile] # None
         \/ step = "find" /\ run[t].request.op \in {"target.delete", "rule.update", "rule.delete"}
         \/ /\ step = "insert" /\ run[t].request.op \in {"target.create", "rule.create"}
            /\ rows[run[t].request.profile] # None
  PROVE  ProfilesInv'
<1> DEFINE k == [run[t] EXCEPT !.at = step]
<1>1. run' = [run EXCEPT ![t] = k]
  BY DEF Goto
<1>2. k \in RunType /\ k.at = step /\ k.request = run[t].request /\ k.profile = None
  BY GotoRun
<1> HIDE DEF k
<1>3. Requested(rows, k)
  BY <1>2 DEF Requested
<1>4. Registering(rows, NoDraft, k)
  BY <1>2 DEF Registering
<1>5. Defaulting(rows, NoDraft, k)
  BY <1>2 DEF Defaulting
<1> QED
  BY <1>1, <1>2, <1>3, <1>4, <1>5, ReadStep

LEMMA ReadsKeep ==
  ASSUME ProfilesInv, NEW t \in Txn,
         FindSessionClient(t) \/ FindProfile(t) \/ CountManual(t) \/ FindRow(t)
  PROVE  ProfilesInv'
<1> USE AtRest
<1>1. CASE Rollback(t)
  BY <1>1, RollbackKeeps
<1>2. CASE FindSessionClient(t) /\ ~Rollback(t)
  <2>1. /\ At(t, "session", "client") /\ Goto(t, "default") /\ UNCHANGED <<rows, draft>>
    BY <1>2 DEF FindSessionClient
  <2> QED
    BY <2>1, GotoKeeps DEF At, Steps
<1>3. CASE FindProfile(t) /\ ~Rollback(t)
  <2> DEFINE q == run[t].request
  <2>1. run[t].at = "profile" /\ Exists(t, q.profile) /\ UNCHANGED <<rows, draft>>
    BY <1>3 DEF FindProfile
  <2>2. PICK step \in {"count", "write", "insert", "find"} :
          /\ Goto(t, step)
          /\ step \in {"count", "write"} => q.op = "update"
          /\ step = "insert" => q.op \in {"target.create", "rule.create"}
          /\ step = "find" => q.op \notin {"update", "target.create", "rule.create"}
    BY <1>3 DEF FindProfile
  <2>3. q \in Request /\ q.op \in {"update", "target.create", "target.delete",
                                 "rule.create", "rule.update", "rule.delete"}
    BY <2>1 DEF OwnInv, Requested
  <2>4. q.op \in {"update", "target.create", "rule.create"} => rows[q.profile] # None
    BY <2>1, <2>3, RequestFields DEF Exists, Id
  <2> QED
    BY <2>1, <2>2, <2>3, <2>4, GotoKeeps DEF Steps
<1>4. CASE CountManual(t) /\ ~Rollback(t)
  <2>1. At(t, "update", "count") /\ Goto(t, "write") /\ UNCHANGED <<rows, draft>>
    BY <1>4 DEF CountManual
  <2>2. rows[run[t].request.profile] # None
    BY <2>1 DEF At, OwnInv, Requested
  <2> QED
    BY <2>1, <2>2, GotoKeeps DEF At, Steps
<1>5. CASE FindRow(t) /\ ~Rollback(t)
  <2>1. run[t].at = "find" /\ Goto(t, "write") /\ UNCHANGED <<rows, draft>>
    BY <1>5 DEF FindRow
  <2>2. run[t].request.op \in {"target.delete", "rule.update", "rule.delete"}
    BY <2>1 DEF OwnInv, Requested
  <2> QED
    BY <2>1, <2>2, GotoKeeps DEF Steps
<1> QED
  BY <1>1, <1>2, <1>3, <1>4, <1>5

LEMMA UpsertDeviceKeeps ==
  ASSUME ProfilesInv, NEW t \in Txn, UpsertDevice(t), ~OutOfIds(t)
  PROVE  ProfilesInv'
<1> USE AtRest
<1>1. CASE Rollback(t)
  BY <1>1, RollbackKeeps
<1>2. CASE ~Rollback(t)
  <2> DEFINE known == run[t].request.device
             d == IF known = None THEN NewId(Device) ELSE known
             k == [run[t] EXCEPT !.at = "client", !.device = d]
  <2>1. /\ At(t, "register", "device") /\ ~Locked(t, d) /\ Write(t, d, [kind |-> "device"])
        /\ run' = [run EXCEPT ![t] = k] /\ UNCHANGED rows
    BY <1>2 DEF UpsertDevice
  <2>2. known \in Device \cup {None}
    BY <2>1, RequestFields DEF At
  <2>3. known = None => d \in Device
    BY <2>1, OneLeft DEF OutOfIds, At
  <2>4. d \in Device
    BY <2>2, <2>3
  <2>5. k \in RunType /\ k.at = "client" /\ k.device = d /\ k.request = run[t].request /\ k.profile = None
    BY <2>1, <2>4 DEF RunType, Steps, At
  <2> HIDE DEF k, d
  <2>6. Requested(rows, k)
    BY <2>1, <2>5 DEF Requested, At
  <2>7. [kind |-> "device"] \in Row /\ Fits(d, [kind |-> "device"])
    BY <2>4, Tables DEF Fits, Row, DeviceRow
  <2>8. d \in Id \ Client /\ d \notin Profile /\ d \notin Rule /\ d \notin Target
    BY <2>4, Tables
  <2> QED
    BY <2>1, <2>4, <2>5, <2>6, <2>7, <2>8, FirstWrite DEF At
<1> QED
  BY <1>1, <1>2

LEMMA CreateProfileKeeps ==
  ASSUME ProfilesInv, NEW t \in Txn, CreateProfile(t), ~OutOfIds(t)
  PROVE  ProfilesInv'
<1> USE AtRest
<1> DEFINE p == NewId(Profile)
           k == [run[t] EXCEPT !.at = "done"]
<1>1. /\ At(t, "create", "insert") /\ Write(t, p, [enabled |-> TRUE])
      /\ run' = [run EXCEPT ![t] = k] /\ UNCHANGED rows
  BY DEF CreateProfile, Goto
<1>2. p \in Profile /\ Fresh(p)
  BY <1>1, OneLeft DEF OutOfIds, At
<1>3. k \in RunType /\ k.at = "done" /\ k.request = run[t].request /\ k.profile = None
  <2>1. run[t] \in RunType /\ run[t].profile = None
    BY <1>1 DEF At
  <2> QED
    BY <2>1 DEF RunType, Steps
<1> HIDE DEF k, p
<1>4. Requested(rows, k)
  BY <1>1, <1>3 DEF Requested, At
<1>5. [enabled |-> TRUE] \in Row /\ Fits(p, [enabled |-> TRUE])
  BY <1>2, Tables DEF Fits, Row, ProfileRow
<1>6. p \in Id \ Client /\ p \notin Device /\ p \notin Rule /\ p \notin Target
  BY <1>2, Tables
<1>7. ~Locked(t, p) /\ rows[p] = None
  BY <1>2 DEF Fresh, Locked
<1> QED
  BY <1>1, <1>2, <1>3, <1>4, <1>5, <1>6, <1>7, FirstWrite DEF At

LEMMA WriteProfileKeeps ==
  ASSUME ProfilesInv, NEW t \in Txn, WriteProfile(t)
  PROVE  ProfilesInv'
<1> USE AtRest
<1> DEFINE q == run[t].request
           p == q.profile
           enabled == IF q.enabled = None THEN See(t, p).enabled ELSE q.enabled
           v == [enabled |-> enabled]
           k == [run[t] EXCEPT !.at = IF enabled THEN "default" ELSE "done"]
<1>1. /\ At(t, "update", "write") /\ ~Locked(t, p) /\ Write(t, p, v)
      /\ run' = [run EXCEPT ![t] = k] /\ UNCHANGED rows
  BY DEF WriteProfile, Goto
<1>2. p \in Profile /\ p \in Id /\ q.enabled \in BOOLEAN \cup {None}
  BY <1>1, RequestFields DEF At, Id
<1>3. See(t, p) = rows[p] /\ rows[p] # None
  BY <1>1, <1>2 DEF At, OwnInv, Requested
<1>4. rows[p] \in ProfileRow
  BY <1>2, <1>3 DEF ProfilesInv, Typed, Fits
<1>5. enabled \in BOOLEAN /\ (v = rows[p] \/ v.enabled = q.enabled)
  BY <1>2, <1>3, <1>4 DEF ProfileRow
<1>6. k \in RunType /\ k.at \in {"default", "done"} /\ k.request = q /\ k.profile = None
  <2>1. run[t] \in RunType /\ run[t].profile = None
    BY <1>1 DEF At
  <2> QED
    BY <2>1 DEF RunType, Steps
<1> HIDE DEF k, p, enabled
<1>7. Requested(rows, k)
  BY <1>1, <1>6 DEF Requested, At
<1>8. v \in Row /\ Fits(p, v)
  BY <1>2, <1>5, Tables DEF Fits, Row, ProfileRow
<1>9. p \in Id \ Client /\ p \notin Device /\ p \notin Rule /\ p \notin Target
  BY <1>2, Tables
<1> HIDE DEF v
<1>10. /\ k.request.op = "update" /\ k.request.profile = p /\ draft[t] = NoDraft
       /\ v = rows[p] \/ v.enabled = k.request.enabled
  BY <1>1, <1>5, <1>6 DEF At, p
<1> QED
  BY <1>1, <1>2, <1>3, <1>6, <1>7, <1>8, <1>9, <1>10, FirstWrite

LEMMA InsertTargetKeeps ==
  ASSUME ProfilesInv, NEW t \in Txn, InsertTarget(t), ~OutOfIds(t)
  PROVE  ProfilesInv'
<1> USE AtRest
<1> DEFINE g == NewId(Target)
           q == run[t].request
           row == [profile |-> q.profile, selects |-> q.selects]
           k == [run[t] EXCEPT !.at = "done"]
<1>1. /\ At(t, "target.create", "insert") /\ Write(t, g, row)
      /\ run' = [run EXCEPT ![t] = k] /\ UNCHANGED rows
  BY DEF InsertTarget, Goto
<1>2. g \in Target /\ Fresh(g)
  BY <1>1, OneLeft DEF OutOfIds, At
<1>3. row \in TargetRow
  BY <1>1, RequestFields DEF At, TargetRow
<1>4. k \in RunType /\ k.at = "done" /\ k.request = q /\ k.profile = None
  <2>1. run[t] \in RunType /\ run[t].profile = None
    BY <1>1 DEF At
  <2> QED
    BY <2>1 DEF RunType, Steps
<1> HIDE DEF k, g, row
<1>5. Requested(rows, k)
  BY <1>1, <1>4 DEF Requested, At
<1>6. row \in Row /\ Fits(g, row)
  BY <1>2, <1>3, Tables DEF Fits, Row
<1>7. g \in Id \ Client /\ g \notin Device /\ g \notin Rule /\ g \notin Profile
  BY <1>2, Tables
<1>8. ~Locked(t, g) /\ rows[g] = None
  BY <1>2 DEF Fresh, Locked
<1> QED
  BY <1>1, <1>2, <1>4, <1>5, <1>6, <1>7, <1>8, FirstWrite DEF At

LEMMA KnownTypes == MatcherTypes \subseteq MatcherType
<1>1. SUFFICES ASSUME NEW m \in Matcher PROVE m[1] \in MatcherType
  BY DEF MatcherTypes
<1>2. MatcherFits(m[1], m[2])
  BY ProfilesAssumption
<1> QED
  BY <1>2 DEF MatcherFits, MatcherType

(* The rules a request may write are well formed. *)
LEMMA RuleBodies ==
  ASSUME NEW b \in RuleBody
  PROVE  b.order \in Nat /\ b.action \in Action /\ b.type \in MatcherType /\ b.value \in MatcherValues
         /\ MatcherFits(b.type, b.value)
<1>1. MatcherTypes \subseteq MatcherType /\ RuleOrder \subseteq Nat /\ RuleAction \subseteq Action
  BY KnownTypes, ProfilesAssumption
<1>2. b.order \in RuleOrder /\ b.action \in RuleAction /\ b.type \in MatcherTypes
      /\ b.value \in MatcherValues /\ MatcherFits(b.type, b.value)
  BY DEF RuleBody
<1> QED
  BY <1>1, <1>2

LEMMA InsertRuleKeeps ==
  ASSUME ProfilesInv, NEW t \in Txn, InsertRule(t), ~OutOfIds(t)
  PROVE  ProfilesInv'
<1> USE AtRest
<1> DEFINE r == NewId(Rule)
           q == run[t].request
           row == [profile |-> q.profile, order |-> q.body.order, action |-> q.body.action,
                   type |-> q.body.type, value |-> q.body.value]
           k == [run[t] EXCEPT !.at = "done"]
<1>1. /\ At(t, "rule.create", "insert") /\ Write(t, r, row)
      /\ run' = [run EXCEPT ![t] = k] /\ UNCHANGED rows
  BY DEF InsertRule, Goto
<1>2. r \in Rule /\ Fresh(r)
  BY <1>1, OneLeft DEF OutOfIds, At
<1>3. q.profile \in Profile /\ q.body \in RuleBody
  BY <1>1, RequestFields DEF At
<1>4. row \in RuleRow /\ MatcherFits(row.type, row.value) /\ row.profile = q.profile
  BY <1>3, RuleBodies DEF RuleRow
<1>5. rows[q.profile] # None
  BY <1>1 DEF At, OwnInv, Requested
<1>6. k \in RunType /\ k.at = "done" /\ k.request = q /\ k.profile = None
  <2>1. run[t] \in RunType /\ run[t].profile = None
    BY <1>1 DEF At
  <2> QED
    BY <2>1 DEF RunType, Steps
<1> HIDE DEF k, r, row
<1>7. Requested(rows, k)
  BY <1>1, <1>6 DEF Requested, At
<1>8. row \in Row /\ Fits(r, row)
  BY <1>2, <1>4, Tables DEF Fits, Row
<1>9. r \in Id \ Client /\ r \notin Device /\ r \notin Profile /\ r \notin Target
  BY <1>2, Tables
<1>10. ~Locked(t, r) /\ rows[r] = None
  BY <1>2 DEF Fresh, Locked
<1> QED
  BY <1>1, <1>2, <1>4, <1>5, <1>6, <1>7, <1>8, <1>9, <1>10, FirstWrite DEF At

LEMMA DeleteRowKeeps ==
  ASSUME ProfilesInv, NEW t \in Txn, DeleteRow(t)
  PROVE  ProfilesInv'
<1> USE AtRest
<1> DEFINE q == run[t].request
           i == Named(q)
           k == [run[t] EXCEPT !.at = "done"]
<1>1. /\ At(t, "target.delete", "write") \/ At(t, "rule.delete", "write")
      /\ ~Locked(t, i) /\ Write(t, i, Gone)
      /\ run' = [run EXCEPT ![t] = k] /\ UNCHANGED rows
  BY DEF DeleteRow, Goto
<1>2. i \in Rule \cup Target
  BY <1>1, RequestFields DEF At, Named
<1>3. k \in RunType /\ k.at = "done" /\ k.request = q /\ k.profile = None
  <2>1. run[t] \in RunType /\ run[t].profile = None
    BY <1>1 DEF At
  <2> QED
    BY <2>1 DEF RunType, Steps
<1> HIDE DEF k, i
<1>4. Requested(rows, k)
  BY <1>1, <1>3 DEF Requested, At
<1>5. Fits(i, Gone) /\ i \in Id \ Client /\ i \notin Profile
  BY <1>2, Tables DEF Fits
<1> QED
  BY <1>1, <1>3, <1>4, <1>5, FirstWrite DEF At

(* What a patch leaves is a valid rule, if what it found was one.          *)
LEMMA PatchedFits ==
  ASSUME NEW row \in RuleRow, MatcherFits(row.type, row.value), NEW patch \in RulePatch
  PROVE  /\ Patched(row, patch) \in RuleRow /\ Patched(row, patch).profile = row.profile
         /\ MatcherFits(Patched(row, patch).type, Patched(row, patch).value)
<1> DEFINE new == Patched(row, patch)
<1>1. MatcherTypes \subseteq MatcherType /\ RuleOrder \subseteq Nat /\ RuleAction \subseteq Action
  BY KnownTypes, ProfilesAssumption
<1>2. /\ patch.order \in Nat \cup {None} /\ patch.action \in Action \cup {None}
      /\ patch.type \in MatcherTypes \cup {None} /\ patch.value \in MatcherValues \cup {None}
      /\ ValidPatch(patch)
  BY <1>1 DEF RulePatch
<1>3. patch.type \in MatcherType \cup {None}
  BY <1>1, <1>2
<1>4. /\ new.profile = row.profile
      /\ new = [profile |-> row.profile, order |-> Set(row.order, patch.order),
                action |-> Set(row.action, patch.action), type |-> Set(row.type, patch.type),
                value |-> Set(row.value, patch.value)]
  <2> DEFINE o == Set(row.order, patch.order)
             a == Set(row.action, patch.action)
             y == Set(row.type, patch.type)
             w == Set(row.value, patch.value)
  <2>1. new = [row EXCEPT !.order = o, !.action = a, !.type = y, !.value = w]
    BY DEF Patched, RuleRow
  <2> HIDE DEF o, a, y, w, new
  <2>2. new = [profile |-> row.profile, order |-> o, action |-> a, type |-> y, value |-> w]
    BY <2>1 DEF RuleRow
  <2> QED
    BY <2>2 DEF o, a, y, w
<1>5. new \in RuleRow
  BY <1>2, <1>3, <1>4 DEF Set, RuleRow
<1>6. MatcherFits(new.type, new.value)
  BY <1>2, <1>4 DEF Set, ValidPatch
<1> QED
  BY <1>4, <1>5, <1>6

LEMMA UpdateRuleKeeps ==
  ASSUME ProfilesInv, NEW t \in Txn, UpdateRule(t)
  PROVE  ProfilesInv'
<1> USE AtRest
<1>1. CASE Rollback(t)
  BY <1>1, RollbackKeeps
<1>2. CASE ~Rollback(t)
  <2> DEFINE q == run[t].request
             r == q.rule
             row == Patched(See(t, r), q.patch)
             k == [run[t] EXCEPT !.at = "done"]
  <2>1. /\ At(t, "rule.update", "write") /\ Exists(t, r) /\ ~Locked(t, r) /\ Write(t, r, row)
        /\ run' = [run EXCEPT ![t] = k] /\ UNCHANGED rows
    BY <1>2 DEF UpdateRule, Goto
  <2>2. r \in Rule /\ q.patch \in RulePatch
    BY <2>1, RequestFields DEF At
  <2>3. See(t, r) = rows[r] /\ rows[r] \notin {None, Gone}
    BY <2>1, <2>2, Tables DEF At, Exists
  <2>4. rows[r] \in RuleRow /\ MatcherFits(rows[r].type, rows[r].value) /\ rows[rows[r].profile] # None
    <3>1. Fits(r, rows[r])
      BY <2>2, <2>3, Tables DEF ProfilesInv, Typed
    <3>2. rows[r] \in RuleRow /\ MatcherFits(rows[r].type, rows[r].value)
      BY <2>2, <2>3, <3>1 DEF Fits
    <3>3. SeeIn(rows, NoDraft, rows[r].profile) # None
      BY <2>2, <2>3 DEF ProfilesInv, Referenced
    <3>4. rows[r].profile \in Id
      BY <3>2, Tables DEF RuleRow
    <3> QED
      BY <3>2, <3>3, <3>4 DEF SeeIn, NoDraft
  <2>5. row = Patched(rows[r], q.patch) /\ row \in RuleRow /\ row.profile = rows[r].profile
        /\ MatcherFits(row.type, row.value)
    BY <2>2, <2>3, <2>4, PatchedFits
  <2>6. k \in RunType /\ k.at = "done" /\ k.request = q /\ k.profile = None
    <3>1. run[t] \in RunType /\ run[t].profile = None
      BY <2>1 DEF At
    <3> QED
      BY <3>1 DEF RunType, Steps
  <2> HIDE DEF k, r, row
  <2>7. Requested(rows, k)
    BY <2>1, <2>6 DEF Requested, At
  <2>8. row \in Row /\ Fits(r, row)
    BY <2>2, <2>5, Tables DEF Fits, Row
  <2>9. r \in Id \ Client /\ r \notin Device /\ r \notin Profile /\ r \notin Target
    BY <2>2, Tables
  <2>10. k.request.op = "rule.update" /\ k.request.rule = r /\ row = Patched(rows[r], k.request.patch)
    BY <2>1, <2>5, <2>6 DEF At, r
  <2>11. rows[r] # Gone /\ rows[row.profile] # None
    BY <2>3, <2>4, <2>5
  <2> QED
    BY <2>1, <2>6, <2>7, <2>8, <2>9, <2>10, <2>11, FirstWrite DEF At
<1> QED
  BY <1>1, <1>2

LEMMA FindClientKeeps ==
  ASSUME ProfilesInv, NEW t \in Txn, FindClient(t)
  PROVE  ProfilesInv'
<1> DEFINE D == draft[t]
<1>0. OwnInv(rows, D, run[t]) /\ D \in [Id -> RowType] /\ run[t] \in RunType
  BY AtRest
<1>1. PICK c \in Client \cup {None} :
        /\ c = None => \A x \in Client : ~Registered(t, x, run[t].device, run[t].request.instance)
        /\ run' = [run EXCEPT ![t] = [@ EXCEPT !.at = "upsert", !.client = c]]
  BY DEF FindClient
<1> DEFINE k == [run[t] EXCEPT !.at = "upsert", !.client = c]
<1>2. At(t, "register", "client") /\ UNCHANGED <<rows, draft>>
  BY DEF FindClient
<1>3. /\ run' = [run EXCEPT ![t] = k] /\ k \in RunType /\ k.at = "upsert" /\ k.client = c
      /\ k.request = run[t].request /\ k.device = run[t].device /\ k.profile = run[t].profile
  BY <1>0, <1>1 DEF RunType, Steps
<1> HIDE DEF k
<1>4. Device \subseteq Id /\ Client \subseteq Id \ Device /\ Profile \subseteq Id \ Device
      /\ Rule \subseteq Id \ Device /\ Target \subseteq Id \ Device
  BY Tables
<1>5. /\ k.device \in Device /\ D[k.device] # None /\ k.profile = None /\ k.request.op = "register"
      /\ k.request \in Request /\ \A i \in Id \ Device : D[i] = None
  BY <1>0, <1>2, <1>3 DEF OwnInv, Registering, Requested, Defaulting, At
<1>6. c = None => \A x \in Client : rows[x] # [device |-> k.device, instance |-> k.request.instance]
  <2> SUFFICES ASSUME c = None, NEW x \in Client,
                      rows[x] = [device |-> k.device, instance |-> k.request.instance]
               PROVE  FALSE
    OBVIOUS
  <2>1. See(t, x) = rows[x]
    BY <1>4, <1>5 DEF See
  <2>2. rows[x] # None => rows[x] \in ClientRow
    BY <1>4 DEF ProfilesInv, Typed, Fits
  <2>3. rows[x] \in Row
    <3>1. k.request.instance \in Instance
      BY <1>5, RequestFields
    <3> QED
      BY <1>5, <3>1 DEF Row, ClientRow
  <2>4. Exists(t, x)
    BY <2>1, <2>3, Tables DEF Exists
  <2> QED
    BY <1>1, <1>3, <2>1, <2>4 DEF Registered
<1>7. Registering(rows, D, k)
  BY <1>3, <1>5, <1>6 DEF Registering
<1>8. Requested(rows, k) /\ Defaulting(rows, D, k) /\ Unwritten(D, k)
  BY <1>3, <1>5 DEF Requested, Defaulting, Unwritten
<1>9. WroteClients(D, k) /\ WroteProfiles(rows, D, k) /\ WroteRules(rows, D, k) /\ WroteTargets(rows, D)
  BY <1>4, <1>5 DEF WroteClients, WroteProfiles, WroteRules, WroteTargets
<1>10. OwnInv(rows, D, k)
  BY <1>0, <1>7, <1>8, <1>9 DEF OwnInv
<1>11. draft' = [draft EXCEPT ![t] = D]
  BY <1>2 DEF ProfilesInv, TypeOK
<1> QED
  BY <1>0, <1>2, <1>3, <1>10, <1>11, OwnStep

LEMMA WriteClientKeeps ==
  ASSUME ProfilesInv, NEW t \in Txn, WriteClient(t), ~OutOfIds(t)
  PROVE  ProfilesInv'
<1>1. CASE Rollback(t)
  BY <1>1, RollbackKeeps
<1>2. CASE ~Rollback(t)
  <2> DEFINE D == draft[t]
             row == [device |-> run[t].device, instance |-> run[t].request.instance]
             c == IF run[t].client = None THEN NewId(Client) ELSE run[t].client
             d == [D EXCEPT ![c] = row]
             k == [run[t] EXCEPT !.at = "default"]
  <2>0. OwnInv(rows, D, run[t]) /\ D \in [Id -> RowType] /\ run[t] \in RunType
    BY AtRest
  <2>1. /\ At(t, "register", "upsert") /\ Write(t, c, row) /\ UNCHANGED rows
        /\ run[t].client = None => ~Collides(t)
        /\ run[t].client # None => ~Locked(t, c)
        /\ run' = [run EXCEPT ![t] = k]
    BY <1>2 DEF WriteClient, Goto
  <2>2. run[t].client = None => c \in Client /\ Fresh(c)
    BY <2>1, OneLeft DEF OutOfIds, At
  <2>3. c \in Client /\ ~Locked(t, c)
    BY <2>0, <2>1, <2>2 DEF RunType, Fresh, Locked
  <2>4. /\ k \in RunType /\ k.at = "default" /\ k.request = run[t].request
        /\ k.device = run[t].device /\ k.profile = run[t].profile
    BY <2>0 DEF RunType, Steps
  <2>5. Device \subseteq Id /\ Client \subseteq Id \ Device /\ Profile \subseteq (Id \ Device) \ Client
        /\ Rule \subseteq (Id \ Device) \ Client /\ Target \subseteq (Id \ Device) \ Client
    BY Tables
  <2>6. /\ k.device \in Device /\ D[k.device] # None /\ k.profile = None /\ k.request.op = "register"
        /\ k.request \in Request /\ \A i \in Id \ Device : D[i] = None
    BY <2>0, <2>1, <2>4 DEF OwnInv, Registering, Requested, Defaulting, At
  <2>7. row \in ClientRow
    <3>1. k.request.instance \in Instance
      BY <2>6, RequestFields
    <3> QED
      BY <2>4, <2>6, <3>1 DEF ClientRow
  <2>8. row \in RowType /\ row # None /\ row.device = k.device
    BY <2>4, <2>7, Tables DEF RowType, Row
  <2>9. d \in [Id -> RowType] /\ d[c] = row /\ \A i \in Id \ {c} : d[i] = D[i]
    BY <2>0, <2>3, <2>5, <2>8
  <2>10. draft' = [draft EXCEPT ![t] = d]
    BY <2>1 DEF Write
  <2> HIDE DEF D, row, c, d, k
  <2>11. Typed(d)
    <3>1. Fits(c, row)
      BY <2>3, <2>5, <2>7 DEF Fits
    <3> QED
      BY <2>0, <2>9, <3>1 DEF OwnInv, Typed
  <2>12. \A i \in Profile \cup Rule \cup Target : d[i] = None
    BY <2>3, <2>5, <2>6, <2>9
  <2>13. d[k.device] # None
    BY <2>3, <2>5, <2>6, <2>9
  <2>14. Referenced(d, rows, d) /\ WroteProfiles(rows, d, k) /\ WroteRules(rows, d, k)
         /\ WroteTargets(rows, d)
    BY <2>12 DEF Referenced, WroteProfiles, WroteRules, WroteTargets
  <2>15. WroteClients(d, k)
    BY <2>5, <2>6, <2>8, <2>9, <2>13 DEF WroteClients
  <2>16. Unwritten(d, k) /\ Requested(rows, k) /\ Registering(rows, d, k) /\ Defaulting(rows, d, k)
    BY <2>4, <2>6, <2>12 DEF Unwritten, Requested, Registering, Defaulting
  <2>17. OwnInv(rows, d, k)
    BY <2>11, <2>14, <2>15, <2>16 DEF OwnInv
  <2>18. rows' = rows /\ \A i \in Id : d[i] = None \/ d[i] = draft[t][i] \/ ~Locked(t, i)
    BY <2>1, <2>3, <2>9 DEF D
  <2> QED
    BY <2>1, <2>4, <2>9, <2>10, <2>17, <2>18, OwnStep
<1> QED
  BY <1>1, <1>2

LEMMA EnsureDefaultKeeps ==
  ASSUME ProfilesInv, NEW t \in Txn, EnsureDefault(t), ~OutOfIds(t)
  PROVE  ProfilesInv'
<1> DEFINE D == draft[t]
<1>0. OwnInv(rows, D, run[t]) /\ D \in [Id -> RowType] /\ run[t] \in RunType
  BY AtRest
<1>1. PICK p \in Profile :
        /\ \/ p \in EnabledManual(t) /\ UNCHANGED draft
           \/ EnabledManual(t) = {} /\ p = NewId(Profile) /\ Write(t, p, [enabled |-> TRUE])
        /\ run' = [run EXCEPT ![t] = [@ EXCEPT !.at = "rules", !.profile = p]]
  BY DEF EnsureDefault
<1>2. run[t].at = "default" /\ rows' = rows
  BY DEF EnsureDefault
<1> DEFINE k == [run[t] EXCEPT !.at = "rules", !.profile = p]
<1>3. /\ run' = [run EXCEPT ![t] = k] /\ k \in RunType /\ k.at = "rules" /\ k.profile = p
      /\ k.request = run[t].request /\ k.device = run[t].device
  BY <1>0, <1>1 DEF RunType, Steps
<1> HIDE DEF k
<1>4. /\ run[t].profile = None /\ k.request \in Request
      /\ k.request.op \in {"register", "session", "list", "update"} /\ \A r \in Rule : D[r] = None
  BY <1>0, <1>2, <1>3 DEF OwnInv, Unwritten, Requested, Defaulting
<1>5. Requested(rows, k) /\ \A d : Registering(rows, d, k)
  BY <1>3, <1>4 DEF Requested, Registering
<1>6. p # None /\ None \notin Profile /\ Profile \subseteq Id
  BY Tables
<1>7. CASE p \in EnabledManual(t) /\ UNCHANGED draft
  <2>1. SeeIn(rows, D, p) # None
    BY <1>7 DEF EnabledManual, Exists, See, SeeIn
  <2>2. WroteProfiles(rows, D, k)
    BY <1>0, <1>2, <1>3, <1>4, <1>6 DEF OwnInv, WroteProfiles
  <2>3. WroteRules(rows, D, k) /\ WroteClients(D, k) /\ Unwritten(D, k) /\ Defaulting(rows, D, k)
    BY <1>0, <1>3, <1>4, <1>6, <2>1 DEF OwnInv, WroteRules, WroteClients, Unwritten, Defaulting
  <2>4. OwnInv(rows, D, k)
    BY <1>0, <1>5, <2>2, <2>3 DEF OwnInv
  <2>5. draft' = [draft EXCEPT ![t] = D]
    BY <1>7 DEF ProfilesInv, TypeOK
  <2> QED
    BY <1>0, <1>2, <1>3, <2>4, <2>5, OwnStep
<1>8. CASE EnabledManual(t) = {} /\ p = NewId(Profile) /\ Write(t, p, [enabled |-> TRUE])
  <2> DEFINE d == [D EXCEPT ![p] = [enabled |-> TRUE]]
  <2>1. Fresh(p)
    BY <1>2, <1>8, OneLeft DEF OutOfIds
  <2>2. rows[p] = None /\ ~Locked(t, p)
    BY <2>1 DEF Fresh, Locked
  <2>3. [enabled |-> TRUE] \in RowType /\ [enabled |-> TRUE] # None /\ [enabled |-> TRUE].enabled = TRUE
    <3>1. [enabled |-> TRUE] \in Row
      BY DEF Row, ProfileRow
    <3> QED
      BY <3>1, Tables DEF RowType
  <2>4. d \in [Id -> RowType] /\ d[p] = [enabled |-> TRUE] /\ \A i \in Id \ {p} : d[i] = D[i]
    BY <1>0, <1>6, <2>3
  <2>5. draft' = [draft EXCEPT ![t] = d]
    BY <1>8 DEF Write
  <2>6. Device \subseteq Id \ Profile /\ Client \subseteq Id \ Profile
        /\ Rule \subseteq Id \ Profile /\ Target \subseteq Id \ Profile
    BY Tables
  <2> HIDE DEF d
  <2>7. Typed(d)
    <3>1. Fits(p, [enabled |-> TRUE])
      BY <2>6 DEF Fits, ProfileRow
    <3> QED
      BY <1>0, <2>4, <3>1 DEF OwnInv, Typed
  <2>8. \A r \in Rule : d[r] = None
    BY <1>4, <2>4, <2>6
  <2>9. Referenced(d, rows, d) /\ WroteRules(rows, d, k) /\ Unwritten(d, k)
    BY <1>3, <2>8 DEF Referenced, WroteRules, Unwritten
  <2>10. WroteClients(d, k) /\ WroteTargets(rows, d)
    BY <1>0, <1>3, <2>4, <2>6 DEF OwnInv, WroteClients, WroteTargets
  <2>11. WroteProfiles(rows, d, k)
    <3> SUFFICES ASSUME NEW x \in Profile, d[x] # None
                 PROVE  \/ rows[x] = None /\ d[x].enabled = TRUE /\ (k.request.op = "create" \/ k.profile = x)
                        \/ /\ rows[x] # None /\ k.request.op = "update" /\ k.request.profile = x
                           /\ k.at \in {"default", "rules", "done"}
                           /\ d[x] = rows[x] \/ d[x].enabled = k.request.enabled
      BY DEF WroteProfiles
    <3>1. CASE x = p
      BY <1>3, <2>2, <2>3, <2>4, <3>1
    <3>2. CASE x # p
      BY <1>0, <1>2, <1>3, <1>4, <1>6, <2>4, <3>2 DEF OwnInv, WroteProfiles
    <3> QED
      BY <3>1, <3>2
  <2>12. Defaulting(rows, d, k)
    BY <1>3, <1>6, <2>3, <2>4 DEF Defaulting, SeeIn
  <2>13. OwnInv(rows, d, k)
    BY <1>5, <2>7, <2>9, <2>10, <2>11, <2>12 DEF OwnInv
  <2>14. \A i \in Id : d[i] = None \/ d[i] = draft[t][i] \/ ~Locked(t, i)
    BY <2>2, <2>4
  <2> QED
    BY <1>2, <1>3, <2>4, <2>5, <2>13, <2>14, OwnStep
<1> QED
  BY <1>1, <1>7, <1>8

LEMMA SelectProfileKeeps ==
  ASSUME ProfilesInv, NEW t \in Txn, SelectProfile(t)
  PROVE  ProfilesInv'
<1>1. CASE Rollback(t)
  BY <1>1, RollbackKeeps
<1>2. CASE ~Rollback(t)
  <2> DEFINE D == draft[t]
             k == [run[t] EXCEPT !.at = "done"]
  <2>0. OwnInv(rows, D, run[t]) /\ D \in [Id -> RowType] /\ run[t] \in RunType
    BY AtRest
  <2>1. At(t, "session", "select") /\ run' = [run EXCEPT ![t] = k] /\ UNCHANGED <<rows, draft>>
    BY <1>2 DEF SelectProfile, Goto
  <2>2. /\ k \in RunType /\ k.at = "done" /\ k.request = run[t].request
        /\ k.device = run[t].device /\ k.profile = run[t].profile
    BY <2>0 DEF RunType, Steps
  <2>3. draft' = [draft EXCEPT ![t] = D]
    BY <2>1 DEF ProfilesInv, TypeOK
  <2> HIDE DEF k
  <2>4. WroteClients(D, k) /\ WroteProfiles(rows, D, k) /\ WroteRules(rows, D, k)
    BY <2>0, <2>1, <2>2 DEF OwnInv, WroteClients, WroteProfiles, WroteRules, At
  <2>5. Unwritten(D, k) /\ Requested(rows, k) /\ Registering(rows, D, k) /\ Defaulting(rows, D, k)
    BY <2>0, <2>1, <2>2 DEF OwnInv, Unwritten, Requested, Registering, Defaulting, At
  <2>6. OwnInv(rows, D, k)
    BY <2>0, <2>4, <2>5 DEF OwnInv
  <2> QED
    BY <2>0, <2>1, <2>2, <2>3, <2>6, OwnStep
<1> QED
  BY <1>1, <1>2

LEMMA DefaultRules ==
  ASSUME NEW p \in Profile, NEW n \in 1 .. 2
  PROVE  DefaultRule(p, n) \in RuleRow /\ DefaultRule(p, n).profile = p
         /\ MatcherFits(DefaultRule(p, n).type, DefaultRule(p, n).value)
<1>1. DefaultRule(p, 1) = [profile |-> p, order |-> 1, action |-> "include",
                           type |-> "library_kind", value |-> "normal"]
  BY DEF DefaultRule
<1>2. DefaultRule(p, 2) = [profile |-> p, order |-> 2, action |-> "exclude",
                           type |-> "library_kind", value |-> "vault"]
  BY DEF DefaultRule
<1>3. MatcherFits("library_kind", "normal") /\ MatcherFits("library_kind", "vault")
  BY DEF MatcherFits
<1>4. CASE n = 1
  BY <1>1, <1>3, <1>4 DEF RuleRow, Action, MatcherType
<1>5. CASE n = 2
  BY <1>2, <1>3, <1>5 DEF RuleRow, Action, MatcherType
<1> QED
  BY <1>4, <1>5

LEMMA EnsureRulesKeeps ==
  ASSUME ProfilesInv, NEW t \in Txn, EnsureRules(t), ~OutOfIds(t)
  PROVE  ProfilesInv'
<1> DEFINE D == draft[t]
           p == run[t].profile
           k == [run[t] EXCEPT !.at = AfterRules(run[t].request.op)]
<1>0. OwnInv(rows, D, run[t]) /\ D \in [Id -> RowType] /\ run[t] \in RunType
  BY AtRest
<1>1. run[t].at = "rules" /\ rows' = rows /\ run' = [run EXCEPT ![t] = k]
  BY DEF EnsureRules, Goto
<1>2. AfterRules(run[t].request.op) = IF run[t].request.op = "session" THEN "select" ELSE "done"
  BY DEF AfterRules
<1>3. /\ k \in RunType /\ k.request = run[t].request /\ k.device = run[t].device /\ k.profile = p
      /\ k.at = IF k.request.op = "session" THEN "select" ELSE "done"
  BY <1>0, <1>2 DEF RunType, Steps
<1> HIDE DEF k, p
<1>4. /\ p \in Profile /\ SeeIn(rows, D, p) # None /\ \A r \in Rule : D[r] = None
      /\ k.request \in Request /\ k.request.op # "create"
  BY <1>0, <1>1, <1>3 DEF OwnInv, Unwritten, Requested, Defaulting, p
<1>5. Profile \subseteq Id \ Rule /\ Device \subseteq Id \ Rule /\ Client \subseteq Id \ Rule
      /\ Target \subseteq Id \ Rule /\ Rule \subseteq Id
  BY Tables
<1>6. \A d : Unwritten(d, k) /\ Requested(rows, k) /\ Registering(rows, d, k)
  BY <1>3, <1>4 DEF Unwritten, Requested, Registering
<1>7. WroteProfiles(rows, D, k)
  BY <1>0, <1>3 DEF OwnInv, WroteProfiles, p
<1>8. CASE RulesOf(t, p) # {}
  <2>1. draft' = [draft EXCEPT ![t] = D]
    BY <1>8 DEF EnsureRules, ProfilesInv, TypeOK, p
  <2>2. PICK r \in Rule : Exists(t, r) /\ See(t, r).profile = p
    BY <1>8 DEF RulesOf
  <2>3. rows[r] \notin {None, Gone} /\ rows[r].profile = p
    BY <1>4, <2>2 DEF Exists, See
  <2>4. SeeIn(rows, NoDraft, p) # None
    BY <2>3 DEF ProfilesInv, Referenced
  <2>5. rows[p] # None
    BY <1>4, <1>5, <2>4 DEF SeeIn, NoDraft
  <2>6. WroteRules(rows, D, k) /\ WroteClients(D, k) /\ Defaulting(rows, D, k)
    BY <1>0, <1>3, <1>4, <2>5 DEF OwnInv, WroteRules, WroteClients, Defaulting
  <2>7. OwnInv(rows, D, k)
    BY <1>0, <1>6, <1>7, <2>6 DEF OwnInv
  <2> QED
    BY <1>0, <1>1, <1>3, <2>1, <2>7, OwnStep
<1>9. CASE RulesOf(t, p) = {}
  <2> DEFINE r == NewId(Rule)
             s == NewId(Rule \ {r})
             d == [D EXCEPT ![r] = DefaultRule(p, 1), ![s] = DefaultRule(p, 2)]
  <2>1. draft' = [draft EXCEPT ![t] = d]
    BY <1>9 DEF EnsureRules, p
  <2>2. Left(Rule, 2)
    BY <1>1, <1>9 DEF OutOfIds, p
  <2>3. r \in Rule /\ s \in Rule \ {r} /\ Fresh(r) /\ Fresh(s)
    BY <2>2, TwoLeft
  <2>4. \A i \in {r, s} : rows[i] = None /\ ~Locked(t, i)
    BY <2>3 DEF Fresh, Locked
  <2>5. /\ DefaultRule(p, 1) \in RuleRow /\ DefaultRule(p, 2) \in RuleRow
        /\ DefaultRule(p, 1).profile = p /\ DefaultRule(p, 2).profile = p
        /\ MatcherFits(DefaultRule(p, 1).type, DefaultRule(p, 1).value)
        /\ MatcherFits(DefaultRule(p, 2).type, DefaultRule(p, 2).value)
    BY <1>4, DefaultRules
  <2>6. DefaultRule(p, 1) \in RowType /\ DefaultRule(p, 2) \in RowType
    BY <2>5 DEF RowType, Row
  <2>7. /\ d \in [Id -> RowType] /\ d[r] = DefaultRule(p, 1) /\ d[s] = DefaultRule(p, 2)
        /\ \A i \in Id \ {r, s} : d[i] = D[i]
    BY <1>0, <1>5, <2>3, <2>6
  <2> HIDE DEF d, r, s
  <2>8. \A i \in Rule : d[i] # None => i \in {r, s}
    BY <1>4, <1>5, <2>7
  <2>9. Typed(d)
    <3>1. Fits(r, DefaultRule(p, 1)) /\ Fits(s, DefaultRule(p, 2))
      BY <1>5, <2>3, <2>5 DEF Fits
    <3> QED
      BY <1>0, <2>7, <3>1 DEF OwnInv, Typed
  <2>10. d[p] = D[p]
    BY <1>4, <1>5, <2>3, <2>7
  <2>11. Referenced(d, rows, d)
    BY <1>4, <2>5, <2>7, <2>8, <2>10 DEF Referenced, SeeIn
  <2>12. WroteRules(rows, d, k)
    BY <2>4, <2>8 DEF WroteRules
  <2>13. \A i \in Id \ Rule : d[i] = D[i]
    BY <2>3, <2>7
  <2>14. WroteClients(d, k) /\ WroteTargets(rows, d)
    BY <1>0, <1>3, <1>5, <2>13 DEF OwnInv, WroteClients, WroteTargets
  <2>15. WroteProfiles(rows, d, k)
    BY <1>5, <1>7, <2>13 DEF WroteProfiles
  <2>16. Defaulting(rows, d, k)
    <3>1. \A n \in 1 .. 2 : \E i \in Rule : d[i] = DefaultRule(p, n)
      BY <2>3, <2>7
    <3>2. SeeIn(rows, d, p) # None
      BY <1>4, <2>10 DEF SeeIn
    <3> QED
      BY <1>3, <1>4, <3>1, <3>2 DEF Defaulting
  <2>17. OwnInv(rows, d, k)
    BY <1>6, <2>9, <2>11, <2>12, <2>14, <2>15, <2>16 DEF OwnInv
  <2>18. \A i \in Id : d[i] = None \/ d[i] = draft[t][i] \/ ~Locked(t, i)
    BY <2>4, <2>7
  <2> QED
    BY <1>1, <1>3, <2>1, <2>7, <2>17, <2>18, OwnStep
<1> QED
  BY <1>8, <1>9

(* A commit makes the draft's rows the committed ones.  It changes no row  *)
(* that another transaction has drafted, and takes no row back.            *)
LEMMA CommitEffect ==
  ASSUME ProfilesInv, NEW t \in Txn, Commit(t)
  PROVE  /\ \A i \in Id : rows'[i] = SeeIn(rows, draft[t], i)
         /\ draft' = [draft EXCEPT ![t] = NoDraft] /\ run' = [run EXCEPT ![t] = Idle]
         /\ \A i \in Id : rows[i] # None => rows'[i] # None
         /\ \A u \in Txn \ {t}, i \in Id : draft[u][i] # None => rows'[i] = rows[i]
         /\ OwnInv(rows, draft[t], run[t]) /\ run[t].at = "done"
BY DEF Commit, See, SeeIn, ProfilesInv, Exclusive

LEMMA DeviceOf == \A v, x, y : v = [device |-> x, instance |-> y] => v.device = x
OBVIOUS

(* What another transaction relies on is still so after a commit.          *)
LEMMA OthersKeep ==
  ASSUME ProfilesInv, NEW t \in Txn, Commit(t), NEW u \in Txn \ {t}
  PROVE  OwnInv(rows', draft[u], run[u])
<1> DEFINE D == draft[u]
           E == draft[t]
           k == run[u]
<1>0. OwnInv(rows, D, k) /\ OwnInv(rows, E, run[t])
  BY DEF ProfilesInv
<1>1. /\ \A i \in Id : rows'[i] = SeeIn(rows, E, i)
      /\ \A i \in Id : rows[i] # None => rows'[i] # None
      /\ \A i \in Id : D[i] # None => rows'[i] = rows[i]
  BY CommitEffect
<1>2. Device \subseteq Id /\ Client \subseteq Id \ Device /\ Profile \subseteq Id
      /\ Rule \subseteq Id /\ Target \subseteq Id
  BY Tables
<1> HIDE DEF D, E, k
<1>3. \A i \in Id : SeeIn(rows, D, i) # None => SeeIn(rows', D, i) # None
  BY <1>1 DEF SeeIn
<1>4. Typed(D) /\ WroteClients(D, k) /\ Unwritten(D, k)
  BY <1>0 DEF OwnInv
<1>5. Referenced(D, rows', D)
  <2> SUFFICES ASSUME NEW r \in Rule, D[r] \notin {None, Gone}
               PROVE  SeeIn(rows', D, D[r].profile) # None
    BY DEF Referenced
  <2>1. D[r] \in RuleRow
    BY <1>2, <1>4 DEF Typed, Fits
  <2>2. D[r].profile \in Id
    BY <1>2, <2>1 DEF RuleRow
  <2> QED
    BY <1>0, <1>3, <2>2 DEF OwnInv, Referenced
<1>6. WroteProfiles(rows', D, k)
  BY <1>0, <1>1, <1>2 DEF OwnInv, WroteProfiles
<1>7. WroteRules(rows', D, k) /\ WroteTargets(rows', D)
  BY <1>0, <1>1, <1>2 DEF OwnInv, WroteRules, WroteTargets
<1>8. Requested(rows', k)
  <2>1. k.at \in {"count", "write", "insert"} /\ k.request.op \in {"update", "target.create", "rule.create"} =>
          k.request.profile \in Profile
    BY <1>0, RequestFields DEF OwnInv, Requested
  <2> QED
    BY <1>0, <1>1, <1>2, <2>1 DEF OwnInv, Requested
<1>9. Registering(rows', D, k)
  <2> SUFFICES ASSUME k.at = "upsert", k.client = None, NEW c \in Client,
                        rows'[c] = [device |-> k.device, instance |-> k.request.instance]
                 PROVE  FALSE
    BY <1>0 DEF OwnInv, Registering
  <2>2. k.device \in Device /\ D[k.device] # None /\ rows[c] # rows'[c]
    BY <1>0 DEF OwnInv, Registering
  <2>3. E[c] # None /\ E[c].device = k.device
    <3>1. rows'[c] = SeeIn(rows, E, c)
      BY <1>1, <1>2
    <3>2. E[c] # None /\ E[c] = rows'[c]
      BY <2>2, <3>1 DEF SeeIn
    <3>3. rows'[c].device = k.device
      BY DeviceOf, Zenon
    <3> QED
      BY <3>2, <3>3
  <2>4. E[k.device] # None
    BY <1>0, <2>3 DEF OwnInv, WroteClients
  <2> QED
    BY <1>2, <2>2, <2>4 DEF ProfilesInv, Exclusive, D, E
<1>10. Defaulting(rows', D, k)
  BY <1>0, <1>1, <1>2, <1>3 DEF OwnInv, Defaulting
<1> QED
  BY <1>4, <1>5, <1>6, <1>7, <1>8, <1>9, <1>10 DEF OwnInv, D, k

LEMMA CommitKeeps ==
  ASSUME ProfilesInv, NEW t \in Txn, Commit(t)
  PROVE  ProfilesInv'
<1> DEFINE E == draft[t]
<1>1. /\ \A i \in Id : rows'[i] = SeeIn(rows, E, i)
      /\ draft' = [draft EXCEPT ![t] = NoDraft] /\ run' = [run EXCEPT ![t] = Idle]
      /\ \A i \in Id : rows[i] # None => rows'[i] # None
  BY CommitEffect
<1>2. NoDraft \in [Id -> RowType] /\ Idle \in RunType
  BY DEF NoDraft, RowType, Idle, RunType, Steps
<1>3. TypeOK'
  <2>1. rows' \in [Id -> RowType]
    BY DEF Commit, See, ProfilesInv, TypeOK, RowType
  <2> QED
    BY <1>1, <1>2, <2>1 DEF ProfilesInv, TypeOK, RunType, RowType
<1>4. Exclusive'
  BY <1>1 DEF ProfilesInv, TypeOK, Exclusive, NoDraft
<1>5. Typed(rows)'
  <2>1. Typed(E) /\ Typed(rows)
    BY DEF ProfilesInv, OwnInv
  <2>2. \A i \in Id : rows'[i] # None => Fits(i, rows'[i])
    BY <1>1, <2>1 DEF Typed, SeeIn
  <2> QED
    BY <2>2 DEF Typed
<1>6. Referenced(rows, rows, NoDraft)'
  <2> SUFFICES ASSUME NEW r \in Rule, rows'[r] \notin {None, Gone}
               PROVE  SeeIn(rows', NoDraft, rows'[r].profile) # None
    BY DEF Referenced, SeeIn, NoDraft
  <2>1. r \in Id /\ Profile \subseteq Id /\ Fits(r, rows'[r])
    BY <1>5, Tables DEF Typed
  <2>2. rows'[r].profile \in Id
    BY <2>1 DEF Fits, RuleRow
  <2>3. SeeIn(rows, E, rows'[r].profile) # None
    <3>1. CASE E[r] # None
      BY <1>1, <2>1, <3>1 DEF ProfilesInv, OwnInv, Referenced, SeeIn
    <3>2. CASE E[r] = None
      <4>1. rows'[r] = rows[r]
        BY <1>1, <2>1, <3>2 DEF SeeIn
      <4>2. SeeIn(rows, NoDraft, rows[r].profile) # None
        BY <4>1 DEF ProfilesInv, Referenced
      <4> QED
        BY <2>2, <4>1, <4>2 DEF SeeIn, NoDraft
    <3> QED
      BY <3>1, <3>2
  <2>4. rows'[rows'[r].profile] # None
    BY <1>1, <2>2, <2>3
  <2> QED
    BY <2>2, <2>4 DEF SeeIn, NoDraft
<1>7. \A u \in Txn : OwnInv(rows, draft[u], run[u])'
  <2>1. draft'[t] = NoDraft /\ run'[t] = Idle
        /\ \A u \in Txn \ {t} : draft'[u] = draft[u] /\ run'[u] = run[u]
    BY <1>1 DEF ProfilesInv, TypeOK
  <2>2. OwnInv(rows', NoDraft, Idle)
    BY IdleOwn
  <2>3. \A u \in Txn : OwnInv(rows', draft'[u], run'[u])
    BY <2>1, <2>2, OthersKeep
  <2> QED
    BY <2>3
<1> QED
  BY <1>3, <1>4, <1>5, <1>6, <1>7 DEF ProfilesInv

-----------------------------------------------------------------------------
(* The invariant. *)

LEMMA InvInit == Init => ProfilesInv
<1> SUFFICES ASSUME Init PROVE ProfilesInv
  OBVIOUS
<1>1. NoDraft \in [Id -> RowType] /\ Idle \in RunType /\ \A i \in Id : NoDraft[i] = None
  BY DEF NoDraft, RowType, Idle, RunType, Steps
<1>2. TypeOK
  BY <1>1 DEF Init, TypeOK, RunType, RowType
<1>3. Exclusive
  BY <1>1 DEF Init, Exclusive
<1>4. Rule \subseteq Id
  BY DEF Id
<1>5. Typed(rows) /\ Referenced(rows, rows, NoDraft)
  BY <1>4 DEF Init, Typed, Referenced
<1>6. \A t \in Txn : OwnInv(rows, draft[t], run[t])
  BY IdleOwn DEF Init
<1> QED
  BY <1>2, <1>3, <1>5, <1>6 DEF ProfilesInv

LEMMA StatementKeeps ==
  ASSUME ProfilesInv, NEW t \in Txn, Statement(t)
  PROVE  ProfilesInv'
<1>1. CASE OutOfIds(t)
  BY <1>1, RollbackKeeps DEF Statement
<1>2. CASE ~OutOfIds(t)
  <2>1. CASE UpsertDevice(t) \/ FindClient(t) \/ WriteClient(t)
    BY <1>2, <2>1, UpsertDeviceKeeps, FindClientKeeps, WriteClientKeeps
  <2>2. CASE EnsureDefault(t) \/ EnsureRules(t) \/ SelectProfile(t) \/ CreateProfile(t)
    BY <1>2, <2>2, EnsureDefaultKeeps, EnsureRulesKeeps, SelectProfileKeeps, CreateProfileKeeps
  <2>3. CASE FindSessionClient(t) \/ FindProfile(t) \/ CountManual(t) \/ FindRow(t)
    BY <2>3, ReadsKeep
  <2>4. CASE WriteProfile(t) \/ InsertTarget(t) \/ InsertRule(t)
    BY <1>2, <2>4, WriteProfileKeeps, InsertTargetKeeps, InsertRuleKeeps
  <2>5. CASE DeleteRow(t) \/ UpdateRule(t) \/ Commit(t)
    BY <2>5, DeleteRowKeeps, UpdateRuleKeeps, CommitKeeps
  <2> QED
    BY <1>2, <2>1, <2>2, <2>3, <2>4, <2>5 DEF Statement
<1> QED
  BY <1>1, <1>2

LEMMA InvStep == ProfilesInv /\ [Next]_vars => ProfilesInv'
<1> SUFFICES ASSUME ProfilesInv, [Next]_vars PROVE ProfilesInv'
  OBVIOUS
<1>1. CASE UNCHANGED vars
  BY <1>1 DEF vars, ProfilesInv, TypeOK, Exclusive, Typed, Referenced, SeeIn, NoDraft
<1>2. ASSUME NEW t \in Txn, NEW q \in Request, Begin(t, q) PROVE ProfilesInv'
  BY <1>2, BeginKeeps
<1>3. ASSUME NEW t \in Txn, Statement(t) PROVE ProfilesInv'
  BY <1>3, StatementKeeps
<1>4. ASSUME NEW t \in Txn, Rollback(t) PROVE ProfilesInv'
  BY <1>4, RollbackKeeps
<1> QED
  BY <1>1, <1>2, <1>3, <1>4 DEF Next

LEMMA InvHolds == Spec => []ProfilesInv
BY InvInit, InvStep, PTL DEF Spec

(* Only a commit changes committed rows. *)
LEMMA OnlyCommit ==
  ASSUME ProfilesInv, Next, rows' # rows
  PROVE  \E t \in Txn : Commit(t)
<1>1. ASSUME NEW t \in Txn, NEW q \in Request, Begin(t, q) PROVE rows' = rows
  BY <1>1 DEF Begin
<1>2. ASSUME NEW t \in Txn, Rollback(t) PROVE rows' = rows
  BY <1>2 DEF Rollback
<1>3. ASSUME NEW t \in Txn, Statement(t), ~Commit(t) PROVE rows' = rows
  <2>1. CASE Rollback(t)
    BY <2>1 DEF Rollback
  <2>2. CASE ~Rollback(t)
    <3>1. CASE UpsertDevice(t) \/ FindClient(t) \/ WriteClient(t) \/ EnsureDefault(t) \/ EnsureRules(t)
      BY <2>2, <3>1 DEF UpsertDevice, FindClient, WriteClient, EnsureDefault, EnsureRules
    <3>2. CASE FindSessionClient(t) \/ SelectProfile(t) \/ CreateProfile(t) \/ FindProfile(t) \/ CountManual(t)
      BY <2>2, <3>2 DEF FindSessionClient, SelectProfile, CreateProfile, FindProfile, CountManual
    <3>3. CASE WriteProfile(t) \/ InsertTarget(t) \/ InsertRule(t) \/ FindRow(t) \/ DeleteRow(t) \/ UpdateRule(t)
      BY <2>2, <3>3 DEF WriteProfile, InsertTarget, InsertRule, FindRow, DeleteRow, UpdateRule
    <3> QED
      BY <1>3, <2>2, <3>1, <3>2, <3>3 DEF Statement
  <2> QED
    BY <2>1, <2>2
<1> QED
  BY <1>1, <1>2, <1>3 DEF Next
-----------------------------------------------------------------------------
(* Theorems. *)

(* Every reachable state has the types declared for the handlers' rows, the *)
(* open drafts and what the transactions have read.                         *)
THEOREM ProfileTypes == Spec => []TypeOK
<1>1. ProfilesInv => TypeOK
  BY DEF ProfilesInv
<1> QED
  BY <1>1, InvHolds, PTL

(* upsert_browser_client never meets the unique index: whoever inserts a   *)
(* client holds the row of its device, and whoever drafted one of the same *)
(* device holds it as well.                                                *)
THEOREM RegistrationsApart == Spec => []RegistrationsDoNotCollide
<1>1. ProfilesInv => RegistrationsDoNotCollide
  <2> SUFFICES ASSUME ProfilesInv, NEW t \in Txn, At(t, "register", "upsert"),
                      run[t].client = None, NEW c \in Client, NEW u \in Txn \cup {None},
                      NEW row, row = IF u = None THEN rows[c] ELSE draft[u][c],
                      row # None,
                      row = [device |-> run[t].device, instance |-> run[t].request.instance]
               PROVE  FALSE
    BY DEF RegistrationsDoNotCollide, Collides
  <2>1. OwnInv(rows, draft[t], run[t]) /\ Registering(rows, draft[t], run[t])
    BY DEF ProfilesInv, OwnInv
  <2>2. CASE u = None
    BY <2>1, <2>2 DEF Registering, At
  <2>3. CASE u # None
    <3>1. u \in Txn /\ row = draft[u][c] /\ row.device = run[t].device
      <4>1. row.device = run[t].device
        BY DeviceOf, Zenon
      <4> QED
        BY <2>3, <4>1
    <3>2. run[u].device = run[t].device /\ draft[u][run[u].device] # None
      BY <3>1 DEF ProfilesInv, OwnInv, WroteClients
    <3>3. run[t].device \in Device /\ draft[t][run[t].device] # None /\ draft[t][c] = None
      BY <2>1, Tables DEF Registering, At
    <3>4. run[t].device \in Id
      BY <3>3, Tables
    <3>5. t = u
      BY <3>1, <3>2, <3>3, <3>4 DEF ProfilesInv, Exclusive
    <3> QED
      BY <3>1, <3>3, <3>5
  <2> QED
    BY <2>2, <2>3
<1> QED
  BY <1>1, InvHolds, PTL

(* validate_rule_matcher holds of every stored rule, though update_rule    *)
(* validates the columns of its request and not the row it merges them     *)
(* into: a request that names one column of the matcher names both.        *)
THEOREM MatchersStayValid == Spec => []MatchersFit
<1>1. ProfilesInv => MatchersFit
  BY Tables DEF ProfilesInv, Typed, Fits, MatchersFit
<1> QED
  BY <1>1, InvHolds, PTL

(* A step from a state of the invariant that changes committed rows is the *)
(* commit of one transaction, whose draft and run satisfy theirs.          *)
LEMMA RowsChange ==
  ASSUME ProfilesInv, [Next]_vars, rows' # rows
  PROVE  \E t \in Txn : Commit(t)
BY OnlyCommit DEF vars

(* A deleted rule or target never comes back: update_rule and the deletes  *)
(* look at the newest row once more when they get its lock.                *)
THEOREM DeletionIsFinal == Spec => DeletedStaysDeleted
<1>1. ProfilesInv /\ [Next]_vars => [\A i \in Id : rows[i] = Gone => rows'[i] = Gone]_rows
  <2> SUFFICES ASSUME ProfilesInv, [Next]_vars, rows' # rows, NEW i \in Id, rows[i] = Gone
               PROVE  rows'[i] = Gone
    OBVIOUS
  <2>1. PICK t \in Txn : Commit(t)
    BY RowsChange
  <2>2. rows'[i] = SeeIn(rows, draft[t], i) /\ OwnInv(rows, draft[t], run[t])
    BY <2>1, CommitEffect
  <2>3. Fits(i, Gone) /\ Gone \notin Row
    BY Tables DEF ProfilesInv, Typed
  <2>4. i \in Rule \cup Target
    BY <2>3, Tables DEF Fits, Row
  <2> QED
    BY <2>2, <2>4, Tables DEF SeeIn, OwnInv, WroteRules, WroteTargets
<1> QED
  BY <1>1, InvHolds, PTL DEF Spec, DeletedStaysDeleted

(* update_profile and update_rule change the columns their request names   *)
(* and no others, whatever was committed since they read the row.          *)
THEOREM ColumnsFollowRequests == Spec => ColumnsChangeByRequest
<1> DEFINE
  Profiles == \A p \in Profile : rows[p] # None /\ rows'[p] # rows[p] =>
    \E t \in Txn : /\ At(t, "update", "done") /\ run[t].request.profile = p
                   /\ run[t].request.enabled = rows'[p].enabled
  Rules == \A r \in Rule : rows[r] \notin {None, Gone} /\ rows'[r] \notin {Gone, rows[r]} =>
    \E t \in Txn : /\ At(t, "rule.update", "done") /\ run[t].request.rule = r
                   /\ rows'[r] = Patched(rows[r], run[t].request.patch)
<1>1. ASSUME ProfilesInv, [Next]_vars, rows' # rows PROVE Profiles /\ Rules
  <2>1. PICK t \in Txn : Commit(t)
    BY <1>1, RowsChange
  <2>2. /\ \A i \in Id : rows'[i] = SeeIn(rows, draft[t], i)
        /\ OwnInv(rows, draft[t], run[t]) /\ run[t].at = "done"
    BY <1>1, <2>1, CommitEffect
  <2>3. Profile \subseteq Id /\ Rule \subseteq Id
    BY Tables
  <2>4. Profiles
    BY <2>2, <2>3 DEF SeeIn, OwnInv, WroteProfiles, At
  <2>5. Rules
    BY <2>2, <2>3 DEF SeeIn, OwnInv, WroteRules, At
  <2> QED
    BY <2>4, <2>5
<1>2. ProfilesInv /\ [Next]_vars => [Profiles /\ Rules]_rows
  BY <1>1
<1> QED
  BY <1>2, InvHolds, PTL DEF Spec, ColumnsChangeByRequest

(* ensure_default_profile and ensure_default_profile_rules are seen        *)
(* together: a default profile is committed with the rule that takes the   *)
(* library in and the one that leaves the vault out.                       *)
THEOREM DefaultsComplete == Spec => DefaultArrivesWithRules
<1> DEFINE Complete ==
  \A p \in Profile, t \in Txn :
    rows[p] = None /\ rows'[p] # None /\ draft[t][p] # None /\ run[t].request.op # "create" =>
      \A k \in 1 .. 2 : \E r \in Rule : rows'[r] = DefaultRule(p, k)
<1>1. ASSUME ProfilesInv, [Next]_vars, rows' # rows PROVE Complete
  <2> SUFFICES ASSUME NEW p \in Profile, NEW u \in Txn, rows[p] = None, rows'[p] # None,
                      draft[u][p] # None, run[u].request.op # "create", NEW n \in 1 .. 2
               PROVE  \E r \in Rule : rows'[r] = DefaultRule(p, n)
    OBVIOUS
  <2>1. PICK t \in Txn : Commit(t)
    BY <1>1, RowsChange
  <2>2. /\ \A i \in Id : rows'[i] = SeeIn(rows, draft[t], i)
        /\ OwnInv(rows, draft[t], run[t]) /\ run[t].at = "done"
    BY <1>1, <2>1, CommitEffect
  <2>3. Profile \subseteq Id /\ Rule \subseteq Id
    BY Tables
  <2>4. draft[t][p] # None
    BY <2>2, <2>3 DEF SeeIn
  <2>5. t = u
    BY <1>1, <2>3, <2>4 DEF ProfilesInv, Exclusive
  <2>6. run[t].profile = p
    BY <2>2, <2>4, <2>5 DEF OwnInv, WroteProfiles
  <2>7. p # None
    BY <2>3, Tables
  <2>8. PICK r \in Rule : draft[t][r] = DefaultRule(p, n)
    BY <2>2, <2>6, <2>7 DEF OwnInv, Defaulting
  <2>9. DefaultRule(p, n) # None
    BY DefaultRules, Tables DEF Row
  <2> QED
    BY <2>2, <2>3, <2>8, <2>9 DEF SeeIn
<1>2. ProfilesInv /\ [Next]_vars => [Complete]_rows
  BY <1>1
<1> QED
  BY <1>2, InvHolds, PTL DEF Spec, DefaultArrivesWithRules
-----------------------------------------------------------------------------
(* One connection that disables profiles. *)

Disables(k) == k.request.op = "update" /\ k.request.enabled = FALSE
Enabled(R, q) == R[q] \notin {None, Gone} /\ R[q].enabled

(* Who disables a profile and has passed the count, or found the profile   *)
(* disabled already, can rely on another enabled one until it commits.     *)
OtherEnabled(t) ==
  run[t].at # "idle" /\ Disables(run[t]) =>
    /\ t \in Disabler
    /\ run[t].at \notin {"profile", "count"} =>
         \E q \in Profile : q # run[t].request.profile /\ Enabled(rows, q)

KeepInv ==
  /\ (\E p \in Profile : rows[p] # None) => HasManualProfile
  /\ \A t \in Txn : OtherEnabled(t)

(* A commit takes an enabled profile away only by a request to disable it. *)
LEMMA CommitTakes ==
  ASSUME ProfilesInv, NEW t \in Txn, Commit(t), NEW q \in Profile, Enabled(rows, q)
  PROVE  Enabled(rows', q) \/ (Disables(run[t]) /\ run[t].request.profile = q)
<1> DEFINE D == draft[t]
<1>1. /\ rows'[q] = SeeIn(rows, D, q) /\ OwnInv(rows, D, run[t]) /\ run[t].at = "done"
      /\ q \in Id
  BY CommitEffect, Tables
<1>2. CASE D[q] = None
  BY <1>1, <1>2 DEF SeeIn, Enabled
<1>3. CASE D[q] # None
  <2>1. D[q] \in ProfileRow /\ rows'[q] = D[q]
    BY <1>1, <1>3 DEF OwnInv, Typed, Fits, SeeIn
  <2>2. D[q] \notin {None, Gone} /\ D[q].enabled \in BOOLEAN
    BY <2>1, Tables DEF ProfileRow, Row
  <2>3. /\ run[t].request.op = "update" /\ run[t].request.profile = q
        /\ D[q] = rows[q] \/ D[q].enabled = run[t].request.enabled
    BY <1>1, <1>3 DEF OwnInv, WroteProfiles, Enabled
  <2> QED
    BY <2>1, <2>2, <2>3 DEF Enabled, Disables
<1> QED
  BY <1>2, <1>3

(* A statement that neither commits nor reads profiles to disable one.     *)
LEMMA OtherStatements ==
  ASSUME ProfilesInv, NEW t \in Txn, Statement(t),
         ~Commit(t), ~Rollback(t), ~FindProfile(t), ~CountManual(t)
  PROVE  /\ rows' = rows /\ run[t].at \notin {"idle", "profile", "count"}
         /\ run'[t].request = run[t].request
         /\ \A u \in Txn \ {t} : run'[u] = run[u]
<1>1. run \in [Txn -> RunType]
  BY DEF ProfilesInv, TypeOK, RunType
<1>2. \A step : Goto(t, step) =>
        run'[t].request = run[t].request /\ \A u \in Txn \ {t} : run'[u] = run[u]
  BY <1>1 DEF Goto, RunType
<1>3. CASE UpsertDevice(t)
  BY <1>1, <1>3 DEF UpsertDevice, At, RunType
<1>4. CASE FindClient(t)
  BY <1>1, <1>4 DEF FindClient, At, RunType
<1>5. CASE WriteClient(t) \/ FindSessionClient(t) \/ SelectProfile(t) \/ CreateProfile(t)
  BY <1>2, <1>5 DEF WriteClient, FindSessionClient, SelectProfile, CreateProfile, At
<1>6. CASE EnsureDefault(t)
  BY <1>1, <1>6 DEF EnsureDefault, RunType
<1>7. CASE EnsureRules(t)
  BY <1>2, <1>7 DEF EnsureRules
<1>8. CASE WriteProfile(t) \/ InsertTarget(t) \/ InsertRule(t)
  BY <1>2, <1>8 DEF WriteProfile, InsertTarget, InsertRule, At
<1>9. CASE FindRow(t) \/ DeleteRow(t) \/ UpdateRule(t)
  BY <1>2, <1>9 DEF FindRow, DeleteRow, UpdateRule, At
<1> QED
  BY <1>3, <1>4, <1>5, <1>6, <1>7, <1>8, <1>9 DEF Statement

(* What others rely on outlives a step that leaves the rows as they are.   *)
LEMMA QuietStep ==
  ASSUME KeepInv, NEW t \in Txn, rows' = rows, \A u \in Txn \ {t} : run'[u] = run[u],
         OtherEnabled(t)'
  PROVE  KeepInv'
<1>1. ((\E p \in Profile : rows[p] # None) => HasManualProfile)'
  BY DEF KeepInv, HasManualProfile
<1>2. ASSUME NEW u \in Txn \ {t} PROVE OtherEnabled(u)'
  BY DEF KeepInv, OtherEnabled, Disables, Enabled
<1> QED
  BY <1>1, <1>2 DEF KeepInv

LEMMA KeepStep ==
  ASSUME \A t, u \in Disabler : t = u, ProfilesInv, KeepInv, [Next]_vars
  PROVE  KeepInv'
<1>0. run \in [Txn -> RunType]
  BY DEF ProfilesInv, TypeOK, RunType
<1>1. CASE UNCHANGED vars
  BY <1>1 DEF vars, KeepInv, HasManualProfile, OtherEnabled, Disables, Enabled
<1>2. ASSUME NEW t \in Txn, NEW q \in Request, Begin(t, q) PROVE KeepInv'
  <2>1. /\ rows' = rows /\ \A u \in Txn \ {t} : run'[u] = run[u]
        /\ run'[t].request = q /\ run'[t].at = FirstStep(q.op)
    BY <1>0, <1>2 DEF Begin, Idle
  <2>2. Disables(run'[t]) => t \in Disabler /\ run'[t].at = "profile"
    BY <1>2, <2>1 DEF Begin, Disables, FirstStep
  <2>3. OtherEnabled(t)'
    BY <2>2 DEF OtherEnabled, Disables
  <2> QED
    BY <2>1, <2>3, QuietStep
<1>3. ASSUME NEW t \in Txn, Rollback(t) PROVE KeepInv'
  <2>1. rows' = rows /\ run'[t].at = "idle" /\ \A u \in Txn \ {t} : run'[u] = run[u]
    BY <1>0, <1>3 DEF Rollback, Idle
  <2> QED
    BY <2>1, QuietStep DEF OtherEnabled
<1>4. ASSUME NEW t \in Txn, FindProfile(t), ~Rollback(t) PROVE KeepInv'
  <2> DEFINE p == run[t].request.profile
  <2>1. /\ rows' = rows /\ run'[t].request = run[t].request /\ \A u \in Txn \ {t} : run'[u] = run[u]
        /\ run[t].at = "profile" /\ Exists(t, p)
        /\ Disables(run[t]) => run'[t].at = IF See(t, p).enabled THEN "count" ELSE "write"
    BY <1>0, <1>4 DEF FindProfile, Goto, RunType, Disables
  <2>2. ASSUME Disables(run[t]), run'[t].at = "write"
        PROVE  \E q \in Profile : q # p /\ Enabled(rows, q)
    <3>1. p \in Profile /\ p \in Id /\ See(t, p) = rows[p]
      BY <2>1, <2>2, AtRest, RequestFields, Tables DEF Disables
    <3>2. rows[p] # None /\ ~rows[p].enabled
      BY <2>1, <2>2, <3>1 DEF Exists
    <3>3. PICK q \in Profile : Enabled(rows, q)
      BY <3>1, <3>2 DEF KeepInv, HasManualProfile, Enabled
    <3> QED
      BY <3>2, <3>3 DEF Enabled
  <2>3. OtherEnabled(t)'
    BY <2>1, <2>2 DEF KeepInv, OtherEnabled, Disables, Enabled
  <2> QED
    BY <2>1, <2>3, QuietStep
<1>5. ASSUME NEW t \in Txn, CountManual(t), ~Rollback(t) PROVE KeepInv'
  <2>1. /\ rows' = rows /\ run'[t].request = run[t].request /\ \A u \in Txn \ {t} : run'[u] = run[u]
        /\ run[t].at = "count" /\ \E p, q \in EnabledManual(t) : p # q
    BY <1>0, <1>5 DEF CountManual, Goto, RunType, At
  <2>2. \A q \in EnabledManual(t) : q \in Profile /\ Enabled(rows, q)
    BY <2>1, AtRest, Tables DEF EnabledManual, Exists, Enabled
  <2>3. \E q \in Profile : q # run[t].request.profile /\ Enabled(rows, q)
    BY <2>1, <2>2
  <2>4. OtherEnabled(t)'
    BY <2>1, <2>3 DEF KeepInv, OtherEnabled, Disables, Enabled
  <2> QED
    BY <2>1, <2>4, QuietStep
<1>6. ASSUME NEW t \in Txn, Commit(t) PROVE KeepInv'
  <2>1. /\ \A i \in Id : rows'[i] = SeeIn(rows, draft[t], i)
        /\ \A i \in Id : rows[i] # None => rows'[i] # None
        /\ OwnInv(rows, draft[t], run[t]) /\ run[t].at = "done"
        /\ run'[t].at = "idle" /\ \A u \in Txn \ {t} : run'[u] = run[u]
    BY <1>0, <1>6, CommitEffect DEF Idle
  <2>2. Profile \subseteq Id
    BY Tables
  <2>3. ASSUME NEW p \in Profile, rows'[p] # None
        PROVE  \E q \in Profile : Enabled(rows', q)
    <3>1. CASE \E q \in Profile : rows[q] # None
      <4>1. PICK q \in Profile :
              /\ Enabled(rows, q)
              /\ Disables(run[t]) => q # run[t].request.profile
        BY <2>1, <3>1 DEF KeepInv, HasManualProfile, OtherEnabled, Enabled
      <4>2. Enabled(rows', q) \/ (Disables(run[t]) /\ run[t].request.profile = q)
        BY <1>6, <4>1, CommitTakes
      <4> QED
        BY <4>1, <4>2
    <3>2. CASE \A q \in Profile : rows[q] = None
      <4>1. draft[t][p] # None /\ rows'[p] = draft[t][p]
        BY <2>1, <2>2, <2>3, <3>2 DEF SeeIn
      <4>2. draft[t][p] \in ProfileRow /\ draft[t][p].enabled = TRUE
        BY <2>1, <2>2, <3>2, <4>1 DEF OwnInv, Typed, Fits, WroteProfiles
      <4> QED
        BY <4>1, <4>2, Tables DEF Enabled, Row
    <3> QED
      BY <3>1, <3>2
  <2>4. ((\E p \in Profile : rows[p] # None) => HasManualProfile)'
    BY <2>3 DEF HasManualProfile, Enabled
  <2>5. ASSUME NEW u \in Txn \ {t} PROVE OtherEnabled(u)'
    <3> SUFFICES ASSUME run[u].at # "idle", Disables(run[u])
                 PROVE  /\ u \in Disabler
                        /\ run[u].at \notin {"profile", "count"} =>
                             \E q \in Profile : q # run[u].request.profile /\ Enabled(rows', q)
      BY <2>1 DEF OtherEnabled, Disables, Enabled
    <3>1. u \in Disabler /\ ~Disables(run[t])
      BY <2>1 DEF KeepInv, OtherEnabled
    <3>2. ASSUME run[u].at \notin {"profile", "count"}
          PROVE  \E q \in Profile : q # run[u].request.profile /\ Enabled(rows', q)
      <4>1. PICK q \in Profile : q # run[u].request.profile /\ Enabled(rows, q)
        BY <3>2 DEF KeepInv, OtherEnabled
      <4>2. Enabled(rows', q) \/ (Disables(run[t]) /\ run[t].request.profile = q)
        BY <1>6, <4>1, CommitTakes
      <4> QED
        BY <3>1, <4>1, <4>2
    <3> QED
      BY <3>1, <3>2
  <2>6. OtherEnabled(t)'
    BY <2>1 DEF OtherEnabled
  <2> QED
    BY <2>4, <2>5, <2>6 DEF KeepInv
<1>7. ASSUME NEW t \in Txn, Statement(t) PROVE KeepInv'
  <2>1. CASE ~Commit(t) /\ ~Rollback(t) /\ ~FindProfile(t) /\ ~CountManual(t)
    <3>1. /\ rows' = rows /\ run[t].at \notin {"idle", "profile", "count"}
          /\ run'[t].request = run[t].request /\ \A u \in Txn \ {t} : run'[u] = run[u]
      BY <1>7, <2>1, OtherStatements
    <3>2. OtherEnabled(t)'
      BY <3>1 DEF KeepInv, OtherEnabled, Disables, Enabled
    <3> QED
      BY <3>1, <3>2, QuietStep
  <2> QED
    BY <1>3, <1>4, <1>5, <1>6, <2>1
<1> QED
  BY <1>1, <1>2, <1>3, <1>7 DEF Next

(* Once a user has an enabled manual profile there always is one, if one   *)
(* connection disables: between count_enabled_manual_profiles and its      *)
(* commit nobody else takes an enabled profile away.  With two such        *)
(* connections each counts the profile the other one disables.             *)
THEOREM ManualProfileStays ==
  ASSUME \A t, u \in Disabler : t = u
  PROVE  Spec => ManualProfileRemains
<1>1. Init => KeepInv
  BY Tables DEF Init, KeepInv, OtherEnabled, Idle
<1>2. ProfilesInv /\ KeepInv /\ [Next]_vars => KeepInv'
  BY KeepStep
<1>3. KeepInv /\ ProfilesInv /\ [Next]_vars /\ KeepInv' => [HasManualProfile => HasManualProfile']_rows
  <2> SUFFICES ASSUME ProfilesInv, KeepInv', [Next]_vars, rows' # rows, HasManualProfile
               PROVE  HasManualProfile'
    OBVIOUS
  <2>1. PICK t \in Txn : Commit(t)
    BY RowsChange
  <2>2. \E p \in Profile : rows'[p] # None
    BY <2>1, CommitEffect, Tables DEF HasManualProfile
  <2> QED
    BY <2>2 DEF KeepInv
<1> QED
  BY <1>1, <1>2, <1>3, InvHolds, PTL DEF Spec, ManualProfileRemains
=============================================================================
