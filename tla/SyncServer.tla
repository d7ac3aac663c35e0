------------------------------ MODULE SyncServer ------------------------------
(***************************************************************************)
(* The sync service of packages/amagi-sync on top of the bookmark store:   *)
(* preview, apply and cursor ack, each a READ COMMITTED transaction of its *)
(* own, next to dashboard requests.  An apply runs the accepted mutations  *)
(* of its preview through the operations of BookmarkLibrary in one         *)
(* transaction.  All requests are about one library of one owner, and all  *)
(* libraries are normal ones: the service cannot create a vault.           *)
(*                                                                         *)
(* clients is what the client side knows, as far as the server's promises  *)
(* depend on it: the positions it has reached, any of which a late, a      *)
(* repeated or a restarted request of its may carry, and the clocks of all *)
(* revisions that were handed to it or that it made.                       *)
(***************************************************************************)
EXTENDS BookmarkLibrary, Sequences

CONSTANTS
  SyncLibrary,    \* the library
  Root, Shared,   \* its root, and a folder that exists from the start
  Client,         \* registered browser clients
  Preview,        \* preview ids
  ExternalId,     \* node ids in a client's browser
  MutationLists,  \* the localMutations a preview request may carry
  DashboardOps,   \* the operations of dashboard requests
  OpsLimit        \* server ops in a preview: 500

MutationOp == {"create", "update", "move", "delete", "restore"}

(* serverNodeId, clientExternalId, parentServerNodeId and                  *)
(* parentClientExternalId of a mutation may each be absent.                *)
Mutation == [op : MutationOp, target : Node \cup {None}, ext : ExternalId \cup {None},
             parent : Node \cup {None}, parentExt : ExternalId \cup {None},
             type : NodeType, title : Title \cup {None}, url : Url \cup {None}]

ASSUME SyncAssumption ==
  /\ SyncLibrary \in Library /\ Root \in Node /\ Shared \in Node /\ Root # Shared
  /\ MutationLists \subseteq Seq(Mutation)
  /\ DashboardOps \subseteq OpType \ {"library.create"}
  /\ OpsLimit \in Nat \ {0} /\ Title # {} /\ None \notin Nat

VARIABLES
  previews,  \* sync_previews: None, or the stored preview
  mappings,  \* node_client_mappings: [client, ext, node]
  cursors,   \* sync_cursors: the acknowledged clock, None before the first ack
  calls,     \* the sync request a connection is serving, None for a dashboard one
  clients    \* per client: [at |-> positions it reached, got |-> clocks it knows]

syncVars == <<previews, mappings, cursors, calls, clients>>
allVars  == <<vars, syncVars>>

Clocks(S) == {r.clock : r \in S}
Head0 == 2

Folder(p) == [library |-> SyncLibrary, type |-> "folder", parent |-> p,
              title |-> CHOOSE x \in Title : TRUE, url |-> None, deleted |-> FALSE]

(* The library and one folder in it were made in the dashboard; some       *)
(* clients have synced that far, the others have not synced yet.           *)
SyncInit ==
  /\ nodes = [n \in Node |-> IF n = Root THEN Folder(None)
                             ELSE IF n = Shared THEN Folder(Root) ELSE None]
  /\ heads = [l \in Library |-> IF l = SyncLibrary THEN Head0 ELSE 0]
  /\ revisions =
       {[library |-> SyncLibrary, clock |-> 1, op |-> "library.create",
         node |-> Root, row |-> Folder(None)],
        [library |-> SyncLibrary, clock |-> 2, op |-> "node.create",
         node |-> Shared, row |-> Folder(Root)]}
  /\ phase = [t \in Txn |-> "idle"]
  /\ request = [t \in Txn |-> None]
  /\ draft = [t \in Txn |-> NoDraft]
  /\ claim = [t \in Txn |-> NoClaim]
  /\ pending = [t \in Txn |-> {}]
  /\ previews = [p \in Preview |-> None]
  /\ mappings = {}
  /\ calls = [t \in Txn |-> None]
  /\ \E synced \in SUBSET Client :
       /\ cursors = [c \in Client |-> IF c \in synced THEN Head0 ELSE None]
       /\ clients = [c \in Client |-> IF c \in synced
                       THEN [at |-> {Head0}, got |-> 1 .. Head0]
                       ELSE [at |-> {0}, got |-> {}]]

Free(t)       == phase[t] = "idle" /\ calls[t] = None
Serves(t, k)  == calls[t] # None /\ calls[t].call = k
Calling(t, r) == calls' = [calls EXCEPT ![t] = r]

-----------------------------------------------------------------------------
(* Preview. *)

Mapped(c, e) == {m.node : m \in {k \in mappings : k.client = c /\ k.ext = e}}

(* resolve_node_id: the server id wins, unless the mapping contradicts it. *)
Resolved(c, n, e)   == IF n # None THEN {n} ELSE Mapped(c, e)
Mismatched(c, n, e) == n # None /\ Mapped(c, e) # {} /\ n \notin Mapped(c, e)

InLibrary(n)  == nodes[n] # None /\ nodes[n].library = SyncLibrary
LiveFolder(n) == InLibrary(n) /\ nodes[n].type = "folder" /\ ~nodes[n].deleted

TargetOf(c, m) == Resolved(c, m.target, m.ext)
ParentOf(c, m) == Resolved(c, m.parent, m.parentExt)

TargetFits(c, m) ==
  ~Mismatched(c, m.target, m.ext) /\ \A n \in TargetOf(c, m) : InLibrary(n)
ParentFits(c, m) ==
  ~Mismatched(c, m.parent, m.parentExt) /\ \A n \in ParentOf(c, m) : LiveFolder(n)

(* accept_local_mutation ends in PreviewStale, a mapping_missing conflict. *)
Unmapped(c, m) ==
  \/ m.op = "create" /\ ParentOf(c, m) = {}
  \/ m.op # "create" /\ TargetOf(c, m) = {}
  \/ m.op = "move" /\ TargetFits(c, m) /\ ParentOf(c, m) = {}

(* accept_local_mutation succeeds; otherwise the whole preview is refused. *)
Acceptable(c, m) ==
  /\ m.op \in {"create", "move"} => ParentFits(c, m)
  /\ m.op = "create" => /\ UrlFits(m.type, m.url)
                        /\ m.ext # None /\ Mapped(c, m.ext) = {}
  /\ m.op # "create" => TargetFits(c, m)
  /\ m.op = "update" /\ m.url # None =>
       \A n \in TargetOf(c, m) : nodes[n].type = "bookmark"

Accepted(c, m) ==
  [m EXCEPT !.target = IF m.op = "create" THEN None ELSE CHOOSE n \in TargetOf(c, m) : TRUE,
            !.parent = IF m.op \in {"create", "move"}
                       THEN CHOOSE n \in ParentOf(c, m) : TRUE ELSE None]

(* The loop over the local mutations: what does not resolve is a conflict,  *)
(* the rest is accepted in its order.                                      *)
AcceptedOf(c, list) ==
  LET upTo[i \in 0 .. Len(list)] ==
        IF i = 0 THEN <<>>
        ELSE IF Unmapped(c, list[i]) THEN upTo[i - 1]
        ELSE Append(upTo[i - 1], Accepted(c, list[i]))
  IN upTo[Len(list)]

(* list_server_ops: the first OpsLimit revisions after a clock. *)
ServerOps(from) ==
  LET rest == {r \in LogOf(revisions, SyncLibrary) : r.clock > from} IN
  {r \in rest : Cardinality({q \in rest : q.clock < r.clock}) < OpsLimit}

(* The head is read in one statement ... *)
StartPreview(t, c, base, list) ==
  /\ Free(t)
  /\ Calling(t, [call |-> "preview", client |-> c, base |-> base,
                 to |-> heads[SyncLibrary], todo |-> list])
  /\ UNCHANGED <<vars, previews, mappings, cursors, clients>>

(* A UUID that names no preview yet. *)
FreshPreview(p) ==
  /\ previews[p] = None
  /\ \A u \in Txn : Serves(u, "apply") => calls[u].preview # p

(* ... the server ops and the mutations' targets in later ones. *)
FinishPreview(t, p) ==
  /\ Serves(t, "preview")
  /\ FreshPreview(p)
  /\ LET k     == calls[t]
         stale == k.base < k.to /\ k.todo # <<>>
         bad   == {i \in DOMAIN k.todo : Unmapped(k.client, k.todo[i])}
     IN /\ stale \/ \A i \in DOMAIN k.todo \ bad : Acceptable(k.client, k.todo[i])
        /\ previews' = [previews EXCEPT ![p] =
             [client |-> k.client, base |-> k.base, to |-> k.to, late |-> FALSE,
              status |-> IF stale \/ bad # {} THEN "conflicted" ELSE "pending",
              ops |-> ServerOps(k.base),
              accepted |-> IF stale THEN <<>> ELSE AcceptedOf(k.client, k.todo),
              result |-> None, logged |-> {}]]
  /\ Calling(t, None)
  /\ UNCHANGED <<vars, mappings, cursors, clients>>

(* Mutant of Expire: the expired mark is committed. *)
ExpirePersists(p) ==
  /\ previews[p] # None /\ ~previews[p].late
  /\ previews' = [previews EXCEPT ![p].late = TRUE, ![p].status = "expired"]
  /\ UNCHANGED <<vars, mappings, cursors, calls, clients>>

(* now() passes expires_at.  An apply that finds this marks the preview     *)
(* expired in a transaction it then rolls back: nothing changes.           *)
Expire(p) ==
  /\ previews[p] # None /\ ~previews[p].late
  /\ previews' = [previews EXCEPT ![p].late = TRUE]
  /\ UNCHANGED <<vars, mappings, cursors, calls, clients>>

-----------------------------------------------------------------------------
(* Apply. *)

(* The client takes an apply response: it has the server ops, its own      *)
(* mutations need no delivery, and it goes on from the new clock.          *)
Deliver(p, result) ==
  clients' = [clients EXCEPT ![previews[p].client] =
    [at |-> @.at \cup {result.newClock}, got |-> @.got \cup Clocks(previews[p].ops) \cup result.own]]

ReplayApply(t, p) ==
  /\ Free(t)
  /\ previews[p] # None /\ previews[p].status = "applied"
  /\ Deliver(p, previews[p].result)
  /\ UNCHANGED <<vars, previews, mappings, cursors, calls>>

(* Mutant of StartApply: the head may have moved on since the preview. *)
StartApplyAnyHead(t, p) ==
  /\ Free(t)
  /\ previews[p] # None /\ previews[p].status = "pending" /\ ~previews[p].late
  /\ Calling(t, [call |-> "apply", client |-> previews[p].client, preview |-> p,
                 todo |-> previews[p].accepted, made |-> {}])
  /\ UNCHANGED <<vars, previews, mappings, cursors, clients>>

(* Status, expiry and head are checked before any lock is taken, and the    *)
(* stored mutations are parsed.                                             *)
StartApply(t, p) ==
  /\ Free(t)
  /\ previews[p] # None /\ previews[p].status = "pending" /\ ~previews[p].late
  /\ heads[SyncLibrary] = previews[p].to
  /\ previews[p].accepted \in Seq(Mutation)
  /\ Calling(t, [call |-> "apply", client |-> previews[p].client, preview |-> p,
                 todo |-> previews[p].accepted, made |-> {}])
  /\ UNCHANGED <<vars, previews, mappings, cursors, clients>>

(* ensure_node_in_library, of an id that is there and is a UUID. *)
InSyncLibrary(t, n) ==
  n \in Node /\ Visible(t, n) # None /\ Visible(t, n).library = SyncLibrary

(* The next accepted mutation: its checks, then those of the bookmark      *)
(* operation it becomes.  Those of a create include                        *)
(* ensure_live_folder_in_library, which comes before them.                 *)
ApplyMutation(t) ==
  /\ Serves(t, "apply") /\ calls[t].todo # <<>>
  /\ phase[t] \in {"idle", "done"}
  /\ LET m == calls[t].todo[1] IN
     /\ m.op # "create" => InSyncLibrary(t, m.target)
     /\ m.op \in {"create", "move"} => InSyncLibrary(t, m.parent)
     /\ \/ /\ m.op = "create"
           /\ ~\E k \in mappings \cup calls[t].made :
                k.client = calls[t].client /\ k.ext = m.ext
           /\ \E n \in Node, title \in Title :
                /\ m.title # None => title = m.title
                /\ CheckCreate(t, SyncLibrary, n, m.parent, m.type, title, m.url)
        \/ m.op = "update" /\ CheckUpdate(t, m.target, m.title, m.url)
        \/ m.op = "move" /\ CheckMove(t, m.target, m.parent)
        \/ m.op = "delete" /\ CheckSetDeleted(t, m.target, "node.delete")
        \/ m.op = "restore" /\ CheckSetDeleted(t, m.target, "node.restore")
  /\ UNCHANGED syncVars

ApplyWrite(t) ==
  /\ Serves(t, "apply")
  /\ WriteNode(t)
  /\ UNCHANGED syncVars

(* Mutants of ApplyLog: a taken external id is not refused; no mapping is inserted. *)
ApplyLogRemaps(t) ==
  /\ Serves(t, "apply")
  /\ LogRevision(t)
  /\ LET k == calls[t]
         m == k.todo[1]
     IN Calling(t, [k EXCEPT !.todo = Tail(@), !.made = IF m.op = "create"
          THEN @ \cup {[client |-> k.client, ext |-> m.ext, node |-> request[t].node]} ELSE @])
  /\ UNCHANGED <<previews, mappings, cursors, clients>>
ApplyLogUnmapped(t) ==
  /\ Serves(t, "apply")
  /\ LogRevision(t)
  /\ Calling(t, [calls[t] EXCEPT !.todo = Tail(@)])
  /\ UNCHANGED <<previews, mappings, cursors, clients>>

(* The revision and, for a create, the mapping, which must still be free:  *)
(* with the head locked no other apply can take it any more.               *)
ApplyLog(t) ==
  /\ Serves(t, "apply") /\ calls[t].todo # <<>>
  /\ LogRevision(t)
  /\ LET k   == calls[t]
         m   == k.todo[1]
         new == [client |-> k.client, ext |-> m.ext, node |-> request[t].node]
     IN /\ m.op = "create" =>
             ~\E o \in mappings : o.client = new.client /\ o.ext = new.ext
        /\ Calling(t, [k EXCEPT !.todo = Tail(@),
                                !.made = IF m.op = "create" THEN @ \cup {new} ELSE @])
  /\ UNCHANGED <<previews, mappings, cursors, clients>>

(* The head is read again for newClock, the preview is marked applied with *)
(* the response to replay, and all of it is committed.  The response may   *)
(* not reach the client.                                                   *)
FinishApply(t) ==
  /\ Serves(t, "apply") /\ calls[t].todo = <<>>
  /\ \/ Commit(t)
     \/ phase[t] = "idle" /\ UNCHANGED vars
  /\ LET p      == calls[t].preview
         result == [newClock |-> VisibleHead(t, SyncLibrary), own |-> Clocks(pending[t])]
     IN /\ previews' = [previews EXCEPT ![p].status = "applied", ![p].result = result,
                                        ![p].logged = @ \cup Clocks(pending[t])]
        /\ Deliver(p, result) \/ UNCHANGED clients
  /\ mappings' = mappings \cup calls[t].made
  /\ Calling(t, None)
  /\ UNCHANGED cursors

-----------------------------------------------------------------------------
(* Ack. *)

(* ack_cursor reads the head and the cursor row without locking it ... *)
StartAck(t, c, clock) ==
  /\ Free(t)
  /\ clock <= heads[SyncLibrary]
  /\ Calling(t, [call |-> "ack", client |-> c, clock |-> clock, read |-> cursors[c]])
  /\ UNCHANGED <<vars, previews, mappings, cursors, clients>>

(* Mutant of FinishAck: the latest request wins. *)
FinishAckAlways(t) ==
  /\ Serves(t, "ack")
  /\ cursors' = [cursors EXCEPT ![calls[t].client] = calls[t].clock]
  /\ Calling(t, None)
  /\ UNCHANGED <<vars, previews, mappings, clients>>

(* ... and then keeps, updates or inserts it.  A second insert of the row  *)
(* violates its primary key.                                               *)
FinishAck(t) ==
  /\ Serves(t, "ack")
  /\ LET k == calls[t] IN
     \/ /\ k.read # None /\ k.clock < k.read
        /\ UNCHANGED cursors
     \/ /\ \/ k.read # None /\ k.clock >= k.read
           \/ k.read = None /\ cursors[k.client] = None
        /\ cursors' = [cursors EXCEPT ![k.client] = k.clock]
  /\ Calling(t, None)
  /\ UNCHANGED <<vars, previews, mappings, clients>>

-----------------------------------------------------------------------------
(* A sync request that fails, at any point, leaves nothing behind. *)
FailCall(t) ==
  /\ calls[t] # None
  /\ Rollback(t) \/ (phase[t] = "idle" /\ UNCHANGED vars)
  /\ Calling(t, None)
  /\ UNCHANGED <<previews, mappings, cursors, clients>>

Dashboard(t) ==
  /\ calls[t] = None
  /\ \/ phase[t] = "idle" /\ Check(t) /\ request'[t].op \in DashboardOps
     \/ WriteNode(t) \/ LogRevision(t) \/ Commit(t) \/ Rollback(t)
  /\ UNCHANGED syncVars

SyncNext ==
  \/ \E p \in Preview : Expire(p)
  \/ \E t \in Txn :
       \/ Dashboard(t)
       \/ \E c \in Client, list \in MutationLists :
             \E base \in clients[c].at : StartPreview(t, c, base, list)
       \/ \E p \in Preview : FinishPreview(t, p) \/ StartApply(t, p) \/ ReplayApply(t, p)
       \/ ApplyMutation(t) \/ ApplyWrite(t) \/ ApplyLog(t) \/ FinishApply(t)
       \/ \E c \in Client : \E clock \in clients[c].at \ {0} : StartAck(t, c, clock)
       \/ FinishAck(t)
       \/ FailCall(t)

SyncSpec == SyncInit /\ [][SyncNext]_allVars

-----------------------------------------------------------------------------
(* Properties. *)

Stored == {p \in Preview : previews[p] # None}
Applied == {p \in Stored : previews[p].status = "applied"}

SyncTypeOK ==
  /\ TypeOK
  /\ \A p \in Stored :
       /\ previews[p].status \in {"pending", "conflicted", "applied"}
       /\ previews[p].client \in Client
       /\ previews[p].ops \subseteq Revision
       /\ \A i \in DOMAIN previews[p].accepted : previews[p].accepted[i] \in Mutation
  /\ mappings \subseteq [client : Client, ext : ExternalId, node : Node]
  /\ cursors \in [Client -> Nat \cup {None}]
  /\ clients \in [Client -> [at : SUBSET Nat, got : SUBSET Nat]]

(* An applied preview has logged each of its accepted mutations exactly     *)
(* once, and any other preview none: retries and parallel applies of one   *)
(* preview make no duplicates, a failed apply leaves nothing.              *)
AppliedOnce == \A p \in Stored :
  Cardinality(previews[p].logged) = IF p \in Applied THEN Len(previews[p].accepted) ELSE 0

(* Every node an apply created is bound to the browser node it came from,  *)
(* and a client's bindings are one to one: no apply leaves a node that the *)
(* client would create again.                                              *)
CreatesAreMapped ==
  /\ \A j, k \in mappings : j.client = k.client => (j.ext = k.ext <=> j.node = k.node)
  /\ \A p \in Stored, r \in LogOf(revisions, SyncLibrary) :
       r.clock \in previews[p].logged /\ r.op = "node.create" =>
         \E k \in mappings : k.client = previews[p].client /\ k.node = r.node

(* The server ops of an applied preview are those between its base and its *)
(* to clock, though the head was read before the ops and neither is locked: *)
(* a preview that caught a later revision cannot be applied any more.      *)
PreviewOpsAreExact == \A p \in Applied :
  LET due == {r \in LogOf(revisions, SyncLibrary) :
                previews[p].base < r.clock /\ r.clock <= previews[p].to}
  IN /\ previews[p].ops \subseteq due
     /\ Cardinality(due) <= OpsLimit => previews[p].ops = due

(* An apply is refused when the head is no longer where the preview saw it: *)
(* the revisions of an apply directly follow the to clock of its preview.  *)
ApplyFollowsPreview == \A p \in Applied :
  previews[p].logged = previews[p].to + 1 .. previews[p].to + Cardinality(previews[p].logged)

(* The cursor is an applied position: a client never acknowledges a clock  *)
(* below which there is a revision it was neither handed nor made.         *)
NoSkippedRevision == \A c \in Client :
  cursors[c] # None => 1 .. cursors[c] \subseteq clients[c].got

(* A cursor never goes back, whatever acks arrive late or twice. *)
CursorsOnlyAdvance ==
  [][\A c \in Client : cursors[c] # None =>
        cursors'[c] # None /\ cursors'[c] >= cursors[c]]_cursors
=============================================================================
