--------------------------- MODULE BookmarkLibrary ---------------------------
(***************************************************************************)
(* The bookmark store of packages/amagi-bookmarks: library heads, bookmark *)
(* nodes and the revision log, changed by concurrent Postgres transactions *)
(* at READ COMMITTED.  A dashboard request is a transaction of one         *)
(* operation; a sync apply is a transaction of several on one library.     *)
(*                                                                         *)
(* An operation is three steps, because the code takes its locks one after *)
(* the other and keeps them to the end of the transaction:                 *)
(*   Check*       reads and validates, without locking anything;           *)
(*   WriteNode    INSERT or UPDATE of the node row; takes the row lock;    *)
(*   LogRevision  UPDATE library_heads ... + 1 RETURNING, then INSERT of   *)
(*                the revision; takes the row lock of the library's head.  *)
(* What a transaction wrote is in draft, claim and pending until Commit    *)
(* publishes it; the locks it holds are read off those.                    *)
(***************************************************************************)
EXTENDS Naturals, FiniteSets

CONSTANTS
  Library,    \* library ids
  Node,       \* node ids (fresh UUIDs: each is inserted at most once)
  Txn,        \* database connections, each running one transaction at a time
  NodeType,   \* the node types clients create
  Title,      \* titles
  Url,        \* normalized urls of bookmarks
  Operation,  \* the operations clients request, among OpType
  BatchSize,  \* bound: operations in one transaction (1 for a dashboard request)
  MaxHops,    \* is_descendant's limit of 128 hops, at least |Node| in a model
  MaxClock,   \* bound: no operation starts on a library whose clock is this
  None        \* no parent, no url, no row, no request

OpType == {"library.create", "node.create", "node.update", "node.move",
           "node.delete", "node.restore"}

Row == [library : Library, type : NodeType \cup {"folder"},
        parent : Node \cup {None}, title : Title,
        url : Url \cup {None}, deleted : BOOLEAN]

(* The columns the UPDATE of each operation sets. *)
WithContent(row, title, url) == [row EXCEPT !.title = title, !.url = url]
WithParent(row, p)           == [row EXCEPT !.parent = p]
WithDeleted(row, flag)       == [row EXCEPT !.deleted = flag]

Revision == [library : Library, clock : Nat, op : OpType, node : Node, row : Row]

Request == [op : OpType, node : Node, row : Row]

ASSUME ConstantsAssumption ==
  /\ Operation \subseteq OpType
  /\ NodeType \subseteq {"folder", "bookmark", "separator"}
  /\ BatchSize \in Nat /\ MaxHops \in Nat /\ MaxClock \in Nat
  /\ None \notin Library \cup Node \cup Txn \cup Title \cup Url
  /\ None \notin Row /\ None \notin Request

VARIABLES
  nodes,      \* bookmark_nodes: the committed row of a node, None before its insert
  heads,      \* library_heads: the committed clock, 0 before the library exists
  revisions,  \* node_revisions: the committed revisions
  phase,      \* where a transaction is in its current operation
  request,    \* the checked operation: the row its statement will write
  draft,      \* uncommitted row versions of a transaction: the row locks it holds
  claim,      \* uncommitted head clocks of a transaction (0: none): its head locks
  pending     \* uncommitted revisions of a transaction

tables == <<nodes, heads, revisions>>
vars   == <<nodes, heads, revisions, phase, request, draft, claim, pending>>

NoDraft == [n \in Node |-> None]
NoClaim == [l \in Library |-> 0]

Init ==
  /\ nodes = [n \in Node |-> None]
  /\ heads = [l \in Library |-> 0]
  /\ revisions = {}
  /\ phase = [t \in Txn |-> "idle"]
  /\ request = [t \in Txn |-> None]
  /\ draft = [t \in Txn |-> NoDraft]
  /\ claim = [t \in Txn |-> NoClaim]
  /\ pending = [t \in Txn |-> {}]

-----------------------------------------------------------------------------
(* What a statement of transaction t sees: its own writes over the tables. *)

Visible(t, n)     == IF draft[t][n] # None THEN draft[t][n] ELSE nodes[n]
VisibleHead(t, l) == IF claim[t][l] > 0 THEN claim[t][l] ELSE heads[l]

RowLocked(t, n)  == \E u \in Txn \ {t} : draft[u][n] # None
HeadLocked(t, l) == \E u \in Txn \ {t} : claim[u][l] > 0

(* A UUID nobody has used: neither inserted nor about to be. *)
Fresh(n) ==
  /\ nodes[n] = None
  /\ \A u \in Txn : draft[u][n] = None /\ (request[u] # None => request[u].node # n)

(* t can run an operation on library l: it is a new transaction, or an     *)
(* apply that has finished one operation and has another for its library.  *)
MayRun(t, op, l) ==
  /\ op \in Operation
  /\ VisibleHead(t, l) < MaxClock
  /\ \/ phase[t] = "idle"
     \/ /\ phase[t] = "done"
        /\ op # "library.create"
        /\ Cardinality(pending[t]) < BatchSize
        /\ \A r \in pending[t] : r.library = l /\ r.op # "library.create"

(* owned_node and ensure_not_root: the node exists and has a parent. *)
OwnedChild(t, n) == Visible(t, n) # None /\ Visible(t, n).parent # None

(* Mutants of FolderParent: without the library filter, without the is_deleted test. *)
FolderParentAnywhere(t, l, p) ==
  Visible(t, p) # None /\ Visible(t, p).type = "folder" /\ ~Visible(t, p).deleted
FolderParentDeleted(t, l, p) ==
  LET row == Visible(t, p) IN row # None /\ row.library = l /\ row.type = "folder"

(* folder_parent: a live folder of the same library. *)
FolderParent(t, l, p) ==
  LET row == Visible(t, p) IN
  row # None /\ row.library = l /\ row.type = "folder" /\ ~row.deleted

(* The ancestors of p, p itself first, None above the root. *)
Ancestors(t, p) ==
  LET up[i \in 0 .. MaxHops] ==
        IF i = 0 THEN p
        ELSE IF up[i - 1] = None THEN None ELSE Visible(t, up[i - 1]).parent
  IN up

(* Mutant: without the test parent.id == node_id. *)
MoveOntoItself(t, n, p) ==
  LET up == Ancestors(t, p) IN
  \E i \in 1 .. MaxHops : up[i] = None /\ \A j \in 1 .. i - 1 : up[j] # n

(* parent.id == node_id or is_descendant, which is also an error when the  *)
(* walk meets no root in MaxHops.                                          *)
MoveKeepsTree(t, n, p) ==
  LET up == Ancestors(t, p) IN
  \E i \in 1 .. MaxHops : up[i] = None /\ \A j \in 0 .. i - 1 : up[j] # n

(* normalized_url: exactly the bookmarks have a url. *)
UrlFits(type, url) == (type = "bookmark") <=> (url # None)

Ask(t, op, n, row) ==
  /\ phase' = [phase EXCEPT ![t] = "write"]
  /\ request' = [request EXCEPT ![t] = [op |-> op, node |-> n, row |-> row]]
  /\ UNCHANGED <<tables, draft, claim, pending>>

-----------------------------------------------------------------------------
(* The checks of each operation. *)

CheckCreateLibrary(t, l, n, title) ==
  /\ MayRun(t, "library.create", l)
  /\ heads[l] = 0
  /\ \A u \in Txn : request[u] # None => request[u].row.library # l
  /\ \A u \in Txn : claim[u][l] = 0
  /\ Fresh(n)
  /\ Ask(t, "library.create", n,
         [library |-> l, type |-> "folder", parent |-> None, title |-> title,
          url |-> None, deleted |-> FALSE])

CheckCreate(t, l, n, p, type, title, url) ==
  /\ MayRun(t, "node.create", l)
  /\ heads[l] > 0
  /\ FolderParent(t, l, p)
  /\ UrlFits(type, url)
  /\ Fresh(n)
  /\ Ask(t, "node.create", n,
         [library |-> l, type |-> type, parent |-> p, title |-> title,
          url |-> url, deleted |-> FALSE])

(* Mutant of CheckUpdate: an absent field sets its column to NULL. *)
UpdateClears(t, n, title, url) ==
  /\ OwnedChild(t, n)
  /\ MayRun(t, "node.update", Visible(t, n).library)
  /\ url # None => Visible(t, n).type = "bookmark"
  /\ Ask(t, "node.update", n, WithContent(Visible(t, n), title, url))

(* title or url is None when the request leaves the column alone; both     *)
(* columns are written all the same, from the row read here.               *)
CheckUpdate(t, n, title, url) ==
  /\ OwnedChild(t, n)
  /\ MayRun(t, "node.update", Visible(t, n).library)
  /\ url # None => Visible(t, n).type = "bookmark"
  /\ Ask(t, "node.update", n,
         WithContent(Visible(t, n),
                     IF title = None THEN Visible(t, n).title ELSE title,
                     IF url = None THEN Visible(t, n).url ELSE url))

CheckMove(t, n, p) ==
  /\ OwnedChild(t, n)
  /\ MayRun(t, "node.move", Visible(t, n).library)
  /\ FolderParent(t, Visible(t, n).library, p)
  /\ MoveKeepsTree(t, n, p)
  /\ Ask(t, "node.move", n, WithParent(Visible(t, n), p))

(* delete and restore, whatever the node's present state. *)
CheckSetDeleted(t, n, op) ==
  /\ OwnedChild(t, n)
  /\ MayRun(t, op, Visible(t, n).library)
  /\ Ask(t, op, n, WithDeleted(Visible(t, n), op = "node.delete"))

-----------------------------------------------------------------------------
(* The columns the statement of an operation sets, on the newest row.      *)
Written(req, row) ==
  CASE req.op \in {"library.create", "node.create"} -> req.row
    [] req.op = "node.update" -> WithContent(row, req.row.title, req.row.url)
    [] req.op = "node.move" -> WithParent(row, req.row.parent)
    [] OTHER -> WithDeleted(row, req.row.deleted)

(* Mutant of WriteNode: a write that changes nothing is not logged. *)
WriteSkipsLog(t) ==
  /\ phase[t] = "write"
  /\ ~RowLocked(t, request[t].node)
  /\ LET n   == request[t].node
         new == Written(request[t], Visible(t, n))
     IN /\ draft' = [draft EXCEPT ![t] = [@ EXCEPT ![n] = new]]
        /\ phase' = [phase EXCEPT ![t] = IF new = Visible(t, n) THEN "done" ELSE "log"]
  /\ UNCHANGED <<tables, request, claim, pending>>

(* INSERT or UPDATE ... RETURNING: waits for the row lock, then writes over *)
(* the row version that is newest at that moment.                           *)
WriteNode(t) ==
  /\ phase[t] = "write"
  /\ ~RowLocked(t, request[t].node)
  /\ LET n == request[t].node IN
     draft' = [draft EXCEPT ![t] = [@ EXCEPT ![n] = Written(request[t], Visible(t, n))]]
  /\ phase' = [phase EXCEPT ![t] = "log"]
  /\ UNCHANGED <<tables, request, claim, pending>>

(* Mutants of LogRevision: the payload is the row the operation asked for, *)
(* not the row RETURNING gave; the clock follows the committed head.       *)
LogAs(t, c, row) ==
  /\ phase[t] = "log"
  /\ ~HeadLocked(t, row.library)
  /\ claim' = [claim EXCEPT ![t] = [@ EXCEPT ![row.library] = c]]
  /\ pending' = [pending EXCEPT ![t] = @ \cup
        {[library |-> row.library, clock |-> c, op |-> request[t].op,
          node |-> request[t].node, row |-> row]}]
  /\ request' = [request EXCEPT ![t] = None]
  /\ phase' = [phase EXCEPT ![t] = "done"]
  /\ UNCHANGED <<tables, draft>>
LogRequestedRow(t) ==
  phase[t] = "log" /\ LogAs(t, VisibleHead(t, request[t].row.library) + 1, request[t].row)
LogAfterCommitted(t) ==
  /\ phase[t] = "log"
  /\ LET row == draft[t][request[t].node] IN LogAs(t, heads[row.library] + 1, row)

(* Mutant of LogRevision: the head is advanced on a connection of its own. *)
LogBeforeCommit(t) ==
  /\ phase[t] = "log"
  /\ LET row == draft[t][request[t].node] IN
     /\ heads' = [heads EXCEPT ![row.library] = @ + 1]
     /\ pending' = [pending EXCEPT ![t] = @ \cup
           {[library |-> row.library, clock |-> heads'[row.library], op |-> request[t].op,
             node |-> request[t].node, row |-> row]}]
  /\ request' = [request EXCEPT ![t] = None]
  /\ phase' = [phase EXCEPT ![t] = "done"]
  /\ UNCHANGED <<nodes, revisions, draft, claim>>

(* append_revision: advance the head, waiting for its lock, and insert the *)
(* revision with the clock it returned and the row as just written.        *)
LogRevision(t) ==
  /\ phase[t] = "log"
  /\ LET n   == request[t].node
         row == draft[t][n]
         c   == VisibleHead(t, row.library) + 1
     IN /\ ~HeadLocked(t, row.library)
        /\ claim' = [claim EXCEPT ![t] = [@ EXCEPT ![row.library] = c]]
        /\ pending' = [pending EXCEPT ![t] = @ \cup
              {[library |-> row.library, clock |-> c, op |-> request[t].op,
                node |-> n, row |-> row]}]
  /\ request' = [request EXCEPT ![t] = None]
  /\ phase' = [phase EXCEPT ![t] = "done"]
  /\ UNCHANGED <<tables, draft>>

(* Mutant of Release: the connection goes back to the pool with its transaction open. *)
ReleaseNothing(t) ==
  /\ phase' = [phase EXCEPT ![t] = "idle"]
  /\ request' = [request EXCEPT ![t] = None]
  /\ UNCHANGED <<draft, claim, pending>>

(* The end of a transaction: its locks are released. *)
Release(t) ==
  /\ phase' = [phase EXCEPT ![t] = "idle"]
  /\ request' = [request EXCEPT ![t] = None]
  /\ draft' = [draft EXCEPT ![t] = NoDraft]
  /\ claim' = [claim EXCEPT ![t] = NoClaim]
  /\ pending' = [pending EXCEPT ![t] = {}]

Commit(t) ==
  /\ phase[t] = "done"
  /\ nodes' = [n \in Node |-> Visible(t, n)]
  /\ heads' = [l \in Library |-> VisibleHead(t, l)]
  /\ revisions' = revisions \cup pending[t]
  /\ Release(t)

(* Mutants of Rollback: the head or the rows were written outside the transaction. *)
RollbackKeepsHead(t) ==
  /\ phase[t] # "idle"
  /\ heads' = [l \in Library |-> VisibleHead(t, l)]
  /\ UNCHANGED <<nodes, revisions>>
  /\ Release(t)
RollbackKeepsRows(t) ==
  /\ phase[t] # "idle"
  /\ nodes' = [n \in Node |-> Visible(t, n)]
  /\ UNCHANGED <<heads, revisions>>
  /\ Release(t)

(* Everything that ends a transaction without committing: a failed check of *)
(* this or a later operation, a database error, the client going away, the *)
(* server stopping.                                                        *)
Rollback(t) ==
  /\ phase[t] # "idle"
  /\ UNCHANGED tables
  /\ Release(t)

(* t waits for a lock u holds. *)
WaitsFor(t, u) ==
  \/ phase[t] = "write" /\ draft[u][request[t].node] # None
  \/ phase[t] = "log" /\ claim[u][draft[t][request[t].node].library] > 0

(* Postgres's deadlock detector: one of some transactions that wait for each *)
(* other in a ring gets an error, which the service turns into a rollback.   *)
DeadlockVictim(t) ==
  /\ \E ring \in SUBSET Txn :
       /\ t \in ring
       /\ \A u \in ring : /\ \E w \in ring \ {u} : WaitsFor(u, w)
                          /\ \E w \in ring \ {u} : WaitsFor(w, u)
  /\ Rollback(t)

Check(t) ==
  \/ \E l \in Library, n \in Node, title \in Title : CheckCreateLibrary(t, l, n, title)
  \/ \E l \in Library, n, p \in Node, type \in NodeType, title \in Title,
        url \in Url \cup {None} : CheckCreate(t, l, n, p, type, title, url)
  \/ \E n \in Node, title \in Title \cup {None}, url \in Url \cup {None} :
        CheckUpdate(t, n, title, url)
  \/ \E n, p \in Node : CheckMove(t, n, p)
  \/ \E n \in Node, op \in {"node.delete", "node.restore"} : CheckSetDeleted(t, n, op)

Next == \E t \in Txn :
  Check(t) \/ WriteNode(t) \/ LogRevision(t) \/ Commit(t) \/ Rollback(t)

Spec == Init /\ [][Next]_vars

(* A request that was admitted runs on: its statements execute, a lock it  *)
(* waits for is granted in turn, the deadlock detector runs.               *)
FairSpec ==
  /\ Spec
  /\ \A t \in Txn : /\ SF_vars(WriteNode(t)) /\ SF_vars(LogRevision(t))
                    /\ WF_vars(Commit(t)) /\ WF_vars(DeadlockVictim(t))
-----------------------------------------------------------------------------
(* Properties. *)

TypeOK ==
  /\ nodes \in [Node -> Row \cup {None}]
  /\ heads \in [Library -> Nat]
  /\ revisions \subseteq Revision
  /\ phase \in [Txn -> {"idle", "write", "log", "done"}]
  /\ request \in [Txn -> Request \cup {None}]
  /\ draft \in [Txn -> [Node -> Row \cup {None}]]
  /\ claim \in [Txn -> [Library -> Nat]]
  /\ pending \in [Txn -> SUBSET Revision]

LogOf(S, l) == {r \in S : r.library = l}

(* The committed revisions of a library carry the clocks 1 to its head, each *)
(* exactly once, whatever transactions interleave, fail or deadlock: the     *)
(* clock is taken from the head row inside the transaction that commits it.  *)
GapFreeClocks == \A l \in Library :
  /\ {r.clock : r \in LogOf(revisions, l)} = 1 .. heads[l]
  /\ \A r, s \in LogOf(revisions, l) : r.clock = s.clock => r = s

(* Whoever has seen the head of a library at c has, below c, seen all there *)
(* will ever be: a commit never adds a revision at or below a head that was *)
(* readable before it, never drops one, and never takes a head back.        *)
NoLateRevision ==
  [][/\ revisions \subseteq revisions'
     /\ \A r \in revisions' \ revisions : r.clock > heads[r.library]
     /\ \A l \in Library : heads'[l] >= heads[l]]_tables

(* The tree is what its log says: a node's row is the payload of the latest *)
(* revision of the node, even when requests for it ran at the same time.    *)
RowIsLastRevision == \A n \in Node : nodes[n] # None =>
  \E r \in revisions :
    /\ r.node = n /\ r.row = nodes[n] /\ r.library = nodes[n].library
    /\ \A s \in revisions : s.node = n => s.clock <= r.clock

(* Every library has one root for ever, and every other node hangs below a  *)
(* folder of its own library: no interleaving of creates and moves takes a  *)
(* node across libraries or under a bookmark.                               *)
TreeShape ==
  /\ \A l \in Library : heads[l] > 0 =>
       \E root \in Node : \A n \in Node :
         nodes[n] # None /\ nodes[n].library = l => (nodes[n].parent = None <=> n = root)
  /\ \A n \in Node : nodes[n] # None /\ nodes[n].parent # None =>
       LET up == nodes[nodes[n].parent] IN
       up # None /\ up.library = nodes[n].library /\ up.type = "folder"

(* Moving a folder never puts it below itself: from every node the parents  *)
(* lead to a root.  The check of a move reads the chain without a lock.     *)
MoveDoesNotCreateCycles == \A n \in Node : nodes[n] # None =>
  \A S \in SUBSET {m \in Node : nodes[m] # None} :
    n \in S => \E m \in S : nodes[m].parent \notin S

(* A node is created under, or moved to, a folder that is not deleted at    *)
(* that point of the library's history.                                     *)
PlacedUnderLiveFolder == \A r \in revisions :
  r.op \in {"node.create", "node.move"} =>
    \E s \in revisions :
      /\ s.node = r.row.parent /\ s.clock < r.clock /\ ~s.row.deleted
      /\ \A q \in revisions :
           q.node = s.node /\ q.clock < r.clock => q.clock <= s.clock

(* Seen from outside, a commit is one append of a numbered batch to the log *)
(* and the replay of that batch on the tree; nothing else is ever visible. *)
Log == INSTANCE RevisionLog
ImplementsRevisionLog == Log!LogSpec

(* Every admitted request ends, by commit or rollback: two transactions that *)
(* take node rows and the head in opposite orders do not wait for ever.      *)
RequestsEnd == \A t \in Txn : phase[t] = "write" ~> phase[t] \in {"done", "idle"}
-----------------------------------------------------------------------------
(* What makes the properties inductive. *)

Creates == {"library.create", "node.create"}

(* A transaction between its check and its write has a request, and the row *)
(* it updates exists; between its write and its log it holds that row.      *)
OperationInv == \A t \in Txn :
  /\ phase[t] \in {"write", "log"} => request[t] \in Request
  /\ phase[t] = "write" /\ request[t].op \notin Creates =>
       Visible(t, request[t].node) # None
  /\ phase[t] = "log" => draft[t][request[t].node] # None

(* The head of a library is locked by one transaction at most, and what     *)
(* that transaction has logged continues the committed log without a gap:   *)
(* clocks handed out by an open transaction are nobody else's.              *)
HeadLockInv ==
  /\ \A t, u \in Txn, l \in Library : claim[t][l] > 0 /\ claim[u][l] > 0 => t = u
  /\ \A t \in Txn, l \in Library :
       /\ claim[t][l] > 0 => claim[t][l] > heads[l]
       /\ {r.clock : r \in LogOf(pending[t], l)} = heads[l] + 1 .. claim[t][l]
       /\ \A r, s \in LogOf(pending[t], l) : r.clock = s.clock => r = s

ClockInv == OperationInv /\ HeadLockInv /\ GapFreeClocks

(* The draft of a transaction is what its own revisions say: a row version  *)
(* that is not yet logged belongs to the operation in progress, and every  *)
(* other one is the payload of the last revision it has for that node.     *)
DraftInv == \A t \in Txn :
  /\ phase[t] = "write" /\ request[t].op \in Creates => draft[t][request[t].node] = None
  /\ \A r \in pending[t] :
       draft[t][r.node] # None /\ draft[t][r.node].library = r.library
  /\ \A n \in Node :
       draft[t][n] # None /\ ~(phase[t] = "log" /\ request[t].node = n) =>
         \E r \in pending[t] :
           /\ r.node = n /\ r.row = draft[t][n]
           /\ \A s \in pending[t] : s.node = n => s.clock <= r.clock

(* Two transactions never hold versions of one row, the node a create is    *)
(* about to insert is nobody else's, and a node stays in its library.      *)
RowLockInv ==
  /\ \A t, u \in Txn, n \in Node : draft[t][n] # None /\ draft[u][n] # None => t = u
  /\ \A t \in Txn : phase[t] = "write" /\ request[t].op \in Creates =>
       LET n == request[t].node IN
       /\ nodes[n] = None
       /\ \A u \in Txn : draft[u][n] = None
       /\ \A u \in Txn \ {t} : request[u] # None => request[u].node # n
  /\ \A t \in Txn, n \in Node : draft[t][n] # None /\ nodes[n] # None =>
       draft[t][n].library = nodes[n].library
  /\ \A r \in revisions : nodes[r.node] # None /\ nodes[r.node].library = r.library
=============================================================================
