-------------------------- MODULE LibraryTree_proofs --------------------------
(***************************************************************************)
(* The shape of the tree of a library, for every choice of the constants:  *)
(* one root, folders above, and, where transactions do not overlap, no     *)
(* cycles and no node placed under a deleted folder.                       *)
(***************************************************************************)
EXTENDS BookmarkLibrary_proofs, WellFoundedInduction

-----------------------------------------------------------------------------
(* The invariants of the store. *)
LogInv ==
  /\ TypeOK /\ OperationInv /\ Exclusive /\ Claims /\ Committed
  /\ DraftInv /\ RowLockInv /\ RowIsLastRevision

LEMMA StoreInit == Init => LogInv
BY TypeInit, ClockInit, DraftInit, RowLockInit DEF LogInv

LEMMA LogInvNext == LogInv /\ [Next]_vars => LogInv'
BY TypeNext, ClockNext, DraftNext, RowLockNext, LastRevisionNext DEF LogInv

(* A row changes only when the transaction that holds it commits. *)
LEMMA NodesStep ==
  ASSUME LogInv, [Next]_vars, NEW n \in Node
  PROVE  \/ nodes'[n] = nodes[n]
         \/ \E u \in Txn : /\ draft[u][n] # None /\ nodes'[n] = draft[u][n]
                           /\ draft'[u] = NoDraft
<1>1. CASE UNCHANGED tables
  BY <1>1 DEF tables
<1>2. CASE ~UNCHANGED tables
  <2>1. PICK u \in Txn : Commit(u)
    BY <1>2, OnlyCommitsShow DEF LogInv
  <2>2. nodes'[n] = Visible(u, n) /\ draft'[u] = NoDraft
    BY <2>1 DEF Commit, Release, LogInv, TypeOK
  <2> QED
    BY <2>1, <2>2 DEF Visible
<1> QED
  BY <1>1, <1>2

(* A node stays, in its library, and nobody else commits a row t has.      *)
LEMMA NodesKept ==
  ASSUME LogInv, [Next]_vars, NEW n \in Node
  PROVE  /\ nodes[n] # None => nodes'[n] # None /\ nodes'[n].library = nodes[n].library
         /\ \A t \in Txn : draft[t][n] # None /\ draft'[t] = draft[t] => nodes'[n] = nodes[n]
<1>1. \A u \in Txn : draft[u][n] # None /\ nodes[n] # None => draft[u][n].library = nodes[n].library
  BY RowLockInvParts DEF LogInv, SameLibrary
<1>2. \A t, u \in Txn : draft[t][n] # None /\ draft[u][n] # None => t = u
  BY RowLockInvParts DEF LogInv, RowExclusive
<1> QED
  BY <1>1, <1>2, NodesStep DEF NoDraft

(* A library with a node has a head. *)
LEMMA NodesHaveHeads ==
  ASSUME LogInv, NEW n \in Node, nodes[n] # None
  PROVE  nodes[n].library \in Library /\ heads[nodes[n].library] > 0
<1>1. PICK r \in revisions : r.node = n /\ r.library = nodes[n].library
  BY DEF LogInv, RowIsLastRevision
<1>2. r.library \in Library /\ r.clock \in Nat /\ heads[r.library] \in Nat
  BY DEF LogInv, TypeOK, Revision
<1>3. 0 < r.clock /\ r.clock <= heads[r.library]
  BY <1>2 DEF LogInv, Committed, Numbered
<1> QED
  BY <1>1, <1>2, <1>3

(* Who has claimed a head has written a row of the library. *)
LEMMA ClaimsHaveDrafts ==
  ASSUME LogInv, NEW t \in Txn, NEW l \in Library, claim[t][l] > 0
  PROVE  \E n \in Node : draft[t][n] # None /\ draft[t][n].library = l
<1>1. claim[t][l] \in Nat /\ heads[l] \in Nat /\ heads[l] < claim[t][l]
  BY DEF LogInv, TypeOK, Claims
<1>2. PICK r \in pending[t] : r.library = l /\ r.clock = claim[t][l]
  BY <1>1 DEF LogInv, Claims, Numbered
<1>3. r.node \in Node
  BY DEF LogInv, TypeOK, Revision
<1>4. draft[t][r.node] # None /\ draft[t][r.node].library = l
  BY <1>2, DraftInvParts DEF LogInv, LoggedIsDrafted
<1> QED
  BY <1>3, <1>4

(* A row that is drafted in a library is logged, with a claim on its head,  *)
(* unless it is that of the operation in progress.                         *)
LEMMA DraftsHaveClaims ==
  ASSUME LogInv, NEW t \in Txn, NEW n \in Node, draft[t][n] # None,
         ~(phase[t] = "log" /\ request[t].node = n)
  PROVE  /\ claim[t][draft[t][n].library] > 0
         /\ \E r \in pending[t] : r.node = n /\ r.row = draft[t][n]
<1>1. PICK r \in pending[t] : r.node = n /\ r.row = draft[t][n]
  BY DraftInvParts DEF LogInv, DraftedIsLogged, LastLogged
<1>2. r.library = draft[t][n].library
  BY <1>1, DraftInvParts DEF LogInv, LoggedIsDrafted
<1>3. r.library \in Library /\ r.clock \in Nat /\ heads[r.library] \in Nat /\ claim[t][r.library] \in Nat
  BY DEF LogInv, TypeOK, Revision
<1>4. heads[r.library] < r.clock /\ r.clock <= claim[t][r.library]
  BY <1>3 DEF LogInv, Claims, Numbered
<1> QED
  BY <1>1, <1>2, <1>3, <1>4
-----------------------------------------------------------------------------
(* What makes TreeShape inductive: the shape as open transactions see it.  *)

(* A folder of library l, as t sees it. *)
FolderSeen(t, l, p) ==
  /\ p \in Node /\ Visible(t, p) # None
  /\ Visible(t, p).library = l /\ Visible(t, p).type = "folder"

(* Between check and write: the check has found the node and the parent,   *)
(* and neither can leave the library, be a root or become something else.  *)
Asked(t) == phase[t] = "write" =>
  LET q == request[t]
      v == Visible(t, q.node)
  IN /\ q.op = "library.create" => q.row.parent = None /\ heads[q.row.library] = 0
     /\ q.op # "library.create" => heads[q.row.library] > 0
     /\ q.op \in {"node.create", "node.move"} => FolderSeen(t, q.row.library, q.row.parent)
     /\ q.op \notin Creates => v.parent # None /\ v.library = q.row.library

(* Roots are written and logged by library.create only. *)
NamedRoot(t) ==
  /\ phase[t] = "log" =>
       LET v == draft[t][request[t].node] IN
       /\ v.library = request[t].row.library
       /\ v.parent = None <=> request[t].op = "library.create"
  /\ \A r \in pending[t] : r.row.parent = None <=> r.op = "library.create"

Drafted(t) == \A n \in Node : draft[t][n] # None =>
  LET v == draft[t][n] IN
  /\ v.parent = None <=> heads[v.library] = 0
  /\ v.parent # None => FolderSeen(t, v.library, v.parent)
  /\ nodes[n] # None => nodes[n].parent # None /\ nodes[n].type = v.type

(* A library that is not there yet is the business of one operation only.  *)
Engaged(t, n, l) ==
  \/ draft[t][n] # None /\ draft[t][n].library = l
  \/ phase[t] = "write" /\ request[t].node = n /\ request[t].row.library = l

OneFounder == \A l \in Library : heads[l] = 0 =>
  \A t, u \in Txn, m, n \in Node : Engaged(t, m, l) /\ Engaged(u, n, l) => t = u /\ m = n

BelowFolders == \A n \in Node : nodes[n] # None /\ nodes[n].parent # None =>
  LET up == nodes[nodes[n].parent] IN
  up # None /\ up.library = nodes[n].library /\ up.type = "folder"

OneRoot ==
  /\ \A m, n \in Node : nodes[m] # None /\ nodes[n] # None /\ nodes[m].library = nodes[n].library
       /\ nodes[m].parent = None /\ nodes[n].parent = None => m = n
  /\ \A l \in Library : heads[l] > 0 =>
       \E n \in Node : nodes[n] # None /\ nodes[n].library = l /\ nodes[n].parent = None

ShapeInv ==
  /\ OneFounder /\ BelowFolders /\ OneRoot
  /\ \A t \in Txn : Asked(t) /\ NamedRoot(t) /\ Drafted(t)

LEMMA ShapeInit == Init => ShapeInv
BY DEF Init, ShapeInv, OneFounder, BelowFolders, OneRoot, Asked, NamedRoot, Drafted, Engaged, NoDraft

LEMMA ShapeIsTreeShape ==
  ASSUME ShapeInv
  PROVE  TreeShape
<1>1. ASSUME NEW l \in Library, heads[l] > 0
      PROVE  \E root \in Node : \A n \in Node :
               nodes[n] # None /\ nodes[n].library = l => (nodes[n].parent = None <=> n = root)
  <2>1. PICK root \in Node : nodes[root] # None /\ nodes[root].library = l /\ nodes[root].parent = None
    BY <1>1 DEF ShapeInv, OneRoot
  <2>2. \A n \in Node : nodes[n] # None /\ nodes[n].library = l => (nodes[n].parent = None <=> n = root)
    BY <2>1 DEF ShapeInv, OneRoot
  <2> QED
    BY <2>2
<1> QED
  BY <1>1 DEF ShapeInv, BelowFolders, TreeShape

(* What other transactions may do to the rows u sees. *)
LEMMA RowsKeepShape ==
  ASSUME LogInv, ShapeInv, [Next]_vars, NEW n \in Node, nodes[n] # None
  PROVE  /\ nodes'[n] # None /\ nodes'[n].library = nodes[n].library
         /\ nodes'[n].type = nodes[n].type
         /\ nodes'[n].parent = None <=> nodes[n].parent = None
<1>1. nodes'[n] # None /\ nodes'[n].library = nodes[n].library
  BY NodesKept
<1>2. CASE nodes'[n] = nodes[n]
  BY <1>1, <1>2
<1>3. CASE nodes'[n] # nodes[n]
  <2>1. PICK u \in Txn : draft[u][n] # None /\ nodes'[n] = draft[u][n]
    BY <1>3, NodesStep
  <2>2. /\ nodes[n].parent # None /\ nodes[n].type = draft[u][n].type
        /\ draft[u][n].parent = None <=> heads[draft[u][n].library] = 0
    BY <2>1 DEF ShapeInv, Drafted
  <2>3. heads[nodes[n].library] > 0
    BY NodesHaveHeads
  <2>4. heads[nodes[n].library] \in Nat
    BY NodesHaveHeads DEF LogInv, TypeOK
  <2> QED
    BY <1>1, <2>1, <2>2, <2>3, <2>4
<1> QED
  BY <1>2, <1>3

LEMMA SeenIsKept ==
  ASSUME LogInv, ShapeInv, [Next]_vars, NEW u \in Txn, draft'[u] = draft[u],
         NEW n \in Node, Visible(u, n) # None
  PROVE  /\ Visible(u, n)' # None /\ Visible(u, n)'.library = Visible(u, n).library
         /\ Visible(u, n)'.type = Visible(u, n).type
         /\ Visible(u, n)'.parent = None <=> Visible(u, n).parent = None
BY RowsKeepShape DEF Visible

(* A head leaves 0 only by the commit of its founder. *)
LEMMA HeadsStep ==
  ASSUME LogInv, [Next]_vars, NEW l \in Library
  PROVE  /\ heads[l] \in Nat /\ heads'[l] \in Nat /\ heads'[l] >= heads[l]
         /\ heads'[l] = heads[l] \/
              \E t \in Txn : /\ Commit(t)
                             /\ \E n \in Node : draft[t][n] # None /\ draft[t][n].library = l
<1>1. heads[l] \in Nat
  BY DEF LogInv, TypeOK
<1>2. CASE UNCHANGED tables
  BY <1>1, <1>2 DEF tables
<1>3. CASE ~UNCHANGED tables
  <2>1. PICK t \in Txn : Commit(t)
    BY <1>3, OnlyCommitsShow DEF LogInv
  <2>2. heads'[l] = VisibleHead(t, l)
    BY <2>1 DEF Commit
  <2>3. CASE claim[t][l] > 0
    BY <1>1, <2>1, <2>2, <2>3, ClaimsHaveDrafts DEF VisibleHead, LogInv, TypeOK, Claims
  <2>4. CASE ~(claim[t][l] > 0)
    BY <1>1, <2>2, <2>4 DEF VisibleHead
  <2> QED
    BY <2>3, <2>4
<1> QED
  BY <1>2, <1>3

(* A transaction that takes no step keeps its part. *)
LEMMA ShapeFrame ==
  ASSUME LogInv, ShapeInv, [Next]_vars, NEW u \in Txn,
         phase'[u] = phase[u], request'[u] = request[u], draft'[u] = draft[u],
         pending'[u] = pending[u]
  PROVE  Asked(u)' /\ NamedRoot(u)' /\ Drafted(u)'
<1>0. phase[u] = "write" => /\ request[u] \in Request /\ request[u].node \in Node
                            /\ request[u].row \in Row /\ request[u].row.library \in Library
  BY DEF LogInv, OperationInv, Request, Row
<1>1. ASSUME NEW l \in Library, NEW n \in Node, Engaged(u, n, l), heads[l] = 0
      PROVE  heads'[l] = 0
  <2>1. CASE heads'[l] = heads[l]
    BY <1>1, <2>1
  <2>2. ASSUME NEW t \in Txn, Commit(t), NEW m \in Node, draft[t][m] # None, draft[t][m].library = l
        PROVE  FALSE
    <3>1. t = u
      BY <1>1, <2>2 DEF ShapeInv, OneFounder, Engaged
    <3>2. draft'[u] = NoDraft
      BY <2>2, <3>1 DEF Commit, Release, LogInv, TypeOK
    <3> QED
      BY <2>2, <3>1, <3>2 DEF NoDraft
  <2> QED
    BY <2>1, <2>2, HeadsStep
<1>2. \A l \in Library : heads[l] \in Nat /\ heads'[l] \in Nat /\ heads'[l] >= heads[l]
  BY HeadsStep
<1>3. \A l, p : FolderSeen(u, l, p) => FolderSeen(u, l, p)'
  BY SeenIsKept DEF FolderSeen
<1>4. Asked(u)'
  <2> SUFFICES ASSUME phase[u] = "write"
               PROVE  Asked(u)'
    BY DEF Asked
  <2> DEFINE q == request[u]
  <2>1. /\ q.op = "library.create" => q.row.parent = None /\ heads[q.row.library] = 0
        /\ q.op # "library.create" => heads[q.row.library] > 0
        /\ q.op \in {"node.create", "node.move"} => FolderSeen(u, q.row.library, q.row.parent)
        /\ q.op \notin Creates => /\ Visible(u, q.node).parent # None
                                  /\ Visible(u, q.node).library = q.row.library
    BY DEF ShapeInv, Asked
  <2>2. Engaged(u, q.node, q.row.library)
    BY DEF Engaged
  <2>3. q.op \notin Creates => Visible(u, q.node) # None
    BY DEF LogInv, OperationInv
  <2>4. q.op \notin Creates => /\ Visible(u, q.node)'.parent # None
                               /\ Visible(u, q.node)'.library = q.row.library
    BY <1>0, <2>1, <2>3, SeenIsKept
  <2>5. heads[q.row.library] = 0 => heads'[q.row.library] = 0
    BY <1>0, <1>1, <2>2
  <2>6. heads[q.row.library] > 0 => heads'[q.row.library] > 0
    BY <1>0, <1>2
  <2>7. q.op \in {"node.create", "node.move"} => FolderSeen(u, q.row.library, q.row.parent)'
    BY <2>1, <1>3 DEF FolderSeen, Visible
  <2> QED
    BY <2>1, <2>4, <2>5, <2>6, <2>7 DEF Asked, Visible, FolderSeen
<1>5. NamedRoot(u)'
  BY DEF ShapeInv, NamedRoot
<1>6. Drafted(u)'
  <2> SUFFICES ASSUME NEW n \in Node, draft[u][n] # None
               PROVE  /\ draft[u][n].parent = None <=> heads'[draft[u][n].library] = 0
                      /\ draft[u][n].parent # None =>
                           FolderSeen(u, draft[u][n].library, draft[u][n].parent)'
                      /\ nodes'[n] # None => /\ nodes'[n].parent # None
                                             /\ nodes'[n].type = draft[u][n].type
    BY DEF Drafted
  <2>1. draft[u][n].library \in Library
    BY DEF LogInv, TypeOK, Row
  <2>2. Engaged(u, n, draft[u][n].library)
    BY DEF Engaged
  <2>3. nodes'[n] = nodes[n]
    BY NodesKept
  <2> QED
    BY <1>1, <1>2, <1>3, <2>1, <2>2, <2>3 DEF ShapeInv, Drafted
<1> QED
  BY <1>4, <1>5, <1>6

(* What the check of each operation has found out when it asks for a row. *)
Sees(t, op, n, row) ==
  /\ op = "library.create" =>
       /\ row.parent = None /\ heads[row.library] = 0
       /\ \A u \in Txn : claim[u][row.library] = 0
       /\ \A u \in Txn : request[u] # None => request[u].row.library # row.library
  /\ op # "library.create" => heads[row.library] > 0
  /\ op \in {"node.create", "node.move"} =>
       row.parent \in Node /\ FolderParent(t, row.library, row.parent)
  /\ op \notin Creates => /\ Visible(t, n) # None /\ Visible(t, n).parent # None
                          /\ Visible(t, n).library = row.library
  /\ op = "node.move" => MoveKeepsTree(t, n, row.parent)

(* A node that is not a root is in a library that exists. *)
LEMMA ChildrenHaveHeads ==
  ASSUME LogInv, ShapeInv, NEW t \in Txn, NEW n \in Node, OwnedChild(t, n)
  PROVE  /\ Visible(t, n) \in Row /\ Visible(t, n).library \in Library
         /\ heads[Visible(t, n).library] > 0
<1>1. Visible(t, n) \in Row /\ Visible(t, n).library \in Library
  BY DEF LogInv, TypeOK, OwnedChild, Visible, Row
<1>2. heads[Visible(t, n).library] \in Nat
  BY <1>1 DEF LogInv, TypeOK
<1>3. CASE draft[t][n] # None
  BY <1>1, <1>2, <1>3 DEF OwnedChild, Visible, ShapeInv, Drafted
<1>4. CASE draft[t][n] = None
  BY <1>1, <1>4, NodesHaveHeads DEF OwnedChild, Visible
<1> QED
  BY <1>1, <1>3, <1>4

LEMMA CheckSees ==
  ASSUME LogInv, ShapeInv, NEW t \in Txn, Check(t)
  PROVE  \E op \in OpType, n \in Node, row \in Row :
           /\ Ask(t, op, n, row) /\ Sees(t, op, n, row)
           /\ op \in Creates => Fresh(n)
           /\ \E l \in Library : l = row.library /\ MayRun(t, op, l)
<1> USE ConstantsAssumption
<1>1. CASE \E l \in Library, n \in Node, title \in Title : CheckCreateLibrary(t, l, n, title)
  <2>1. PICK l \in Library, n \in Node, title \in Title : CheckCreateLibrary(t, l, n, title)
    BY <1>1
  <2> DEFINE row == [library |-> l, type |-> "folder", parent |-> None, title |-> title,
                     url |-> None, deleted |-> FALSE]
  <2>2. row \in Row /\ row.library = l /\ row.parent = None
    BY DEF Row
  <2>3. /\ Ask(t, "library.create", n, row) /\ Fresh(n) /\ MayRun(t, "library.create", l)
        /\ heads[l] = 0 /\ \A u \in Txn : claim[u][l] = 0
        /\ \A u \in Txn : request[u] # None => request[u].row.library # l
    BY <2>1 DEF CheckCreateLibrary
  <2> HIDE DEF row
  <2>4. Sees(t, "library.create", n, row)
    BY <2>2, <2>3 DEF Sees, Creates
  <2> QED
    BY <2>2, <2>3, <2>4 DEF OpType
<1>2. CASE \E l \in Library, n, p \in Node, type \in NodeType, title \in Title,
              url \in Url \cup {None} : CheckCreate(t, l, n, p, type, title, url)
  <2>1. PICK l \in Library, n \in Node, p \in Node, type \in NodeType, title \in Title,
             url \in Url \cup {None} : CheckCreate(t, l, n, p, type, title, url)
    BY <1>2
  <2> DEFINE row == [library |-> l, type |-> type, parent |-> p, title |-> title,
                     url |-> url, deleted |-> FALSE]
  <2>2. row \in Row /\ row.library = l /\ row.parent = p
    BY DEF Row
  <2>3. /\ Ask(t, "node.create", n, row) /\ Fresh(n) /\ MayRun(t, "node.create", l)
        /\ heads[l] > 0 /\ FolderParent(t, l, p)
    BY <2>1 DEF CheckCreate
  <2> HIDE DEF row
  <2>4. Sees(t, "node.create", n, row)
    BY <2>2, <2>3 DEF Sees, Creates
  <2> QED
    BY <2>2, <2>3, <2>4 DEF OpType
<1>3. CASE \E n \in Node, title \in Title \cup {None}, url \in Url \cup {None} :
              CheckUpdate(t, n, title, url)
  <2>1. PICK n \in Node, title \in Title \cup {None}, url \in Url \cup {None} :
              CheckUpdate(t, n, title, url)
    BY <1>3
  <2> DEFINE v == Visible(t, n)
             newTitle == IF title = None THEN v.title ELSE title
             newUrl   == IF url = None THEN v.url ELSE url
             row == WithContent(v, newTitle, newUrl)
  <2>2. /\ OwnedChild(t, n) /\ MayRun(t, "node.update", v.library)
        /\ Ask(t, "node.update", n, row)
    BY <2>1 DEF CheckUpdate
  <2>3. v \in Row /\ v.library \in Library /\ heads[v.library] > 0 /\ v # None /\ v.parent # None
    BY <2>2, ChildrenHaveHeads DEF OwnedChild
  <2>4. newTitle \in Title /\ newUrl \in Url \cup {None}
    BY <2>3 DEF Row
  <2>5. row \in Row /\ row.library = v.library
    BY <2>3, <2>4, ColumnsKeepRow
  <2> HIDE DEF row, v
  <2>6. Sees(t, "node.update", n, row)
    BY <2>3, <2>5 DEF Sees, v
  <2> QED
    BY <2>2, <2>3, <2>5, <2>6 DEF OpType, Creates
<1>4. CASE \E n, p \in Node : CheckMove(t, n, p)
  <2>1. PICK n \in Node, p \in Node : CheckMove(t, n, p)
    BY <1>4
  <2> DEFINE v == Visible(t, n)
             row == WithParent(v, p)
  <2>2. /\ OwnedChild(t, n) /\ MayRun(t, "node.move", v.library)
        /\ FolderParent(t, v.library, p) /\ MoveKeepsTree(t, n, p)
        /\ Ask(t, "node.move", n, row)
    BY <2>1 DEF CheckMove
  <2>3. v \in Row /\ v.library \in Library /\ heads[v.library] > 0 /\ v # None /\ v.parent # None
    BY <2>2, ChildrenHaveHeads DEF OwnedChild
  <2>4. row \in Row /\ row.library = v.library /\ row.parent = p
    BY <2>3, ColumnsKeepRow DEF WithParent, Row
  <2> HIDE DEF row, v
  <2>5. Sees(t, "node.move", n, row)
    BY <2>2, <2>3, <2>4 DEF Sees, v
  <2> QED
    BY <2>2, <2>3, <2>4, <2>5 DEF OpType, Creates
<1>5. CASE \E n \in Node, op \in {"node.delete", "node.restore"} : CheckSetDeleted(t, n, op)
  <2>1. PICK n \in Node, op \in {"node.delete", "node.restore"} : CheckSetDeleted(t, n, op)
    BY <1>5
  <2> DEFINE v == Visible(t, n)
             row == WithDeleted(v, op = "node.delete")
  <2>2. OwnedChild(t, n) /\ MayRun(t, op, v.library) /\ Ask(t, op, n, row)
    BY <2>1 DEF CheckSetDeleted
  <2>3. v \in Row /\ v.library \in Library /\ heads[v.library] > 0 /\ v # None /\ v.parent # None
    BY <2>2, ChildrenHaveHeads DEF OwnedChild
  <2>4. row \in Row /\ row.library = v.library
    BY <2>3, ColumnsKeepRow
  <2> HIDE DEF row, v
  <2>5. Sees(t, op, n, row)
    BY <2>3, <2>4 DEF Sees, v
  <2> QED
    BY <2>2, <2>3, <2>4, <2>5 DEF OpType, Creates
<1> QED
  BY <1>1, <1>2, <1>3, <1>4, <1>5 DEF Check

(* The other transactions keep their parts and gain no node. *)
LEMMA ShapeStep ==
  ASSUME LogInv, ShapeInv, [Next]_vars, NEW t \in Txn,
         \A u \in Txn \ {t} : /\ phase'[u] = phase[u] /\ request'[u] = request[u]
                              /\ draft'[u] = draft[u] /\ pending'[u] = pending[u],
         Asked(t)', NamedRoot(t)', Drafted(t)', BelowFolders', OneRoot',
         \A l \in Library : heads[l] = 0 /\ heads'[l] = 0 =>
           \A n \in Node : Engaged(t, n, l)' =>
             Engaged(t, n, l) \/ \A u \in Txn, m \in Node : ~Engaged(u, m, l),
         \A l \in Library, m, n \in Node : Engaged(t, m, l)' /\ Engaged(t, n, l)' /\ heads'[l] = 0
           => m = n
  PROVE  ShapeInv'
<1>1. \A u \in Txn : Asked(u)' /\ NamedRoot(u)' /\ Drafted(u)'
  BY ShapeFrame
<1>2. \A u \in Txn \ {t}, n \in Node, l \in Library : Engaged(u, n, l)' => Engaged(u, n, l)
  BY DEF Engaged
<1>3. OneFounder'
  <2> SUFFICES ASSUME NEW l \in Library, heads'[l] = 0, NEW u \in Txn, NEW v \in Txn,
                      NEW m \in Node, NEW n \in Node, Engaged(u, m, l)', Engaged(v, n, l)'
               PROVE  u = v /\ m = n
    BY DEF OneFounder
  <2>1. heads[l] = 0
    BY HeadsStep
  <2>2. CASE u # t /\ v # t
    BY <1>2, <2>1, <2>2 DEF ShapeInv, OneFounder
  <2>3. CASE u = t /\ v = t
    BY <2>3
  <2>4. CASE u = t /\ v # t
    BY <1>2, <2>1, <2>4 DEF ShapeInv, OneFounder
  <2>5. CASE u # t /\ v = t
    BY <1>2, <2>1, <2>5 DEF ShapeInv, OneFounder
  <2> QED
    BY <2>2, <2>3, <2>4, <2>5
<1> QED
  BY <1>1, <1>3 DEF ShapeInv

LEMMA ShapeCheck ==
  ASSUME LogInv, ShapeInv, NEW t \in Txn, Check(t)
  PROVE  ShapeInv'
<1> USE ConstantsAssumption
<1>0. [Next]_vars
  BY DEF Next
<1>1. PICK op \in OpType, n \in Node, row \in Row :
        /\ Ask(t, op, n, row) /\ Sees(t, op, n, row)
        /\ op \in Creates => Fresh(n)
        /\ \E l \in Library : l = row.library /\ MayRun(t, op, l)
  BY CheckSees
<1> DEFINE q == [op |-> op, node |-> n, row |-> row]
<1>2. /\ phase[t] \in {"idle", "done"} /\ phase'[t] = "write" /\ request'[t] = q
      /\ UNCHANGED <<nodes, heads, revisions, draft, claim, pending>>
      /\ \A u \in Txn \ {t} : phase'[u] = phase[u] /\ request'[u] = request[u]
  BY <1>1 DEF Ask, MayRun, tables, LogInv, TypeOK
<1>3. row.library \in Library /\ q.op = op /\ q.node = n /\ q.row = row
  BY DEF Row
<1> HIDE DEF q
<1>4. Asked(t)'
  <2>1. op \in {"node.create", "node.move"} => FolderSeen(t, row.library, row.parent)
    BY <1>1 DEF Sees, FolderParent, FolderSeen
  <2> QED
    BY <1>1, <1>2, <1>3, <2>1 DEF Asked, Sees, FolderSeen, Visible
<1>5. NamedRoot(t)' /\ Drafted(t)' /\ BelowFolders' /\ OneRoot'
  <2>1. NamedRoot(t)'
    BY <1>2 DEF ShapeInv, NamedRoot
  <2>2. Drafted(t)'
    BY <1>2 DEF ShapeInv, Drafted, FolderSeen, Visible
  <2>3. BelowFolders' /\ OneRoot'
    BY <1>2 DEF ShapeInv, BelowFolders, OneRoot
  <2> QED
    BY <2>1, <2>2, <2>3
<1>6. \A l \in Library : heads[l] = 0 => \A m \in Node : Engaged(t, m, l)' =>
        \/ Engaged(t, m, l)
        \/ m = n /\ l = row.library /\ op = "library.create"
  <2> SUFFICES ASSUME NEW l \in Library, heads[l] = 0, NEW m \in Node, Engaged(t, m, l)',
                      ~Engaged(t, m, l)
               PROVE  m = n /\ l = row.library /\ op = "library.create"
    OBVIOUS
  <2>1. m = n /\ l = row.library
    BY <1>2, <1>3 DEF Engaged
  <2> QED
    BY <1>1, <2>1 DEF Sees
<1>7. ASSUME op = "library.create", NEW u \in Txn, NEW m \in Node
      PROVE  ~Engaged(u, m, row.library)
  <2>1. claim[u][row.library] = 0 /\ (request[u] # None => request[u].row.library # row.library)
    BY <1>1, <1>7 DEF Sees
  <2>2. phase[u] \in {"write", "log"} => request[u] # None
    BY DEF LogInv, OperationInv
  <2>3. ASSUME draft[u][m] # None, draft[u][m].library = row.library
        PROVE  FALSE
    <3>1. CASE phase[u] = "log" /\ request[u].node = m
      BY <2>1, <2>2, <2>3, <3>1 DEF ShapeInv, NamedRoot
    <3>2. CASE ~(phase[u] = "log" /\ request[u].node = m)
      BY <2>1, <2>3, <3>2, DraftsHaveClaims
    <3> QED
      BY <3>1, <3>2
  <2> QED
    BY <2>1, <2>2, <2>3 DEF Engaged
<1> QED
  BY <1>0, <1>2, <1>3, <1>4, <1>5, <1>6, <1>7, ShapeStep DEF ShapeInv, OneFounder

(* What a statement writes over the newest row. *)
LEMMA WrittenKeepsShape ==
  ASSUME NEW q \in Request, NEW row \in Row, q.op \notin Creates
  PROVE  /\ Written(q, row).library = row.library /\ Written(q, row).type = row.type
         /\ Written(q, row).parent = IF q.op = "node.move" THEN q.row.parent ELSE row.parent
<1>1. q.row.deleted \in BOOLEAN /\ q.row.parent \in Node \cup {None}
  BY DEF Request, Row
<1> QED
  BY <1>1 DEF Written, Creates, WithContent, WithParent, WithDeleted, Row, Request

LEMMA ShapeWrite ==
  ASSUME LogInv, ShapeInv, NEW t \in Txn, WriteNode(t)
  PROVE  ShapeInv'
<1> USE ConstantsAssumption
<1>0. [Next]_vars
  BY DEF Next
<1> DEFINE q == request[t]
           n == q.node
           new == Written(q, Visible(t, n))
<1>1. /\ phase[t] = "write" /\ q \in Request /\ n \in Node
      /\ q.row \in Row /\ q.row.library \in Library
      /\ q.op \notin Creates => Visible(t, n) # None
  BY DEF WriteNode, LogInv, OperationInv, Request, Row
<1>2. Visible(t, n) \in Row \cup {None}
  BY <1>1 DEF LogInv, TypeOK, Visible
<1>3. new \in Row
  BY <1>1, <1>2, WrittenIsRow
<1>4. /\ phase'[t] = "log" /\ request' = request
      /\ draft'[t] = [draft[t] EXCEPT ![n] = new]
      /\ UNCHANGED <<nodes, heads, revisions, claim, pending>>
      /\ \A u \in Txn \ {t} : phase'[u] = phase[u] /\ draft'[u] = draft[u]
  BY DEF WriteNode, LogInv, TypeOK, tables
<1>5. /\ q.op = "library.create" => q.row.parent = None /\ heads[q.row.library] = 0
      /\ q.op # "library.create" => heads[q.row.library] > 0
      /\ q.op \in {"node.create", "node.move"} => FolderSeen(t, q.row.library, q.row.parent)
      /\ q.op \notin Creates => Visible(t, n).parent # None /\ Visible(t, n).library = q.row.library
  BY <1>1 DEF ShapeInv, Asked
<1>6. /\ new.library = q.row.library
      /\ q.op \in Creates => new = q.row
      /\ q.op \notin Creates => new.type = Visible(t, n).type
  BY <1>1, <1>2, <1>5, WrittenKeepsShape DEF Written, Creates
<1>7. new.parent = None <=> q.op = "library.create"
  <2>1. CASE q.op \in Creates
    BY <1>5, <1>6, <2>1 DEF FolderSeen, Creates
  <2>2. CASE q.op \notin Creates
    BY <1>1, <1>2, <1>5, <2>2, WrittenKeepsShape DEF FolderSeen, Creates
  <2> QED
    BY <2>1, <2>2
<1>8. q.op \in Creates => draft[t][n] = None /\ nodes[n] = None
  BY <1>1, RowLockInvParts DEF LogInv, InsertUnseen
<1>9. \A m \in Node : Visible(t, m)' = IF m = n THEN new ELSE Visible(t, m)
  BY <1>3, <1>4, <1>1 DEF Visible, LogInv, TypeOK
<1>10. \A l, p : FolderSeen(t, l, p) => FolderSeen(t, l, p)'
  <2> SUFFICES ASSUME NEW l, NEW p, FolderSeen(t, l, p)
               PROVE  FolderSeen(t, l, p)'
    OBVIOUS
  <2>1. CASE p # n
    BY <1>9, <2>1 DEF FolderSeen
  <2>2. CASE p = n
    <3>1. q.op \notin Creates
      BY <1>8, <2>2 DEF FolderSeen, Visible
    <3> QED
      BY <1>3, <1>5, <1>6, <1>9, <2>2, <3>1 DEF FolderSeen
  <2> QED
    BY <2>1, <2>2
<1>11. new.parent # None => FolderSeen(t, new.library, new.parent)
  <2>1. CASE q.op \in Creates
    BY <1>5, <1>6, <1>7, <2>1 DEF Creates
  <2>2. CASE q.op = "node.move"
    BY <1>1, <1>2, <1>5, <1>6, <2>2, WrittenKeepsShape DEF Creates
  <2>3. CASE q.op \notin Creates \cup {"node.move"}
    <3>1. new.parent = Visible(t, n).parent /\ Visible(t, n) # None
      BY <1>1, <1>2, <2>3, WrittenKeepsShape
    <3>2. CASE draft[t][n] # None
      BY <1>1, <1>5, <1>6, <2>3, <3>1, <3>2 DEF ShapeInv, Drafted, Visible
    <3>3. CASE draft[t][n] = None
      <4> DEFINE p == nodes[n].parent
      <4>1. p # None /\ nodes[n] # None /\ p \in Node
        BY <1>1, <1>5, <2>3, <3>1, <3>3 DEF Visible, LogInv, TypeOK, Row
      <4>2. nodes[p] # None /\ nodes[p].library = nodes[n].library /\ nodes[p].type = "folder"
        BY <1>1, <4>1 DEF ShapeInv, BelowFolders
      <4>3. draft[t][p] # None => draft[t][p].library = nodes[p].library /\ draft[t][p].type = nodes[p].type
        BY <4>1, <4>2, RowLockInvParts DEF LogInv, SameLibrary, ShapeInv, Drafted
      <4> QED
        BY <1>1, <1>5, <1>6, <2>3, <3>1, <3>3, <4>1, <4>2, <4>3 DEF FolderSeen, Visible
    <3> QED
      BY <3>2, <3>3
  <2> QED
    BY <2>1, <2>2, <2>3
<1>12. nodes[n] # None => nodes[n].parent # None /\ nodes[n].type = new.type
  <2> SUFFICES ASSUME nodes[n] # None
               PROVE  nodes[n].parent # None /\ nodes[n].type = new.type
    OBVIOUS
  <2>1. q.op \notin Creates
    BY <1>8
  <2>2. CASE draft[t][n] # None
    BY <1>1, <1>6, <2>1, <2>2 DEF ShapeInv, Drafted, Visible
  <2>3. CASE draft[t][n] = None
    BY <1>1, <1>5, <1>6, <2>1, <2>3 DEF Visible
  <2> QED
    BY <2>2, <2>3
<1>13. Engaged(t, n, new.library)
  BY <1>1, <1>6 DEF Engaged
<1>14. \A m \in Node, l \in Library : Engaged(t, m, l)' => Engaged(t, m, l)
  BY <1>1, <1>4, <1>6, <1>13 DEF Engaged, LogInv, TypeOK
<1>15. draft'[t][n] = new /\ \A m \in Node \ {n} : draft'[t][m] = draft[t][m]
  BY <1>1, <1>4 DEF LogInv, TypeOK
<1> HIDE DEF new
<1>16. Drafted(t)'
  <2>1. ASSUME NEW m \in Node, draft'[t][m] # None, NEW v, v = draft'[t][m]
        PROVE  /\ v.parent = None <=> heads[v.library] = 0
               /\ v.parent # None => FolderSeen(t, v.library, v.parent)
               /\ nodes[m] # None => nodes[m].parent # None /\ nodes[m].type = v.type
    <3>1. CASE m = n
      BY <1>1, <1>5, <1>6, <1>7, <1>11, <1>12, <1>15, <2>1, <3>1
    <3>2. CASE m # n
      BY <1>15, <2>1, <3>2 DEF ShapeInv, Drafted
    <3> QED
      BY <3>1, <3>2
  <2>2. \A m \in Node : draft'[t][m] # None =>
          /\ draft'[t][m].parent = None <=> heads[draft'[t][m].library] = 0
          /\ draft'[t][m].parent # None =>
               FolderSeen(t, draft'[t][m].library, draft'[t][m].parent)
          /\ nodes[m] # None => nodes[m].parent # None /\ nodes[m].type = draft'[t][m].type
    BY <2>1
  <2>3. \A m \in Node : draft'[t][m] # None /\ draft'[t][m].parent # None =>
          FolderSeen(t, draft[t][m].library, draft[t][m].parent)'
    BY <1>10, <2>2 DEF FolderSeen, Visible
  <2> QED
    BY <1>4, <2>2, <2>3 DEF Drafted
<1>17. NamedRoot(t)'
  BY <1>4, <1>6, <1>7, <1>15 DEF ShapeInv, NamedRoot
<1>18. Asked(t)'
  BY <1>4 DEF Asked
<1>19. BelowFolders' /\ OneRoot'
  BY <1>4 DEF ShapeInv, BelowFolders, OneRoot
<1>20. \A l \in Library, m, k \in Node :
         Engaged(t, m, l)' /\ Engaged(t, k, l)' /\ heads'[l] = 0 => m = k
  BY <1>4, <1>14 DEF ShapeInv, OneFounder
<1>21. \A u \in Txn \ {t} : /\ phase'[u] = phase[u] /\ request'[u] = request[u]
                            /\ draft'[u] = draft[u] /\ pending'[u] = pending[u]
  BY <1>4
<1> QED
  BY <1>0, <1>14, <1>16, <1>17, <1>18, <1>19, <1>20, <1>21, ShapeStep

LEMMA ShapeLog ==
  ASSUME LogInv, ShapeInv, NEW t \in Txn, LogRevision(t)
  PROVE  ShapeInv'
<1> USE ConstantsAssumption
<1>0. [Next]_vars
  BY DEF Next
<1> DEFINE n   == request[t].node
           row == draft[t][n]
           rev == [library |-> row.library, clock |-> VisibleHead(t, row.library) + 1,
                   op |-> request[t].op, node |-> n, row |-> row]
<1>1. /\ phase[t] = "log" /\ phase'[t] = "done" /\ pending'[t] = pending[t] \cup {rev}
      /\ UNCHANGED <<nodes, heads, revisions, draft>>
      /\ \A u \in Txn \ {t} : /\ phase'[u] = phase[u] /\ request'[u] = request[u]
                              /\ pending'[u] = pending[u]
  BY DEF LogRevision, tables, LogInv, TypeOK
<1>2. rev.row = row /\ rev.op = request[t].op
  OBVIOUS
<1>3. row.parent = None <=> request[t].op = "library.create"
  BY <1>1 DEF ShapeInv, NamedRoot
<1> HIDE DEF rev
<1>4. NamedRoot(t)'
  BY <1>1, <1>2, <1>3 DEF ShapeInv, NamedRoot
<1>5. Asked(t)'
  BY <1>1 DEF Asked
<1>6. Drafted(t)'
  BY <1>1 DEF ShapeInv, Drafted, FolderSeen, Visible
<1>7. BelowFolders' /\ OneRoot'
  BY <1>1 DEF ShapeInv, BelowFolders, OneRoot
<1>8. \A l \in Library, m \in Node : Engaged(t, m, l)' => Engaged(t, m, l)
  BY <1>1 DEF Engaged
<1>9. \A l \in Library, m, k \in Node :
        Engaged(t, m, l)' /\ Engaged(t, k, l)' /\ heads'[l] = 0 => m = k
  BY <1>1, <1>8 DEF ShapeInv, OneFounder
<1> QED
  BY <1>0, <1>1, <1>4, <1>5, <1>6, <1>7, <1>8, <1>9, ShapeStep

(* A transaction that has ended holds nothing. *)
LEMMA ShapeRelease ==
  ASSUME LogInv, ShapeInv, NEW t \in Txn, Release(t), [Next]_vars, BelowFolders', OneRoot'
  PROVE  ShapeInv'
<1>1. /\ phase'[t] = "idle" /\ draft'[t] = NoDraft /\ pending'[t] = {}
      /\ \A u \in Txn \ {t} : /\ phase'[u] = phase[u] /\ request'[u] = request[u]
                              /\ draft'[u] = draft[u] /\ pending'[u] = pending[u]
  BY DEF Release, LogInv, TypeOK
<1>2. Asked(t)' /\ NamedRoot(t)' /\ Drafted(t)'
  BY <1>1 DEF Asked, NamedRoot, Drafted, NoDraft
<1>3. \A l \in Library, m \in Node : ~Engaged(t, m, l)'
  BY <1>1 DEF Engaged, NoDraft
<1> QED
  BY <1>1, <1>2, <1>3, ShapeStep

LEMMA ShapeRollback ==
  ASSUME LogInv, ShapeInv, NEW t \in Txn, Rollback(t)
  PROVE  ShapeInv'
<1>1. [Next]_vars /\ Release(t) /\ UNCHANGED tables
  BY DEF Next, Rollback
<1>2. BelowFolders' /\ OneRoot'
  BY <1>1 DEF tables, ShapeInv, BelowFolders, OneRoot
<1> QED
  BY <1>1, <1>2, ShapeRelease

LEMMA ShapeCommit ==
  ASSUME LogInv, ShapeInv, NEW t \in Txn, Commit(t)
  PROVE  ShapeInv'
<1> USE ConstantsAssumption
<1>0. [Next]_vars /\ Release(t)
  BY DEF Next, Commit
<1>1. /\ \A n \in Node : nodes'[n] = Visible(t, n)
      /\ \A l \in Library : heads'[l] = VisibleHead(t, l)
  BY DEF Commit
<1>2. BelowFolders'
  <2> SUFFICES ASSUME NEW n \in Node, nodes'[n] # None, nodes'[n].parent # None
               PROVE  FolderSeen(t, nodes'[n].library, nodes'[n].parent)
    BY <1>1 DEF BelowFolders, FolderSeen
  <2>1. CASE draft[t][n] # None
    BY <1>1, <2>1 DEF Visible, ShapeInv, Drafted
  <2>2. CASE draft[t][n] = None
    <3> DEFINE p == nodes[n].parent
    <3>1. nodes'[n] = nodes[n] /\ p \in Node
      BY <1>1, <2>2 DEF Visible, LogInv, TypeOK, Row
    <3>2. nodes[p] # None /\ nodes[p].library = nodes[n].library /\ nodes[p].type = "folder"
      BY <3>1 DEF ShapeInv, BelowFolders
    <3>3. draft[t][p] # None => draft[t][p].library = nodes[p].library /\ draft[t][p].type = nodes[p].type
      BY <3>1, <3>2, RowLockInvParts DEF LogInv, SameLibrary, ShapeInv, Drafted
    <3> QED
      BY <3>1, <3>2, <3>3 DEF FolderSeen, Visible
  <2> QED
    BY <2>1, <2>2
<1>3. ASSUME NEW m \in Node, NEW n \in Node, nodes'[m] # None, nodes'[n] # None,
             nodes'[m].library = nodes'[n].library, nodes'[m].parent = None, nodes'[n].parent = None
      PROVE  m = n
  <2> DEFINE l == nodes'[m].library
  <2>0. ASSUME NEW k \in Node, nodes'[k] # None, nodes'[k].parent = None
        PROVE  IF heads[nodes'[k].library] = 0
               THEN Engaged(t, k, nodes'[k].library) ELSE nodes'[k] = nodes[k]
    <3>1. CASE draft[t][k] # None
      BY <1>1, <2>0, <3>1 DEF Visible, ShapeInv, Drafted, Engaged
    <3>2. CASE draft[t][k] = None
      <4>1. nodes'[k] = nodes[k] /\ heads[nodes[k].library] > 0
        BY <1>1, <2>0, <3>2, NodesHaveHeads DEF Visible
      <4> QED
        BY <4>1
    <3> QED
      BY <3>1, <3>2
  <2>1. l \in Library
    BY <1>1, <1>3 DEF LogInv, TypeOK, Visible, Row
  <2>2. CASE heads[l] = 0
    BY <1>3, <2>0, <2>1, <2>2 DEF ShapeInv, OneFounder
  <2>3. CASE heads[l] # 0
    BY <1>3, <2>0, <2>3 DEF ShapeInv, OneRoot
  <2> QED
    BY <2>2, <2>3
<1>4. ASSUME NEW l \in Library, heads'[l] > 0
      PROVE  \E n \in Node : nodes'[n] # None /\ nodes'[n].library = l /\ nodes'[n].parent = None
  <2>1. heads[l] \in Nat
    BY DEF LogInv, TypeOK
  <2>2. CASE heads[l] > 0
    <3>1. PICK n \in Node : nodes[n] # None /\ nodes[n].library = l /\ nodes[n].parent = None
      BY <2>2 DEF ShapeInv, OneRoot
    <3>2. draft[t][n] = None
      BY <3>1 DEF ShapeInv, Drafted
    <3> QED
      BY <1>1, <3>1, <3>2 DEF Visible
  <2>3. CASE heads[l] = 0
    <3>1. claim[t][l] > 0
      BY <1>1, <1>4, <2>3 DEF VisibleHead
    <3>2. PICK n \in Node : draft[t][n] # None /\ draft[t][n].library = l
      BY <3>1, ClaimsHaveDrafts
    <3>3. draft[t][n].parent = None
      BY <2>3, <3>2 DEF ShapeInv, Drafted
    <3> QED
      BY <1>1, <3>2, <3>3 DEF Visible
  <2> QED
    BY <2>1, <2>2, <2>3
<1>5. OneRoot'
  BY <1>3, <1>4 DEF OneRoot
<1> QED
  BY <1>0, <1>2, <1>5, ShapeRelease

LEMMA ShapeNext ==
  ASSUME LogInv, ShapeInv, [Next]_vars
  PROVE  ShapeInv'
<1>1. CASE UNCHANGED vars
  <2>1. /\ nodes' = nodes /\ heads' = heads /\ revisions' = revisions /\ phase' = phase
        /\ request' = request /\ draft' = draft /\ claim' = claim /\ pending' = pending
    BY <1>1 DEF vars
  <2>2. OneFounder' /\ BelowFolders' /\ OneRoot'
    BY <2>1 DEF ShapeInv, OneFounder, BelowFolders, OneRoot, Engaged
  <2>3. ASSUME NEW t \in Txn PROVE Asked(t)' /\ NamedRoot(t)' /\ Drafted(t)'
    BY <2>1 DEF ShapeInv, Asked, NamedRoot, Drafted, FolderSeen, Visible
  <2> QED
    BY <2>2, <2>3 DEF ShapeInv
<1> QED
  BY <1>1, ShapeCheck, ShapeWrite, ShapeLog, ShapeCommit, ShapeRollback DEF Next

(* Whatever creates, moves and deletes run at the same time, a library has  *)
(* one root for ever and every other node hangs below a folder of its own  *)
(* library: what a check has seen of a parent, its library and its type,    *)
(* no other transaction can change any more.                               *)
THEOREM TreeKeepsShape == Spec => []TreeShape
<1>1. Init => LogInv /\ ShapeInv
  BY StoreInit, ShapeInit
<1>2. LogInv /\ ShapeInv /\ [Next]_vars => (LogInv /\ ShapeInv)'
  BY LogInvNext, ShapeNext
<1>3. ShapeInv => TreeShape
  BY ShapeIsTreeShape
<1> QED
  BY <1>1, <1>2, <1>3, PTL DEF Spec
-----------------------------------------------------------------------------
(* The walk of a move to the root, for every number of hops. *)

(* A set of numbers has a smallest: what induction over data is reduced to. *)
LEMMA Smallest ==
  ASSUME NEW T \in SUBSET Nat, T # {}
  PROVE  \E m \in T : \A k \in T : m <= k
<1>1. PICK x \in T : \A y \in T : ~ (<<y, x>> \in OpToRel(<, Nat))
  BY NatLessThanWellFounded, WFMin
<1>2. \A y \in T : ~(y < x)
  BY <1>1 DEF OpToRel
<1> QED
  BY <1>2

(* Ancestors is the function its recursive definition describes. *)
LEMMA AncestorsWalk ==
  ASSUME NEW t \in Txn, NEW p
  PROVE  /\ Ancestors(t, p)[0] = p
         /\ \A i \in 1 .. MaxHops : Ancestors(t, p)[i] =
              IF Ancestors(t, p)[i - 1] = None THEN None
              ELSE Visible(t, Ancestors(t, p)[i - 1]).parent
<1> USE ConstantsAssumption
<1> DEFINE Up(v) == IF v = None THEN None ELSE Visible(t, v).parent
           Walk(f, k) == f = [i \in 0 .. k |-> IF i = 0 THEN p ELSE Up(f[i - 1])]
           Stuck == {k \in Nat : ~\E f : Walk(f, k)}
<1>1. \E f : Walk(f, 0)
  <2>1. Walk([i \in 0 .. 0 |-> p], 0)
    OBVIOUS
  <2> QED
    BY <2>1
<1>2. ASSUME NEW k \in Nat, NEW f, Walk(f, k)
      PROVE  \E g : Walk(g, k + 1)
  <2> DEFINE g == [i \in 0 .. k + 1 |-> IF i = k + 1 THEN Up(f[k]) ELSE f[i]]
  <2> HIDE DEF Up
  <2>1. ASSUME NEW i \in 0 .. k + 1
        PROVE  g[i] = IF i = 0 THEN p ELSE Up(g[i - 1])
    <3>1. CASE i = k + 1
      BY <3>1
    <3>2. CASE i # k + 1
      BY <1>2, <3>2
    <3> QED
      BY <3>1, <3>2
  <2>2. Walk(g, k + 1)
    BY <2>1
  <2> QED
    BY <2>2
<1> HIDE DEF Walk
<1>3. Stuck = {}
  <2> SUFFICES ASSUME Stuck # {}
               PROVE  FALSE
    OBVIOUS
  <2>1. PICK m \in Stuck : \A k \in Stuck : m <= k
    BY Smallest
  <2>2. m \in Nat /\ m # 0
    BY <1>1
  <2>3. m - 1 \in Nat /\ m - 1 \notin Stuck
    BY <2>1, <2>2
  <2>4. PICK f : Walk(f, m - 1)
    BY <2>3
  <2>5. \E g : Walk(g, m - 1 + 1)
    BY <1>2, <2>3, <2>4
  <2> QED
    BY <2>2, <2>5
<1>4. \E f : Walk(f, MaxHops)
  BY <1>3
<1>5. Walk(Ancestors(t, p), MaxHops)
  BY <1>4 DEF Ancestors, Walk
<1> QED
  BY <1>5 DEF Walk
-----------------------------------------------------------------------------
(* One connection: what its transaction has logged and will log is placed   *)
(* under a folder that is live at that point of the history it will commit. *)
Serial == \A t, u \in Txn : t = u

History(t) == revisions \cup pending[t]

PlacedAt(S, r) == \E s \in S :
  /\ s.node = r.row.parent /\ s.library = r.library
  /\ s.clock < r.clock /\ ~s.row.deleted
  /\ \A q \in S : q.node = s.node /\ q.clock < r.clock => q.clock <= s.clock

(* The parent a create or move is about to write, or has just written. *)
Places(t) == phase[t] \in {"write", "log"} /\ request[t].op \in {"node.create", "node.move"}
Target(t) == IF phase[t] = "write" THEN request[t].row.parent
             ELSE draft[t][request[t].node].parent

PlacedInv(t) ==
  /\ \A r \in History(t) : r.op \in {"node.create", "node.move"} => PlacedAt(History(t), r)
  /\ Places(t) => /\ Target(t) # request[t].node
                  /\ Target(t) \in Node /\ Visible(t, Target(t)) # None
                  /\ ~Visible(t, Target(t)).deleted

LEMMA PlacedInit == Init => \A t \in Txn : PlacedInv(t)
BY DEF Init, PlacedInv, History, Places

(* A node's revisions, committed and not, are all in the node's library. *)
LEMMA HistoryLibrary ==
  ASSUME LogInv, NEW t \in Txn, NEW r \in History(t), NEW s \in History(t), r.node = s.node
  PROVE  r.library = s.library
<1>1. r.node \in Node
  BY DEF LogInv, TypeOK, Revision, History
<1>2. \A q \in revisions : nodes[q.node] # None /\ nodes[q.node].library = q.library
  BY RowLockInvParts DEF LogInv, LoggedIsStored
<1>3. \A q \in pending[t] : draft[t][q.node] # None /\ draft[t][q.node].library = q.library
  BY DraftInvParts DEF LogInv, LoggedIsDrafted
<1>4. draft[t][r.node] # None /\ nodes[r.node] # None => draft[t][r.node].library = nodes[r.node].library
  BY <1>1, RowLockInvParts DEF LogInv, SameLibrary
<1> QED
  BY <1>2, <1>3, <1>4 DEF History

(* The committed revisions of a library are numbered up to its head, those  *)
(* of the transaction from there to the head it has claimed.               *)
LEMMA HistoryClocks ==
  ASSUME LogInv, NEW t \in Txn
  PROVE  /\ \A r \in History(t) : /\ r.library \in Library /\ r.clock \in Nat /\ r \in Revision
                                  /\ VisibleHead(t, r.library) \in Nat
                                  /\ r.clock <= VisibleHead(t, r.library)
         /\ \A r \in revisions : heads[r.library] \in Nat /\ r.clock <= heads[r.library]
         /\ \A r \in pending[t] : heads[r.library] \in Nat /\ heads[r.library] < r.clock
<1>1. \A r \in History(t) : /\ r.library \in Library /\ r.clock \in Nat /\ r \in Revision
                            /\ heads[r.library] \in Nat /\ claim[t][r.library] \in Nat
  BY DEF LogInv, TypeOK, Revision, History
<1>2. \A r \in revisions : r.clock <= heads[r.library]
  BY <1>1 DEF LogInv, Committed, Numbered, History
<1>3. \A r \in pending[t] : heads[r.library] < r.clock /\ r.clock <= claim[t][r.library]
  BY <1>1 DEF LogInv, Claims, Numbered, History
<1>4. \A l \in Library : claim[t][l] > 0 => claim[t][l] > heads[l]
  BY DEF LogInv, Claims
<1>5. ASSUME NEW r \in History(t)
      PROVE  VisibleHead(t, r.library) \in Nat /\ r.clock <= VisibleHead(t, r.library)
  BY <1>1, <1>2, <1>3, <1>4, <1>5 DEF VisibleHead, History
<1> QED
  BY <1>1, <1>2, <1>3, <1>5 DEF History

(* The row t sees of a node, if it has logged what it wrote, is the payload *)
(* of the node's last revision in the history t will commit.               *)
LEMMA SeenIsLast ==
  ASSUME LogInv, NEW t \in Txn, NEW n \in Node, Visible(t, n) # None,
         ~(phase[t] = "log" /\ request[t].node = n)
  PROVE  \E s \in History(t) :
           /\ s.node = n /\ s.row = Visible(t, n) /\ s.library = Visible(t, n).library
           /\ \A q \in History(t) : q.node = n => q.clock <= s.clock
<1>1. CASE draft[t][n] # None
  <2>1. PICK s \in pending[t] : /\ s.node = n /\ s.row = draft[t][n]
                                /\ \A q \in pending[t] : q.node = n => q.clock <= s.clock
    BY <1>1, DraftInvParts DEF LogInv, DraftedIsLogged, LastLogged
  <2>2. s.library = draft[t][n].library
    BY <2>1, DraftInvParts DEF LogInv, LoggedIsDrafted
  <2>3. \A q \in History(t) : q.node = n => q.library = s.library
    BY <2>1, HistoryLibrary DEF History
  <2>4. \A q \in revisions : q.node = n => q.clock <= s.clock
    BY <2>1, <2>3, HistoryClocks DEF History
  <2> QED
    BY <1>1, <2>1, <2>2, <2>4 DEF History, Visible
<1>2. CASE draft[t][n] = None
  <2>1. PICK s \in revisions : /\ s.node = n /\ s.row = nodes[n] /\ s.library = nodes[n].library
                               /\ \A q \in revisions : q.node = n => q.clock <= s.clock
    BY <1>2 DEF LogInv, RowIsLastRevision, Visible
  <2>2. \A q \in pending[t] : q.node # n
    BY <1>2, DraftInvParts DEF LogInv, LoggedIsDrafted
  <2> QED
    BY <1>2, <2>1, <2>2 DEF History, Visible
<1> QED
  BY <1>1, <1>2

LEMMA PlacedCheck ==
  ASSUME LogInv, ShapeInv, NEW t \in Txn, PlacedInv(t), Check(t)
  PROVE  PlacedInv(t)'
<1>1. PICK op \in OpType, n \in Node, row \in Row :
        Ask(t, op, n, row) /\ Sees(t, op, n, row) /\ (op \in Creates => Fresh(n))
  BY CheckSees
<1> DEFINE q == [op |-> op, node |-> n, row |-> row]
<1>2. /\ phase'[t] = "write" /\ request'[t] = q
      /\ UNCHANGED <<nodes, heads, revisions, draft, claim, pending>>
  BY <1>1 DEF Ask, tables, LogInv, TypeOK
<1>3. q.op = op /\ q.node = n /\ q.row = row
  OBVIOUS
<1> HIDE DEF q
<1>4. ASSUME op \in {"node.create", "node.move"}
      PROVE  /\ row.parent # n /\ row.parent \in Node
             /\ Visible(t, row.parent) # None /\ ~Visible(t, row.parent).deleted
  <2>1. FolderParent(t, row.library, row.parent) /\ row.parent \in Node
    BY <1>1, <1>4 DEF Sees
  <2>2. CASE op = "node.create"
    BY <1>1, <2>1, <2>2 DEF Fresh, FolderParent, Visible, Creates
  <2>3. CASE op = "node.move"
    <3>1. PICK i \in 1 .. MaxHops : \A j \in 0 .. i - 1 : Ancestors(t, row.parent)[j] # n
      BY <1>1, <2>3 DEF Sees, MoveKeepsTree
    <3>2. 0 \in 0 .. i - 1
      BY ConstantsAssumption
    <3> QED
      BY <2>1, <3>1, <3>2, AncestorsWalk DEF FolderParent
  <2> QED
    BY <1>4, <2>2, <2>3
<1> QED
  BY <1>2, <1>3, <1>4 DEF PlacedInv, Places, Target, History, PlacedAt, Visible

LEMMA PlacedWrite ==
  ASSUME LogInv, ShapeInv, NEW t \in Txn, PlacedInv(t), WriteNode(t)
  PROVE  PlacedInv(t)'
<1> USE ConstantsAssumption
<1> DEFINE q == request[t]
           n == q.node
           new == Written(q, Visible(t, n))
<1>1. /\ phase[t] = "write" /\ q \in Request /\ n \in Node
      /\ q.op \notin Creates => Visible(t, n) # None
  BY DEF WriteNode, LogInv, OperationInv, Request
<1>2. Visible(t, n) \in Row \cup {None}
  BY <1>1 DEF LogInv, TypeOK, Visible
<1>3. /\ phase'[t] = "log" /\ request'[t] = q /\ draft'[t] = [draft[t] EXCEPT ![n] = new]
      /\ UNCHANGED <<nodes, heads, revisions, claim, pending>>
  BY DEF WriteNode, LogInv, TypeOK, tables
<1>4. draft'[t][n] = new /\ \A m \in Node \ {n} : draft'[t][m] = draft[t][m]
  BY <1>1, <1>3 DEF LogInv, TypeOK
<1>5. q.op \in {"node.create", "node.move"} => new.parent = q.row.parent
  BY <1>1, <1>2, WrittenKeepsShape DEF Written, Creates
<1> HIDE DEF new
<1>6. Places(t)' => Places(t) /\ Target(t)' = Target(t)
  BY <1>1, <1>3, <1>4, <1>5 DEF Places, Target
<1>7. \A p \in Node : p # n => Visible(t, p)' = Visible(t, p)
  BY <1>3, <1>4 DEF Visible
<1> QED
  BY <1>3, <1>6, <1>7 DEF PlacedInv, History, PlacedAt, Visible

LEMMA PlacedLog ==
  ASSUME LogInv, ShapeInv, NEW t \in Txn, PlacedInv(t), LogRevision(t)
  PROVE  PlacedInv(t)'
<1> DEFINE n   == request[t].node
           row == draft[t][n]
           c   == VisibleHead(t, row.library) + 1
           rev == [library |-> row.library, clock |-> c,
                   op |-> request[t].op, node |-> n, row |-> row]
<1>1. /\ phase[t] = "log" /\ phase'[t] = "done"
      /\ revisions' = revisions /\ pending'[t] = pending[t] \cup {rev}
  BY DEF LogRevision, tables, LogInv, TypeOK
<1>2. /\ rev.row = row /\ rev.op = request[t].op /\ rev.library = row.library
      /\ rev.clock = c /\ rev.node = n
  OBVIOUS
<1>3. n \in Node /\ row # None /\ row \in Row /\ row.library \in Library
  BY <1>1 DEF LogInv, TypeOK, OperationInv, Request, Row
<1>4. VisibleHead(t, row.library) \in Nat /\ c \in Nat /\ VisibleHead(t, row.library) < c
  <2>1. claim[t][row.library] \in Nat /\ heads[row.library] \in Nat
    BY <1>3 DEF LogInv, TypeOK
  <2>2. VisibleHead(t, row.library) \in Nat
    BY <2>1 DEF VisibleHead
  <2> QED
    BY <2>2
<1>5. History(t)' = History(t) \cup {rev}
  BY <1>1 DEF History
<1>6. \A r \in History(t) : r.library = row.library => r.clock \in Nat /\ r.clock < c
  BY <1>4, HistoryClocks
<1> HIDE DEF rev, c
<1>7. ASSUME NEW r \in History(t), r.op \in {"node.create", "node.move"}
      PROVE  PlacedAt(History(t) \cup {rev}, r)
  <2>1. PICK s \in History(t) :
          /\ s.node = r.row.parent /\ s.library = r.library
          /\ s.clock < r.clock /\ ~s.row.deleted
          /\ \A q \in History(t) : q.node = s.node /\ q.clock < r.clock => q.clock <= s.clock
    BY <1>7 DEF PlacedInv, PlacedAt
  <2>2. rev.node = s.node => ~(rev.clock < r.clock)
    <3> SUFFICES ASSUME n = s.node
                 PROVE  ~(c < r.clock)
      BY <1>2
    <3>1. s.library = row.library
      <4>1. CASE n \in {q.node : q \in pending[t]}
        <5>1. PICK q \in pending[t] : q.node = n
          BY <4>1
        <5>2. q.library = row.library
          BY <5>1, DraftInvParts DEF LogInv, LoggedIsDrafted
        <5> QED
          BY <5>1, <5>2, HistoryLibrary DEF History
      <4>2. CASE n \notin {q.node : q \in pending[t]}
        <5>1. s \in revisions
          BY <4>2 DEF History
        <5>2. nodes[n] # None /\ nodes[n].library = s.library
          BY <5>1, RowLockInvParts DEF LogInv, LoggedIsStored
        <5> QED
          BY <1>3, <5>2, RowLockInvParts DEF LogInv, SameLibrary
      <4> QED
        BY <4>1, <4>2
    <3>2. r.clock \in Nat /\ r.clock < c /\ c \in Nat
      BY <1>4, <1>6, <2>1, <3>1
    <3> QED
      BY <3>2
  <2> QED
    BY <2>1, <2>2 DEF PlacedAt
<1>8. rev.op \in {"node.create", "node.move"} => PlacedAt(History(t) \cup {rev}, rev)
  <2> SUFFICES ASSUME rev.op \in {"node.create", "node.move"}
               PROVE  PlacedAt(History(t) \cup {rev}, rev)
    OBVIOUS
  <2> DEFINE p == row.parent
  <2>1. p # n /\ p \in Node /\ Visible(t, p) # None /\ ~Visible(t, p).deleted
    BY <1>1, <1>2 DEF PlacedInv, Places, Target
  <2>2. Visible(t, p).library = row.library
    BY <1>3, <2>1, ConstantsAssumption DEF ShapeInv, Drafted, FolderSeen
  <2>3. PICK s \in History(t) :
          /\ s.node = p /\ s.row = Visible(t, p) /\ s.library = Visible(t, p).library
          /\ \A q \in History(t) : q.node = p => q.clock <= s.clock
    BY <2>1, SeenIsLast
  <2>4. s.clock < c
    BY <1>6, <2>2, <2>3
  <2> QED
    BY <1>2, <2>1, <2>2, <2>3, <2>4 DEF PlacedAt
<1> QED
  BY <1>1, <1>2, <1>5, <1>7, <1>8 DEF PlacedInv, Places

LEMMA PlacedEnd ==
  ASSUME LogInv, NEW t \in Txn, PlacedInv(t), Commit(t) \/ Rollback(t)
  PROVE  PlacedInv(t)'
<1>1. phase'[t] = "idle" /\ pending'[t] = {}
  BY DEF Commit, Rollback, Release, LogInv, TypeOK
<1>2. CASE Commit(t)
  <2>1. History(t)' = History(t)
    BY <1>1, <1>2 DEF Commit, History
  <2> QED
    BY <1>1, <2>1 DEF PlacedInv, Places
<1>3. CASE Rollback(t)
  <2>1. revisions' = revisions /\ History(t)' = revisions
    BY <1>1, <1>3 DEF Rollback, tables, History
  <2>2. ASSUME NEW r \in revisions, r.op \in {"node.create", "node.move"}
        PROVE  PlacedAt(revisions, r)
    <3>1. PICK s \in History(t) :
            /\ s.node = r.row.parent /\ s.library = r.library
            /\ s.clock < r.clock /\ ~s.row.deleted
            /\ \A q \in History(t) : q.node = s.node /\ q.clock < r.clock => q.clock <= s.clock
      BY <2>2 DEF PlacedInv, PlacedAt, History
    <3>2. s \in revisions
      <4>1. s.clock \in Nat /\ r.clock \in Nat
        BY HistoryClocks DEF History
      <4> QED
        BY <3>1, <4>1, HistoryClocks DEF History
    <3> QED
      BY <3>1, <3>2 DEF PlacedAt, History
  <2> QED
    BY <1>1, <2>1, <2>2 DEF PlacedInv, Places
<1> QED
  BY <1>2, <1>3

LEMMA PlacedNext ==
  ASSUME Serial, LogInv, ShapeInv, \A t \in Txn : PlacedInv(t), [Next]_vars
  PROVE  \A t \in Txn : PlacedInv(t)'
<1>1. CASE UNCHANGED vars
  <2>1. /\ nodes' = nodes /\ heads' = heads /\ revisions' = revisions /\ phase' = phase
        /\ request' = request /\ draft' = draft /\ claim' = claim /\ pending' = pending
    BY <1>1 DEF vars
  <2>2. ASSUME NEW t \in Txn PROVE PlacedInv(t)'
    BY <2>1 DEF PlacedInv, History, Places, Target, Visible, PlacedAt
  <2> QED
    BY <2>2
<1>2. ASSUME NEW u \in Txn, Check(u) \/ WriteNode(u) \/ LogRevision(u) \/ Commit(u) \/ Rollback(u)
      PROVE  PlacedInv(u)'
  BY <1>2, PlacedCheck, PlacedWrite, PlacedLog, PlacedEnd
<1> QED
  BY <1>1, <1>2 DEF Next, Serial

(* What holds of the history as a transaction sees it holds of the log.    *)
LEMMA PlacedShows ==
  ASSUME LogInv, NEW t \in Txn, PlacedInv(t)
  PROVE  PlacedUnderLiveFolder
<1> SUFFICES ASSUME NEW r \in revisions, r.op \in {"node.create", "node.move"}
             PROVE  PlacedAt(revisions, r)
  BY DEF PlacedUnderLiveFolder, PlacedAt
<1>1. PICK s \in History(t) :
        /\ s.node = r.row.parent /\ s.library = r.library
        /\ s.clock < r.clock /\ ~s.row.deleted
        /\ \A q \in History(t) : q.node = s.node /\ q.clock < r.clock => q.clock <= s.clock
  BY DEF PlacedInv, PlacedAt, History
<1>2. s \in revisions
  <2>1. s.clock \in Nat /\ r.clock \in Nat
    BY HistoryClocks DEF History
  <2> QED
    BY <1>1, <2>1, HistoryClocks DEF History
<1> QED
  BY <1>1, <1>2 DEF PlacedAt, History

(* While transactions do not overlap, a node is only ever placed under a    *)
(* folder that is live at that point of the history: the check of a create *)
(* or move stays true until its revision has its clock.  With two           *)
(* connections a delete can commit in between, and TLC finds that run.      *)
THEOREM SerialPlacement ==
  ASSUME \A t, u \in Txn : t = u
  PROVE  Spec => []PlacedUnderLiveFolder
<1> DEFINE Inv == /\ LogInv /\ ShapeInv /\ \A t \in Txn : PlacedInv(t)
                  /\ Txn = {} => revisions = {}
<1>1. Init => Inv
  BY StoreInit, ShapeInit, PlacedInit DEF Init
<1>2. Inv /\ [Next]_vars => Inv'
  BY LogInvNext, ShapeNext, PlacedNext DEF Serial, Next, vars
<1>3. Inv => PlacedUnderLiveFolder
  BY PlacedShows DEF PlacedUnderLiveFolder
<1> QED
  BY <1>1, <1>2, <1>3, PTL DEF Spec
-----------------------------------------------------------------------------
(* One connection: the rows its transaction sees have no cycle, and a move  *)
(* it has checked keeps that.                                              *)
StoredAcyclic == \A S \in SUBSET {m \in Node : nodes[m] # None} :
  S # {} => \E m \in S : nodes[m].parent \notin S
SeenAcyclic(t) == \A S \in SUBSET {m \in Node : Visible(t, m) # None} :
  S # {} => \E m \in S : Visible(t, m).parent \notin S

AcyclicInv(t) ==
  /\ StoredAcyclic /\ SeenAcyclic(t)
  /\ phase[t] = "write" /\ request[t].op = "node.move" =>
       MoveKeepsTree(t, request[t].node, request[t].row.parent)

LEMMA AcyclicInit == Init => \A t \in Txn : AcyclicInv(t)
BY DEF Init, AcyclicInv, StoredAcyclic, SeenAcyclic, Visible, NoDraft

(* A parent that t sees is a node t sees. *)
LEMMA ParentsAreSeen ==
  ASSUME LogInv, ShapeInv, NEW t \in Txn, NEW n \in Node,
         Visible(t, n) # None, Visible(t, n).parent # None
  PROVE  Visible(t, n).parent \in Node /\ Visible(t, Visible(t, n).parent) # None
<1>1. Visible(t, n) \in Row /\ Visible(t, n).parent \in Node
  BY DEF LogInv, TypeOK, Visible, Row
<1>2. CASE draft[t][n] # None
  BY <1>2 DEF ShapeInv, Drafted, FolderSeen, Visible
<1>3. CASE draft[t][n] = None
  BY <1>1, <1>3 DEF ShapeInv, BelowFolders, Visible
<1> QED
  BY <1>1, <1>2, <1>3

(* If the walk from p meets a root and never n, no set of nodes that is     *)
(* closed under parents once n is moved below p contains n.                *)
LEMMA WalkLeaves ==
  ASSUME NEW t \in Txn, NEW n \in Node, NEW p \in Node, MoveKeepsTree(t, n, p),
         NEW S \in SUBSET Node, p \in S,
         \A m \in S \ {n} : Visible(t, m).parent \in S
  PROVE  FALSE
<1> USE ConstantsAssumption
<1> DEFINE up == Ancestors(t, p)
<1>1. PICK i \in 1 .. MaxHops : up[i] = None /\ \A j \in 0 .. i - 1 : up[j] # n
  BY DEF MoveKeepsTree
<1> DEFINE Out == {j \in 0 .. i : up[j] \notin S}
<1>2. up[0] = p /\ \A j \in 1 .. MaxHops :
        up[j] = IF up[j - 1] = None THEN None ELSE Visible(t, up[j - 1]).parent
  BY AncestorsWalk
<1> HIDE DEF up
<1>3. None \notin S
  BY ConstantsAssumption
<1>4. i \in Out
  BY <1>1, <1>3
<1>5. PICK j \in Out : \A k \in Out : j <= k
  <2>1. Out \in SUBSET Nat
    OBVIOUS
  <2> QED
    BY <1>4, <2>1, Smallest
<1>6. j \in 1 .. MaxHops /\ j - 1 \in 0 .. i - 1
  BY <1>2, <1>5
<1>7. up[j - 1] \in S
  BY <1>5, <1>6
<1>8. up[j] = Visible(t, up[j - 1]).parent /\ up[j - 1] # n
  BY <1>1, <1>2, <1>3, <1>6, <1>7
<1> QED
  BY <1>5, <1>7, <1>8

LEMMA AcyclicCheck ==
  ASSUME LogInv, ShapeInv, NEW t \in Txn, AcyclicInv(t), Check(t)
  PROVE  AcyclicInv(t)'
<1>1. PICK op \in OpType, n \in Node, row \in Row : Ask(t, op, n, row) /\ Sees(t, op, n, row)
  BY CheckSees
<1> DEFINE q == [op |-> op, node |-> n, row |-> row]
<1>2. phase'[t] = "write" /\ request'[t] = q /\ UNCHANGED <<nodes, draft>>
  BY <1>1 DEF Ask, tables, LogInv, TypeOK
<1>3. q.op = op /\ q.node = n /\ q.row = row
  OBVIOUS
<1> HIDE DEF q
<1>4. op = "node.move" => MoveKeepsTree(t, n, row.parent)
  BY <1>1 DEF Sees
<1>5. op = "node.move" => MoveKeepsTree(t, n, row.parent)'
  BY <1>2, <1>4 DEF MoveKeepsTree, Ancestors, Visible
<1> QED
  BY <1>2, <1>3, <1>5 DEF AcyclicInv, StoredAcyclic, SeenAcyclic, Visible, MoveKeepsTree, Ancestors

LEMMA AcyclicWrite ==
  ASSUME LogInv, ShapeInv, NEW t \in Txn, AcyclicInv(t), WriteNode(t)
  PROVE  AcyclicInv(t)'
<1> USE ConstantsAssumption
<1> DEFINE q == request[t]
           n == q.node
           new == Written(q, Visible(t, n))
<1>1. /\ phase[t] = "write" /\ q \in Request /\ n \in Node /\ q.row \in Row
      /\ q.op \notin Creates => Visible(t, n) # None
  BY DEF WriteNode, LogInv, OperationInv, Request
<1>2. Visible(t, n) \in Row \cup {None}
  BY <1>1 DEF LogInv, TypeOK, Visible
<1>3. new \in Row /\ new # None
  BY <1>1, <1>2, WrittenIsRow
<1>4. /\ phase'[t] = "log" /\ request'[t] = q /\ draft'[t] = [draft[t] EXCEPT ![n] = new]
      /\ UNCHANGED nodes
  BY DEF WriteNode, LogInv, TypeOK, tables
<1>5. \A m \in Node : Visible(t, m)' = IF m = n THEN new ELSE Visible(t, m)
  BY <1>1, <1>3, <1>4 DEF Visible, LogInv, TypeOK
<1>6. /\ q.op \in {"node.create", "node.move"} => FolderSeen(t, q.row.library, q.row.parent)
      /\ q.op = "library.create" => q.row.parent = None
  BY <1>1 DEF ShapeInv, Asked
<1>7. new.parent = IF q.op \in Creates \cup {"node.move"} THEN q.row.parent
                   ELSE Visible(t, n).parent
  BY <1>1, <1>2, WrittenKeepsShape DEF Written, Creates
<1>8. q.op \in Creates => Visible(t, n) = None
  BY <1>1, RowLockInvParts DEF LogInv, InsertUnseen, Visible
<1> HIDE DEF new
<1>9. ASSUME NEW S \in SUBSET {m \in Node : Visible(t, m)' # None}, S # {}
      PROVE  \E m \in S : Visible(t, m)'.parent \notin S
  <2>0. \A R \in SUBSET {m \in Node : Visible(t, m) # None} :
          R # {} => \E m \in R : Visible(t, m).parent \notin R
    BY DEF AcyclicInv, StoredAcyclic, SeenAcyclic
  <2>1. CASE n \notin S
    BY <1>5, <1>9, <2>0, <2>1
  <2>2. CASE n \in S /\ q.op \in Creates
    <3>1. new.parent # n
      BY <1>6, <1>7, <1>8, <2>2 DEF FolderSeen, Creates
    <3>2. CASE S = {n}
      BY <1>5, <2>2, <3>1, <3>2
    <3>3. CASE S # {n}
      <4>1. PICK m \in S \ {n} : Visible(t, m).parent \notin S \ {n}
        <5>1. S \ {n} \in SUBSET {m \in Node : Visible(t, m) # None} /\ S \ {n} # {}
          BY <1>5, <1>9, <2>2, <3>3
        <5> QED
          BY <2>0, <5>1
      <4>2. Visible(t, m).parent # n
        BY <1>5, <1>8, <1>9, <2>2, <4>1, ParentsAreSeen
      <4> QED
        BY <1>5, <1>9, <4>1, <4>2
    <3> QED
      BY <3>2, <3>3
  <2>3. CASE n \in S /\ q.op = "node.move"
    <3> SUFFICES ASSUME \A m \in S : Visible(t, m)'.parent \in S
                 PROVE  FALSE
      OBVIOUS
    <3>1. MoveKeepsTree(t, n, q.row.parent)
      BY <1>1, <2>3 DEF AcyclicInv
    <3>2. q.row.parent \in S /\ q.row.parent \in Node
      BY <1>5, <1>6, <1>7, <2>3 DEF FolderSeen
    <3>3. \A m \in S \ {n} : Visible(t, m).parent \in S
      BY <1>5, <1>9
    <3> QED
      BY <1>1, <1>9, <3>1, <3>2, <3>3, WalkLeaves
  <2>4. CASE n \in S /\ q.op \notin Creates \cup {"node.move"}
    <3>1. \A m \in Node : Visible(t, m)' # None <=> Visible(t, m) # None
      BY <1>1, <1>3, <1>5, <2>4
    <3>2. new.parent = Visible(t, n).parent
      BY <1>7, <2>4
    <3> QED
      BY <1>5, <1>9, <2>0, <3>1, <3>2
  <2> QED
    BY <2>1, <2>2, <2>3, <2>4
<1>10. StoredAcyclic'
  BY <1>4 DEF AcyclicInv, StoredAcyclic, SeenAcyclic
<1> QED
  BY <1>4, <1>9, <1>10 DEF AcyclicInv, StoredAcyclic, SeenAcyclic

LEMMA AcyclicRest ==
  ASSUME LogInv, NEW t \in Txn, AcyclicInv(t), LogRevision(t) \/ Commit(t) \/ Rollback(t)
  PROVE  AcyclicInv(t)'
<1>1. phase'[t] # "write"
  BY DEF LogRevision, Commit, Rollback, Release, LogInv, TypeOK
<1>2. CASE LogRevision(t)
  BY <1>1, <1>2 DEF LogRevision, tables, AcyclicInv, StoredAcyclic, SeenAcyclic, Visible
<1>3. CASE Commit(t)
  <2>1. \A n \in Node : nodes'[n] = Visible(t, n) /\ draft'[t][n] = None
    BY <1>3 DEF Commit, Release, NoDraft, LogInv, TypeOK
  <2>2. \A n \in Node : nodes'[n] = Visible(t, n) /\ Visible(t, n)' = Visible(t, n)
    BY <2>1 DEF Visible
  <2> QED
    BY <1>1, <2>2 DEF AcyclicInv, StoredAcyclic, SeenAcyclic
<1>4. CASE Rollback(t)
  <2>1. \A n \in Node : nodes'[n] = nodes[n] /\ draft'[t][n] = None
    BY <1>4 DEF Rollback, Release, NoDraft, tables, LogInv, TypeOK
  <2>2. \A n \in Node : nodes'[n] = nodes[n] /\ Visible(t, n)' = nodes[n]
    BY <2>1 DEF Visible
  <2> QED
    BY <1>1, <2>2 DEF AcyclicInv, StoredAcyclic, SeenAcyclic
<1> QED
  BY <1>2, <1>3, <1>4

LEMMA AcyclicNext ==
  ASSUME Serial, LogInv, ShapeInv, \A t \in Txn : AcyclicInv(t), [Next]_vars
  PROVE  \A t \in Txn : AcyclicInv(t)'
<1>1. CASE UNCHANGED vars
  BY <1>1 DEF vars, AcyclicInv, StoredAcyclic, SeenAcyclic, Visible, MoveKeepsTree, Ancestors
<1>2. ASSUME NEW u \in Txn, Check(u) \/ WriteNode(u) \/ LogRevision(u) \/ Commit(u) \/ Rollback(u)
      PROVE  AcyclicInv(u)'
  BY <1>2, AcyclicCheck, AcyclicWrite, AcyclicRest
<1> QED
  BY <1>1, <1>2 DEF Next, Serial

(* While transactions do not overlap, no sequence of creates, moves,        *)
(* updates, deletes and restores, of any length and on any number of nodes, *)
(* makes a node its own ancestor.  With two connections two moves that each *)
(* check the chain before the other commits do: TLC finds that run.         *)
THEOREM SerialMovesKeepTree ==
  ASSUME \A t, u \in Txn : t = u
  PROVE  Spec => []MoveDoesNotCreateCycles
<1> DEFINE Inv == /\ LogInv /\ ShapeInv /\ \A t \in Txn : AcyclicInv(t)
                  /\ Txn = {} => nodes = [n \in Node |-> None]
<1>1. Init => Inv
  BY StoreInit, ShapeInit, AcyclicInit DEF Init
<1>2. Inv /\ [Next]_vars => Inv'
  BY LogInvNext, ShapeNext, AcyclicNext DEF Serial, Next, vars
<1>3. Inv => MoveDoesNotCreateCycles
  BY DEF MoveDoesNotCreateCycles, AcyclicInv, StoredAcyclic, SeenAcyclic
<1> QED
  BY <1>1, <1>2, <1>3, PTL DEF Spec
=============================================================================
