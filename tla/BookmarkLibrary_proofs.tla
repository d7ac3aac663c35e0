----------------------- MODULE BookmarkLibrary_proofs ------------------------
(* Theorems about BookmarkLibrary, for every choice of its constants. *)
EXTENDS BookmarkLibrary, TLAPS

(* Setting columns of a row gives a row of the same library. *)
LEMMA ColumnsKeepRow ==
  ASSUME NEW row \in Row
  PROVE  /\ \A title \in Title, url \in Url \cup {None} :
              /\ WithContent(row, title, url) \in Row
              /\ WithContent(row, title, url).library = row.library
         /\ \A p \in Node \cup {None} : /\ WithParent(row, p) \in Row
                                     /\ WithParent(row, p).library = row.library
         /\ \A flag \in BOOLEAN : /\ WithDeleted(row, flag) \in Row
                                  /\ WithDeleted(row, flag).library = row.library
BY DEF Row, WithContent, WithParent, WithDeleted

(* What a statement writes is a row whenever what it overwrites is one or   *)
(* it inserts.                                                              *)
LEMMA WrittenIsRow ==
  ASSUME NEW req \in Request, NEW row \in Row \cup {None},
         req.op \notin Creates => row # None
  PROVE  /\ Written(req, row) \in Row
         /\ req.op \notin Creates => Written(req, row).library = row.library
<1>1. CASE req.op \in Creates
  BY <1>1 DEF Written, Creates, Request
<1>2. CASE req.op \notin Creates
  <2>1. row \in Row
    BY <1>2
  <2>2. /\ req.row.title \in Title /\ req.row.url \in Url \cup {None}
        /\ req.row.deleted \in BOOLEAN /\ req.row.parent \in Node \cup {None}
    BY DEF Request, Row
  <2>3. QED
    BY <1>2, <2>1, <2>2, ColumnsKeepRow DEF Written, Creates
<1>3. QED
  BY <1>1, <1>2

(* Whatever the operation, its check only asks for a row to be written, on  *)
(* a node that exists unless the operation inserts it.                      *)
LEMMA CheckAsks ==
  ASSUME TypeOK, NEW t \in Txn, Check(t)
  PROVE  /\ phase[t] \in {"idle", "done"}
         /\ \E op \in OpType, n \in Node, row \in Row :
              /\ Ask(t, op, n, row)
              /\ op \notin Creates => Visible(t, n) # None
              /\ op \in Creates => Fresh(n)
<1> USE ConstantsAssumption
<1>0. \A n \in Node : Visible(t, n) \in Row \cup {None}
  BY DEF TypeOK, Visible
<1>1. CASE \E l \in Library, n \in Node, title \in Title : CheckCreateLibrary(t, l, n, title)
  BY <1>1 DEF CheckCreateLibrary, MayRun, Row, Creates, OpType
<1>2. CASE \E l \in Library, n, p \in Node, type \in NodeType, title \in Title,
              url \in Url \cup {None} : CheckCreate(t, l, n, p, type, title, url)
  <2>1. PICK l \in Library, n \in Node, p \in Node, type \in NodeType, title \in Title,
             url \in Url \cup {None} : CheckCreate(t, l, n, p, type, title, url)
    BY <1>2
  <2> DEFINE row == [library |-> l, type |-> type, parent |-> p, title |-> title,
                     url |-> url, deleted |-> FALSE]
  <2>2. row \in Row
    BY DEF Row
  <2>3. Ask(t, "node.create", n, row) /\ Fresh(n) /\ phase[t] \in {"idle", "done"}
    BY <2>1 DEF CheckCreate, MayRun
  <2> HIDE DEF row
  <2>4. QED
    BY <2>2, <2>3 DEF Creates, OpType
<1>3. CASE \E n \in Node, title \in Title \cup {None}, url \in Url \cup {None} :
              CheckUpdate(t, n, title, url)
  <2>1. PICK n \in Node, title \in Title \cup {None}, url \in Url \cup {None} :
              CheckUpdate(t, n, title, url)
    BY <1>3
  <2>2. Visible(t, n) \in Row
    BY <1>0, <2>1 DEF CheckUpdate, OwnedChild
  <2> DEFINE newTitle == IF title = None THEN Visible(t, n).title ELSE title
             newUrl   == IF url = None THEN Visible(t, n).url ELSE url
  <2>3. newTitle \in Title /\ newUrl \in Url \cup {None}
    BY <2>2 DEF Row
  <2>4. WithContent(Visible(t, n), newTitle, newUrl) \in Row
    BY <2>2, <2>3, ColumnsKeepRow
  <2>5. QED
    BY <2>1, <2>2, <2>4 DEF CheckUpdate, MayRun, OwnedChild, OpType, Creates
<1>4. CASE \E n, p \in Node : CheckMove(t, n, p)
  <2>1. PICK n \in Node, p \in Node : CheckMove(t, n, p)
    BY <1>4
  <2>2. Visible(t, n) \in Row
    BY <1>0, <2>1 DEF CheckMove, OwnedChild
  <2>3. WithParent(Visible(t, n), p) \in Row
    BY <2>2, ColumnsKeepRow
  <2>4. QED
    BY <2>1, <2>2, <2>3 DEF CheckMove, MayRun, OwnedChild, OpType, Creates
<1>5. CASE \E n \in Node, op \in {"node.delete", "node.restore"} : CheckSetDeleted(t, n, op)
  <2>1. PICK n \in Node, op \in {"node.delete", "node.restore"} : CheckSetDeleted(t, n, op)
    BY <1>5
  <2>2. Visible(t, n) \in Row
    BY <1>0, <2>1 DEF CheckSetDeleted, OwnedChild
  <2>3. WithDeleted(Visible(t, n), op = "node.delete") \in Row
    BY <2>2, ColumnsKeepRow
  <2>4. QED
    BY <2>1, <2>2, <2>3 DEF CheckSetDeleted, MayRun, OwnedChild, OpType, Creates
<1>6. QED
  BY <1>1, <1>2, <1>3, <1>4, <1>5 DEF Check
-----------------------------------------------------------------------------
(* The type invariant, with what an open operation may rely on. *)

LEMMA TypeInit == Init => TypeOK /\ OperationInv
BY DEF Init, TypeOK, OperationInv, NoDraft, NoClaim

LEMMA TypeNext == TypeOK /\ OperationInv /\ [Next]_vars => TypeOK' /\ OperationInv'
<1> SUFFICES ASSUME TypeOK, OperationInv, [Next]_vars
             PROVE  TypeOK' /\ OperationInv'
  OBVIOUS
<1> USE ConstantsAssumption
<1>1. ASSUME NEW t \in Txn, Check(t)
      PROVE  TypeOK' /\ OperationInv'
  <2>1. PICK op \in OpType, n \in Node, row \in Row :
               Ask(t, op, n, row) /\ (op \notin Creates => Visible(t, n) # None)
    BY <1>1, CheckAsks
  <2>2. [op |-> op, node |-> n, row |-> row] \in Request
    BY DEF Request
  <2>3. TypeOK'
    BY <2>1, <2>2 DEF Ask, TypeOK, tables
  <2>4. OperationInv'
    BY <2>1, <2>2 DEF Ask, TypeOK, OperationInv, Visible, tables
  <2>5. QED
    BY <2>3, <2>4
<1>2. ASSUME NEW t \in Txn, WriteNode(t)
      PROVE  TypeOK' /\ OperationInv'
  <2>1. request[t] \in Request /\ request[t].node \in Node
    BY <1>2 DEF WriteNode, OperationInv, Request
  <2>2. Visible(t, request[t].node) \in Row \cup {None}
    BY <2>1 DEF TypeOK, Visible
  <2>3. Written(request[t], Visible(t, request[t].node)) \in Row
    BY <1>2, <2>1, <2>2, WrittenIsRow DEF WriteNode, OperationInv
  <2>4. TypeOK'
    BY <1>2, <2>1, <2>3 DEF WriteNode, TypeOK, tables
  <2>5. OperationInv'
    BY <1>2, <2>1, <2>3 DEF WriteNode, TypeOK, OperationInv, Visible, tables
  <2>6. QED
    BY <2>4, <2>5
<1>3. ASSUME NEW t \in Txn, LogRevision(t)
      PROVE  TypeOK' /\ OperationInv'
  <2>1. request[t] \in Request /\ draft[t][request[t].node] \in Row
    BY <1>3 DEF LogRevision, OperationInv, TypeOK, Request
  <2> DEFINE row == draft[t][request[t].node]
             c   == VisibleHead(t, row.library) + 1
             rev == [library |-> row.library, clock |-> c, op |-> request[t].op,
                     node |-> request[t].node, row |-> row]
  <2>2. row.library \in Library /\ request[t].op \in OpType /\ request[t].node \in Node
    BY <2>1 DEF Row, Request
  <2>3. c \in Nat
    BY <2>2 DEF VisibleHead, TypeOK
  <2>4. rev \in Revision
    BY <2>1, <2>2, <2>3 DEF Revision
  <2>5. /\ claim' = [claim EXCEPT ![t] = [@ EXCEPT ![row.library] = c]]
        /\ pending' = [pending EXCEPT ![t] = @ \cup {rev}]
        /\ request' = [request EXCEPT ![t] = None]
        /\ phase' = [phase EXCEPT ![t] = "done"]
        /\ UNCHANGED <<nodes, heads, revisions, draft>>
    BY <1>3 DEF LogRevision, tables
  <2> HIDE DEF row, c, rev
  <2>6. TypeOK'
    <3>1. claim' \in [Txn -> [Library -> Nat]]
      BY <2>2, <2>3, <2>5 DEF TypeOK
    <3>2. pending' \in [Txn -> SUBSET Revision]
      BY <2>4, <2>5 DEF TypeOK
    <3>3. QED
      BY <2>5, <3>1, <3>2 DEF TypeOK
  <2>7. OperationInv'
    BY <1>3 DEF LogRevision, TypeOK, OperationInv, Visible, tables
  <2>8. QED
    BY <2>6, <2>7
<1>4. ASSUME NEW t \in Txn, Commit(t)
      PROVE  TypeOK' /\ OperationInv'
  <2>1. TypeOK'
    BY <1>4 DEF Commit, Release, TypeOK, Visible, VisibleHead, NoDraft, NoClaim
  <2>2. OperationInv'
    <3> SUFFICES ASSUME NEW u \in Txn, phase'[u] # "idle"
                 PROVE  /\ phase'[u] \in {"write", "log"} => request'[u] \in Request
                        /\ phase'[u] = "write" /\ request'[u].op \notin Creates =>
                             Visible(u, request[u].node)' # None
                        /\ phase'[u] = "log" => draft'[u][request'[u].node] # None
      BY <2>1 DEF OperationInv, Visible, TypeOK
    <3>1. /\ u # t /\ phase'[u] = phase[u]
          /\ request'[u] = request[u] /\ draft'[u] = draft[u]
      BY <1>4 DEF Commit, Release, TypeOK
    <3>2. \A n \in Node : nodes[n] # None => nodes'[n] # None
      BY <1>4 DEF Commit, Visible
    <3>3. phase[u] \in {"write", "log"} => request[u].node \in Node
      BY DEF OperationInv, Request
    <3>4. QED
      BY <3>1, <3>2, <3>3 DEF OperationInv, Visible
  <2>3. QED
    BY <2>1, <2>2
<1>5. ASSUME NEW t \in Txn, Rollback(t)
      PROVE  TypeOK' /\ OperationInv'
  <2>1. TypeOK'
    BY <1>5 DEF Rollback, Release, TypeOK, NoDraft, NoClaim, tables
  <2>2. OperationInv'
    BY <1>5 DEF Rollback, Release, TypeOK, OperationInv, Visible, NoDraft, tables
  <2>3. QED
    BY <2>1, <2>2
<1>6. CASE UNCHANGED vars
  BY <1>6 DEF vars, TypeOK, OperationInv, Visible
<1>7. QED
  BY <1>1, <1>2, <1>3, <1>4, <1>5, <1>6 DEF Next

(* Every reachable state of every instance is well typed, and an operation *)
(* never finds the row it is about to write gone.                          *)
THEOREM TypeCorrect == Spec => [](TypeOK /\ OperationInv)
<1>1. Init => TypeOK /\ OperationInv
  BY TypeInit
<1>2. (TypeOK /\ OperationInv) /\ [Next]_vars => (TypeOK /\ OperationInv)'
  BY TypeNext
<1>3. QED
  BY <1>1, <1>2, PTL DEF Spec
-----------------------------------------------------------------------------
(* The clocks of a log.  Numbered is GapFreeClocks for one set of revisions *)
(* and one library, stated point by point.                                  *)

Numbered(S, l, lo, hi) ==
  /\ \A r \in S : r.library = l => lo < r.clock /\ r.clock <= hi
  /\ \A c \in Nat : lo < c /\ c <= hi => \E r \in S : r.library = l /\ r.clock = c
  /\ \A r, s \in S : r.library = l /\ s.library = l /\ r.clock = s.clock => r = s

LEMMA NumberedIsInterval ==
  ASSUME NEW S \in SUBSET Revision, NEW l \in Library, NEW lo \in Nat, NEW hi \in Nat
  PROVE  Numbered(S, l, lo, hi) <=>
           /\ {r.clock : r \in LogOf(S, l)} = lo + 1 .. hi
           /\ \A r, s \in LogOf(S, l) : r.clock = s.clock => r = s
<1>1. \A r \in S : r.clock \in Nat
  BY DEF Revision
<1>2. ASSUME Numbered(S, l, lo, hi)
      PROVE  {r.clock : r \in LogOf(S, l)} = lo + 1 .. hi
  BY <1>1, <1>2 DEF Numbered, LogOf
<1>3. ASSUME {r.clock : r \in LogOf(S, l)} = lo + 1 .. hi
      PROVE  /\ \A r \in S : r.library = l => lo < r.clock /\ r.clock <= hi
             /\ \A c \in Nat : lo < c /\ c <= hi => \E r \in S : r.library = l /\ r.clock = c
  <2>1. \A r \in S : r.library = l => r.clock \in lo + 1 .. hi
    BY <1>3 DEF LogOf
  <2>2. \A c \in lo + 1 .. hi : \E r \in S : r.library = l /\ r.clock = c
    BY <1>3 DEF LogOf
  <2>3. QED
    BY <1>1, <2>1, <2>2
<1>4. QED
  BY <1>2, <1>3 DEF Numbered, LogOf

LEMMA NumberedAppend ==
  ASSUME NEW S \in SUBSET Revision, NEW l \in Library, NEW lo \in Nat, NEW hi \in Nat,
         lo <= hi, Numbered(S, l, lo, hi),
         NEW rev \in Revision, rev.library = l, rev.clock = hi + 1
  PROVE  Numbered(S \cup {rev}, l, lo, hi + 1)
<1>1. \A r \in S : r.clock \in Nat
  BY DEF Revision
<1>2. \A c \in Nat : c <= hi + 1 => c <= hi \/ c = hi + 1
  OBVIOUS
<1>3. QED
  BY <1>1, <1>2 DEF Numbered

(* A transaction without a claim has logged nothing, whatever the head is. *)
LEMMA NumberedNothing ==
  ASSUME NEW S \in SUBSET Revision, NEW l \in Library, NEW lo \in Nat, NEW hi \in Nat,
         Numbered(S, l, lo, 0)
  PROVE  Numbered(S, l, hi, hi) /\ Numbered(S, l, hi, 0)
<1>1. \A r \in S : r.clock \in Nat
  BY DEF Revision
<1>2. \A r \in S : r.library # l
  BY <1>1 DEF Numbered
<1>3. \A c \in Nat : ~(hi < c /\ c <= hi) /\ ~(hi < c /\ c <= 0)
  OBVIOUS
<1>4. QED
  BY <1>2, <1>3 DEF Numbered

LEMMA NumberedOther ==
  ASSUME NEW S, NEW rev, NEW l \in Library, NEW lo \in Nat, NEW hi \in Nat,
         Numbered(S, l, lo, hi), rev.library # l
  PROVE  Numbered(S \cup {rev}, l, lo, hi)
BY DEF Numbered

LEMMA NumberedJoin ==
  ASSUME NEW S \in SUBSET Revision, NEW P \in SUBSET Revision, NEW l \in Library,
         NEW mid \in Nat, NEW hi \in Nat, mid <= hi,
         Numbered(S, l, 0, mid), Numbered(P, l, mid, hi)
  PROVE  Numbered(S \cup P, l, 0, hi)
<1>1. \A r \in S \cup P : r.clock \in Nat
  BY DEF Revision
<1>2. QED
  BY <1>1 DEF Numbered

(* ClockInv with its clocks stated point by point. *)
Exclusive == \A t, u \in Txn, l \in Library : claim[t][l] > 0 /\ claim[u][l] > 0 => t = u
Claims == \A t \in Txn, l \in Library :
  /\ claim[t][l] > 0 => claim[t][l] > heads[l]
  /\ Numbered(pending[t], l, heads[l], claim[t][l])
Committed == \A l \in Library : Numbered(revisions, l, 0, heads[l])

LEMMA PointwiseClockInv ==
  ASSUME TypeOK
  PROVE  HeadLockInv /\ GapFreeClocks <=> Exclusive /\ Claims /\ Committed
<1>1. \A t \in Txn, l \in Library :
        pending[t] \in SUBSET Revision /\ heads[l] \in Nat /\ claim[t][l] \in Nat
  BY DEF TypeOK
<1>2. revisions \in SUBSET Revision
  BY DEF TypeOK
<1>3. GapFreeClocks <=> Committed
  <2>1. \A l \in Library : Numbered(revisions, l, 0, heads[l]) <=>
           /\ {r.clock : r \in LogOf(revisions, l)} = 0 + 1 .. heads[l]
           /\ \A r, s \in LogOf(revisions, l) : r.clock = s.clock => r = s
    BY <1>1, <1>2, NumberedIsInterval DEF TypeOK
  <2>2. 0 + 1 = 1
    OBVIOUS
  <2>3. QED
    BY <2>1, <2>2 DEF GapFreeClocks, Committed
<1>4. HeadLockInv <=> Exclusive /\ Claims
  <2>1. \A t \in Txn, l \in Library : Numbered(pending[t], l, heads[l], claim[t][l]) <=>
           /\ {r.clock : r \in LogOf(pending[t], l)} = heads[l] + 1 .. claim[t][l]
           /\ \A r, s \in LogOf(pending[t], l) : r.clock = s.clock => r = s
    BY <1>1, NumberedIsInterval
  <2>2. QED
    BY <2>1 DEF HeadLockInv, Exclusive, Claims
<1>5. QED
  BY <1>3, <1>4

LEMMA ClockInit == Init => Exclusive /\ Claims /\ Committed
BY DEF Init, Exclusive, Claims, Committed, Numbered, NoClaim

LEMMA ClockNext ==
  TypeOK /\ OperationInv /\ Exclusive /\ Claims /\ Committed /\ [Next]_vars
    => Exclusive' /\ Claims' /\ Committed'
<1> SUFFICES ASSUME TypeOK, OperationInv, Exclusive, Claims, Committed, [Next]_vars
             PROVE  Exclusive' /\ Claims' /\ Committed'
  OBVIOUS
<1> USE ConstantsAssumption
<1>1. ASSUME UNCHANGED <<heads, revisions, claim, pending>>
      PROVE  Exclusive' /\ Claims' /\ Committed'
  BY <1>1 DEF Exclusive, Claims, Committed
<1>2. ASSUME NEW t \in Txn, LogRevision(t)
      PROVE  Exclusive' /\ Claims' /\ Committed'
  <2> DEFINE n   == request[t].node
             row == draft[t][n]
             l   == row.library
             c   == VisibleHead(t, l) + 1
             rev == [library |-> l, clock |-> c, op |-> request[t].op,
                     node |-> n, row |-> row]
  <2>1. /\ claim' = [claim EXCEPT ![t] = [@ EXCEPT ![l] = c]]
        /\ pending' = [pending EXCEPT ![t] = @ \cup {rev}]
        /\ UNCHANGED <<heads, revisions>>
        /\ \A u \in Txn \ {t} : ~(claim[u][l] > 0)
    BY <1>2 DEF LogRevision, tables, HeadLocked
  <2>2. row \in Row /\ n \in Node /\ request[t].op \in OpType
    BY <1>2 DEF LogRevision, OperationInv, TypeOK, Request
  <2>3. l \in Library
    BY <2>2 DEF Row
  <2>4. c = VisibleHead(t, l) + 1
    OBVIOUS
  <2>5. rev = [library |-> l, clock |-> c, op |-> request[t].op, node |-> n, row |-> row]
    OBVIOUS
  <2> HIDE DEF n, row, l, c, rev
  <2>6. c \in Nat /\ c > heads[l] /\ heads[l] \in Nat /\ claim[t][l] \in Nat
    BY <2>3, <2>4 DEF VisibleHead, TypeOK, Claims
  <2>7. rev \in Revision /\ rev.library = l /\ rev.clock = c
    BY <2>2, <2>3, <2>5, <2>6 DEF Revision
  <2>8. Numbered(pending[t], l, heads[l], c - 1) /\ heads[l] <= c - 1 /\ c - 1 \in Nat
    <3>1. Numbered(pending[t], l, heads[l], claim[t][l]) /\ pending[t] \in SUBSET Revision
      BY <2>3 DEF Claims, TypeOK
    <3>2. CASE claim[t][l] > 0
      <4>1. c - 1 = claim[t][l]
        BY <2>4, <2>6, <3>2 DEF VisibleHead
      <4>2. QED
        BY <2>6, <3>1, <4>1
    <3>3. CASE claim[t][l] = 0
      <4>1. c - 1 = heads[l]
        BY <2>4, <2>6, <3>3 DEF VisibleHead
      <4>2. Numbered(pending[t], l, heads[l], heads[l])
        BY <2>3, <2>6, <3>1, <3>3, NumberedNothing
      <4>3. QED
        BY <2>6, <4>1, <4>2
    <3>4. QED
      BY <2>6, <3>2, <3>3
  <2>9. Exclusive'
    BY <2>1, <2>3, <2>6 DEF Exclusive, TypeOK
  <2>10. Claims'
    <3> SUFFICES ASSUME NEW u \in Txn, NEW k \in Library
                 PROVE  /\ claim'[u][k] > 0 => claim'[u][k] > heads[k]
                        /\ Numbered(pending'[u], k, heads[k], claim'[u][k])
      BY <2>1 DEF Claims
    <3>1. CASE u = t /\ k = l
      <4>1. pending'[t] = pending[t] \cup {rev} /\ claim'[t][l] = c
        BY <2>1, <2>3 DEF TypeOK
      <4>2. Numbered(pending[t] \cup {rev}, l, heads[l], (c - 1) + 1)
        <5>1. rev.clock = (c - 1) + 1 /\ pending[t] \in SUBSET Revision
          BY <2>6, <2>7 DEF TypeOK
        <5>2. QED
          BY <2>3, <2>6, <2>7, <2>8, <5>1, NumberedAppend
      <4>3. (c - 1) + 1 = c
        BY <2>6
      <4>4. QED
        BY <2>6, <3>1, <4>1, <4>2, <4>3
    <3>2. CASE u = t /\ k # l
      <4>1. pending'[t] = pending[t] \cup {rev} /\ claim'[t][k] = claim[t][k]
        BY <2>1, <3>2 DEF TypeOK
      <4>2. Numbered(pending[t] \cup {rev}, k, heads[k], claim[t][k])
        BY <2>7, <3>2, NumberedOther DEF Claims, TypeOK
      <4>3. QED
        BY <3>2, <4>1, <4>2 DEF Claims
    <3>3. CASE u # t
      BY <2>1, <3>3 DEF Claims, TypeOK
    <3>4. QED
      BY <3>1, <3>2, <3>3
  <2>11. Committed'
    BY <2>1 DEF Committed
  <2>12. QED
    BY <2>9, <2>10, <2>11
<1>3. ASSUME NEW t \in Txn, Commit(t)
      PROVE  Exclusive' /\ Claims' /\ Committed'
  <2>1. /\ heads' = [l \in Library |-> VisibleHead(t, l)]
        /\ revisions' = revisions \cup pending[t]
        /\ claim' = [claim EXCEPT ![t] = NoClaim]
        /\ pending' = [pending EXCEPT ![t] = {}]
    BY <1>3 DEF Commit, Release
  <2>2. Exclusive'
    BY <2>1 DEF Exclusive, TypeOK, NoClaim
  <2>3. \A l \in Library : heads[l] \in Nat /\ heads'[l] \in Nat /\ heads[l] <= heads'[l]
    BY <2>1 DEF VisibleHead, TypeOK, Claims
  <2>4. Claims'
    <3> SUFFICES ASSUME NEW u \in Txn, NEW l \in Library
                 PROVE  /\ claim'[u][l] > 0 => claim'[u][l] > heads'[l]
                        /\ Numbered(pending'[u], l, heads'[l], claim'[u][l])
      BY DEF Claims
    <3>1. CASE u = t
      <4>1. claim'[u][l] = 0 /\ pending'[u] = {}
        BY <2>1, <3>1 DEF TypeOK, NoClaim
      <4>2. Numbered({}, l, heads'[l], 0)
        BY <2>3 DEF Numbered
      <4>3. QED
        BY <4>1, <4>2
    <3>2. CASE u # t /\ claim[t][l] > 0
      <4>1. claim'[u][l] = 0 /\ pending'[u] = pending[u]
        BY <2>1, <3>2 DEF TypeOK, Exclusive
      <4>2. claim[u][l] = 0
        BY <3>2 DEF Exclusive, TypeOK
      <4>3. Numbered(pending[u], l, heads[l], 0)
        BY <4>2 DEF Claims
      <4>4. pending[u] \in SUBSET Revision
        BY DEF TypeOK
      <4>5. Numbered(pending[u], l, heads'[l], 0)
        BY <2>3, <4>3, <4>4, NumberedNothing
      <4>6. QED
        BY <4>1, <4>5
    <3>3. CASE u # t /\ ~(claim[t][l] > 0)
      <4>1. heads'[l] = heads[l] /\ claim'[u] = claim[u] /\ pending'[u] = pending[u]
        BY <2>1, <3>3 DEF VisibleHead, TypeOK
      <4>2. QED
        BY <4>1 DEF Claims
    <3>4. QED
      BY <3>1, <3>2, <3>3
  <2>5. Committed'
    <3> SUFFICES ASSUME NEW l \in Library
                 PROVE  Numbered(revisions \cup pending[t], l, 0, heads'[l])
      BY <2>1 DEF Committed
    <3>1. /\ Numbered(revisions, l, 0, heads[l])
          /\ Numbered(pending[t], l, heads[l], claim[t][l])
      BY DEF Committed, Claims
    <3>2. Numbered(pending[t], l, heads[l], heads'[l])
      <4>1. CASE claim[t][l] > 0
        BY <2>1, <3>1, <4>1 DEF VisibleHead
      <4>2. CASE ~(claim[t][l] > 0)
        <5>1. heads'[l] = heads[l] /\ claim[t][l] = 0
          BY <2>1, <4>2 DEF VisibleHead, TypeOK
        <5>2. pending[t] \in SUBSET Revision
          BY DEF TypeOK
        <5>3. QED
          BY <2>3, <3>1, <5>1, <5>2, NumberedNothing
      <4>3. QED
        BY <4>1, <4>2
    <3>3. revisions \in SUBSET Revision /\ pending[t] \in SUBSET Revision
      BY DEF TypeOK
    <3>4. QED
      BY <2>3, <3>1, <3>2, <3>3, NumberedJoin
  <2>6. QED
    BY <2>2, <2>4, <2>5
<1>4. ASSUME NEW t \in Txn, Rollback(t)
      PROVE  Exclusive' /\ Claims' /\ Committed'
  <2>1. /\ UNCHANGED <<heads, revisions>>
        /\ claim' = [claim EXCEPT ![t] = NoClaim]
        /\ pending' = [pending EXCEPT ![t] = {}]
    BY <1>4 DEF Rollback, Release, tables
  <2>2. Exclusive'
    BY <2>1 DEF Exclusive, TypeOK, NoClaim
  <2>3. Claims'
    <3> SUFFICES ASSUME NEW u \in Txn, NEW l \in Library
                 PROVE  /\ claim'[u][l] > 0 => claim'[u][l] > heads[l]
                        /\ Numbered(pending'[u], l, heads[l], claim'[u][l])
      BY <2>1 DEF Claims
    <3>1. CASE u = t
      <4>1. claim'[u][l] = 0 /\ pending'[u] = {}
        BY <2>1, <3>1 DEF TypeOK, NoClaim
      <4>2. Numbered({}, l, heads[l], 0)
        BY DEF Numbered, TypeOK
      <4>3. QED
        BY <4>1, <4>2
    <3>2. CASE u # t
      BY <2>1, <3>2 DEF Claims, TypeOK
    <3>3. QED
      BY <3>1, <3>2
  <2>4. Committed'
    BY <2>1 DEF Committed
  <2>5. QED
    BY <2>2, <2>3, <2>4
<1>5. ASSUME NEW t \in Txn, Check(t)
      PROVE  UNCHANGED <<heads, revisions, claim, pending>>
  BY <1>5, CheckAsks DEF Ask, tables
<1>6. ASSUME NEW t \in Txn, WriteNode(t)
      PROVE  UNCHANGED <<heads, revisions, claim, pending>>
  BY <1>6 DEF WriteNode, tables
<1>7. CASE UNCHANGED vars
  BY <1>1, <1>7 DEF vars
<1>8. QED
  BY <1>1, <1>2, <1>3, <1>4, <1>5, <1>6, <1>7 DEF Next

(* The committed log of every library is numbered 1 to its head without gap *)
(* or repetition, for any number of clients, libraries and operations per   *)
(* transaction.                                                             *)
THEOREM ClocksAreGapFree == Spec => []GapFreeClocks
<1>1. Init => Exclusive /\ Claims /\ Committed
  BY ClockInit
<1>2. TypeOK /\ OperationInv /\ (Exclusive /\ Claims /\ Committed) /\ [Next]_vars
        => (Exclusive /\ Claims /\ Committed)'
  BY ClockNext
<1>3. TypeOK /\ Exclusive /\ Claims /\ Committed => GapFreeClocks
  BY PointwiseClockInv
<1>4. QED
  BY <1>1, <1>2, <1>3, TypeCorrect, PTL DEF Spec

(* A head is locked by one transaction at a time, and the clocks that an    *)
(* open transaction has handed out continue the committed ones.            *)
THEOREM OpenClocksAreExclusive == Spec => []ClockInv
<1>1. Init => Exclusive /\ Claims /\ Committed
  BY ClockInit
<1>2. TypeOK /\ OperationInv /\ (Exclusive /\ Claims /\ Committed) /\ [Next]_vars
        => (Exclusive /\ Claims /\ Committed)'
  BY ClockNext
<1>3. TypeOK /\ OperationInv /\ Exclusive /\ Claims /\ Committed => ClockInv
  BY PointwiseClockInv DEF ClockInv
<1>4. QED
  BY <1>1, <1>2, <1>3, TypeCorrect, PTL DEF Spec

(* A commit appends to the logs, after their heads. *)
LEMMA LogGrows ==
  ASSUME TypeOK, Claims, [Next]_vars, ~UNCHANGED tables
  PROVE  /\ revisions \subseteq revisions'
         /\ \A r \in revisions' \ revisions : r.clock > heads[r.library]
         /\ \A l \in Library : heads'[l] >= heads[l]
<1>1. PICK t \in Txn : Commit(t)
  <2>1. \A t \in Txn : Check(t) => UNCHANGED tables
    BY CheckAsks DEF Ask
  <2>2. \A t \in Txn : WriteNode(t) \/ LogRevision(t) \/ Rollback(t) => UNCHANGED tables
    BY DEF WriteNode, LogRevision, Rollback
  <2>3. UNCHANGED vars => UNCHANGED tables
    BY DEF vars, tables
  <2>4. QED
    BY <2>1, <2>2, <2>3 DEF Next
<1>2. /\ revisions' = revisions \cup pending[t]
      /\ \A l \in Library : heads'[l] = VisibleHead(t, l)
  BY <1>1 DEF Commit
<1>3. \A r \in pending[t] : r.clock > heads[r.library]
  <2>1. \A r \in pending[t] : r.library \in Library /\ r.clock \in Nat
    BY DEF TypeOK, Revision
  <2>2. \A r \in pending[t] : heads[r.library] < r.clock
    BY <2>1 DEF Claims, Numbered
  <2>3. QED
    BY <2>1, <2>2 DEF TypeOK
<1>4. \A l \in Library : VisibleHead(t, l) >= heads[l]
  BY DEF VisibleHead, Claims, TypeOK
<1>5. QED
  BY <1>2, <1>3, <1>4

(* No commit ever adds, drops or renumbers a revision at or below a head    *)
(* that was readable before: a cursor that has reached a clock is complete. *)
THEOREM CursorsStayComplete == Spec => NoLateRevision
<1>1. Init => Exclusive /\ Claims /\ Committed
  BY ClockInit
<1>2. TypeOK /\ OperationInv /\ (Exclusive /\ Claims /\ Committed) /\ [Next]_vars
        => (Exclusive /\ Claims /\ Committed)'
  BY ClockNext
<1>3. TypeOK /\ (Exclusive /\ Claims /\ Committed) /\ [Next]_vars
        => [/\ revisions \subseteq revisions'
            /\ \A r \in revisions' \ revisions : r.clock > heads[r.library]
            /\ \A l \in Library : heads'[l] >= heads[l]]_tables
  BY LogGrows
<1>4. QED
  BY <1>1, <1>2, <1>3, TypeCorrect, PTL DEF Spec, NoLateRevision

-----------------------------------------------------------------------------
(* BookmarkLibrary implements RevisionLog, for every choice of its constants. *)

(* The parts of DraftInv for one transaction. *)
InsertIsNew(t) ==
  phase[t] = "write" /\ request[t].op \in Creates => draft[t][request[t].node] = None
LoggedIsDrafted(t) == \A r \in pending[t] :
  draft[t][r.node] # None /\ draft[t][r.node].library = r.library
LastLogged(t, n) == \E r \in pending[t] :
  /\ r.node = n /\ r.row = draft[t][n]
  /\ \A s \in pending[t] : s.node = n => s.clock <= r.clock
DraftedIsLogged(t) == \A n \in Node :
  draft[t][n] # None /\ ~(phase[t] = "log" /\ request[t].node = n) => LastLogged(t, n)

LEMMA DraftInvParts ==
  DraftInv <=> \A t \in Txn : InsertIsNew(t) /\ LoggedIsDrafted(t) /\ DraftedIsLogged(t)
BY DEF DraftInv, InsertIsNew, LoggedIsDrafted, DraftedIsLogged, LastLogged

LEMMA DraftInit == Init => DraftInv
BY DEF Init, DraftInv, NoDraft

(* A transaction's own part changes only by its own steps. *)
LEMMA DraftFrame ==
  ASSUME NEW t \in Txn, DraftInv,
         phase'[t] = phase[t], request'[t] = request[t],
         draft'[t] = draft[t], pending'[t] = pending[t]
  PROVE  InsertIsNew(t)' /\ LoggedIsDrafted(t)' /\ DraftedIsLogged(t)'
BY DEF DraftInv, InsertIsNew, LoggedIsDrafted, DraftedIsLogged, LastLogged

LEMMA DraftNext ==
  TypeOK /\ OperationInv /\ Claims /\ DraftInv /\ [Next]_vars => DraftInv'
<1> SUFFICES ASSUME TypeOK, OperationInv, Claims, DraftInv, [Next]_vars
             PROVE  DraftInv'
  OBVIOUS
<1> USE ConstantsAssumption
<1>0. \A t \in Txn : InsertIsNew(t) /\ LoggedIsDrafted(t) /\ DraftedIsLogged(t)
  BY DraftInvParts
<1>1. ASSUME NEW t \in Txn, Check(t)
      PROVE  DraftInv'
  <2>1. PICK op \in OpType, n \in Node, row \in Row :
               Ask(t, op, n, row) /\ (op \in Creates => draft[t][n] = None)
    BY <1>1, CheckAsks DEF Fresh
  <2>2. /\ phase' = [phase EXCEPT ![t] = "write"]
        /\ request' = [request EXCEPT ![t] = [op |-> op, node |-> n, row |-> row]]
        /\ UNCHANGED <<draft, pending>>
    BY <2>1 DEF Ask
  <2>3. phase[t] # "log"
    BY <1>1, CheckAsks
  <2>4. \A u \in Txn : InsertIsNew(u)' /\ LoggedIsDrafted(u)' /\ DraftedIsLogged(u)'
    <3> TAKE u \in Txn
    <3>1. CASE u # t
      BY <2>2, <3>1, DraftFrame DEF TypeOK
    <3>2. CASE u = t
      BY <1>0, <2>1, <2>2, <2>3, <3>2
         DEF TypeOK, InsertIsNew, LoggedIsDrafted, DraftedIsLogged, LastLogged
    <3>3. QED
      BY <3>1, <3>2
  <2>5. QED
    BY <2>4 DEF DraftInv, InsertIsNew, LoggedIsDrafted, DraftedIsLogged, LastLogged
<1>2. ASSUME NEW t \in Txn, WriteNode(t)
      PROVE  DraftInv'
  <2> DEFINE n   == request[t].node
             new == Written(request[t], Visible(t, n))
  <2>1. /\ phase[t] = "write" /\ phase' = [phase EXCEPT ![t] = "log"]
        /\ draft' = [draft EXCEPT ![t] = [@ EXCEPT ![n] = new]]
        /\ UNCHANGED <<request, pending>>
    BY <1>2 DEF WriteNode
  <2>2. request[t] \in Request /\ n \in Node
    BY <2>1 DEF OperationInv, Request
  <2>3. Visible(t, n) \in Row \cup {None}
    BY <2>2 DEF Visible, TypeOK
  <2>4. request[t].op \notin Creates => Visible(t, n) # None
    BY <2>1 DEF OperationInv
  <2>5. /\ new \in Row
        /\ request[t].op \notin Creates => new.library = Visible(t, n).library
    BY <2>2, <2>3, <2>4, WrittenIsRow
  <2>6. draft[t][n] # None => new.library = draft[t][n].library
    BY <1>0, <2>1, <2>5 DEF InsertIsNew, Visible
  <2> HIDE DEF n, new
  <2>7. draft'[t] = [draft[t] EXCEPT ![n] = new] /\ draft[t] \in [Node -> Row \cup {None}]
    BY <2>1 DEF TypeOK
  <2>8. phase'[t] = "log" /\ request'[t] = request[t] /\ pending'[t] = pending[t]
    BY <2>1 DEF TypeOK
  <2>9. \A r \in pending[t] : r.node \in Node
    BY DEF TypeOK, Revision
  <2>10. LoggedIsDrafted(t)'
    BY <1>0, <2>2, <2>5, <2>6, <2>7, <2>8, <2>9 DEF LoggedIsDrafted
  <2>11. DraftedIsLogged(t)'
    <3> SUFFICES ASSUME NEW m \in Node, draft'[t][m] # None, m # n
                 PROVE  LastLogged(t, m)'
      BY <2>8 DEF DraftedIsLogged, n
    <3>1. draft'[t][m] = draft[t][m]
      BY <2>7
    <3>2. LastLogged(t, m)
      BY <1>0, <2>1, <3>1 DEF DraftedIsLogged
    <3>3. QED
      BY <2>8, <3>1, <3>2 DEF LastLogged
  <2>12. InsertIsNew(t)'
    BY <2>8 DEF InsertIsNew
  <2>13. \A u \in Txn \ {t} : InsertIsNew(u)' /\ LoggedIsDrafted(u)' /\ DraftedIsLogged(u)'
    BY <2>1, DraftFrame DEF TypeOK
  <2>14. QED
    BY <2>10, <2>11, <2>12, <2>13
       DEF DraftInv, InsertIsNew, LoggedIsDrafted, DraftedIsLogged, LastLogged
<1>3. ASSUME NEW t \in Txn, LogRevision(t)
      PROVE  DraftInv'
  <2> DEFINE n   == request[t].node
             row == draft[t][n]
             l   == row.library
             c   == VisibleHead(t, l) + 1
             rev == [library |-> l, clock |-> c, op |-> request[t].op,
                     node |-> n, row |-> row]
  <2>1. /\ phase[t] = "log" /\ phase' = [phase EXCEPT ![t] = "done"]
        /\ pending' = [pending EXCEPT ![t] = @ \cup {rev}]
        /\ request' = [request EXCEPT ![t] = None]
        /\ draft' = draft
    BY <1>3 DEF LogRevision
  <2>2. n \in Node /\ row \in Row /\ row # None
    <3>1. request[t] \in Request /\ row # None
      BY <2>1 DEF OperationInv
    <3>2. n \in Node
      BY <3>1 DEF Request
    <3>3. draft[t] \in [Node -> Row \cup {None}]
      BY DEF TypeOK
    <3>4. QED
      BY <3>1, <3>2, <3>3
  <2>3. l \in Library
    BY <2>2 DEF Row
  <2>4. rev.node = n /\ rev.row = row /\ rev.library = l /\ rev.clock = c
    OBVIOUS
  <2>5. \A s \in pending[t] : s.node = n => s.clock <= c
    <3> SUFFICES ASSUME NEW s \in pending[t], s.node = n
                 PROVE  s.clock <= c
      OBVIOUS
    <3>1. s.library = l
      BY <1>0 DEF LoggedIsDrafted
    <3>2. s.clock \in Nat /\ claim[t][l] \in Nat /\ heads[l] \in Nat
      BY <2>3 DEF TypeOK, Revision
    <3>3. heads[l] < s.clock /\ s.clock <= claim[t][l]
      BY <2>3, <3>1 DEF Claims, Numbered
    <3>4. QED
      BY <3>2, <3>3 DEF VisibleHead
  <2>6. c \in Nat
    BY <2>3 DEF VisibleHead, TypeOK
  <2> HIDE DEF n, row, l, c, rev
  <2>7. /\ phase'[t] = "done" /\ draft'[t] = draft[t]
        /\ pending'[t] = pending[t] \cup {rev}
    BY <2>1 DEF TypeOK
  <2>8. LoggedIsDrafted(t)'
    BY <1>0, <2>2, <2>4, <2>7 DEF LoggedIsDrafted, row, l
  <2>9. DraftedIsLogged(t)'
    <3> SUFFICES ASSUME NEW m \in Node, draft[t][m] # None
                 PROVE  LastLogged(t, m)'
      BY <2>7 DEF DraftedIsLogged
    <3>1. CASE m = n
      BY <2>4, <2>5, <2>6, <2>7, <3>1 DEF LastLogged, row
    <3>2. CASE m # n
      <4>1. LastLogged(t, m)
        BY <1>0, <3>2 DEF DraftedIsLogged, n
      <4>2. QED
        BY <2>4, <2>7, <3>2, <4>1 DEF LastLogged
    <3>3. QED
      BY <3>1, <3>2
  <2>10. InsertIsNew(t)'
    BY <2>7 DEF InsertIsNew
  <2>11. \A u \in Txn \ {t} : InsertIsNew(u)' /\ LoggedIsDrafted(u)' /\ DraftedIsLogged(u)'
    BY <2>1, DraftFrame DEF TypeOK
  <2>12. QED
    BY <2>8, <2>9, <2>10, <2>11
       DEF DraftInv, InsertIsNew, LoggedIsDrafted, DraftedIsLogged, LastLogged
<1>4. ASSUME NEW t \in Txn, Release(t)
      PROVE  DraftInv'
  <2>1. /\ phase'[t] = "idle" /\ draft'[t] = NoDraft /\ pending'[t] = {}
        /\ \A u \in Txn \ {t} : /\ phase'[u] = phase[u] /\ request'[u] = request[u]
                                /\ draft'[u] = draft[u] /\ pending'[u] = pending[u]
    BY <1>4 DEF Release, TypeOK
  <2>2. InsertIsNew(t)' /\ LoggedIsDrafted(t)' /\ DraftedIsLogged(t)'
    BY <2>1 DEF InsertIsNew, LoggedIsDrafted, DraftedIsLogged, NoDraft
  <2>3. \A u \in Txn \ {t} : InsertIsNew(u)' /\ LoggedIsDrafted(u)' /\ DraftedIsLogged(u)'
    BY <2>1, DraftFrame
  <2>4. QED
    BY <2>2, <2>3 DEF DraftInv, InsertIsNew, LoggedIsDrafted, DraftedIsLogged, LastLogged
<1>5. CASE UNCHANGED vars
  BY <1>5 DEF vars, DraftInv
<1>6. QED
  BY <1>1, <1>2, <1>3, <1>4, <1>5 DEF Next, Commit, Rollback
-----------------------------------------------------------------------------
(* Only a commit changes what others see. *)
LEMMA OnlyCommitsShow ==
  ASSUME TypeOK, [Next]_vars, ~UNCHANGED tables
  PROVE  \E t \in Txn : Commit(t)
<1>1. \A t \in Txn : Check(t) => UNCHANGED tables
  BY CheckAsks DEF Ask
<1>2. \A t \in Txn : WriteNode(t) \/ LogRevision(t) \/ Rollback(t) => UNCHANGED tables
  BY DEF WriteNode, LogRevision, Rollback
<1>3. UNCHANGED vars => UNCHANGED tables
  BY DEF vars, tables
<1>4. QED
  BY <1>1, <1>2, <1>3 DEF Next

LEMMA CommitAppends ==
  ASSUME TypeOK, Claims, Committed, DraftInv, NEW t \in Txn, Commit(t)
  PROVE  Log!Append
<1> USE ConstantsAssumption
<1>1. /\ phase[t] = "done"
      /\ nodes' = [n \in Node |-> Visible(t, n)]
      /\ heads' = [l \in Library |-> VisibleHead(t, l)]
      /\ revisions' = revisions \cup pending[t]
  BY DEF Commit
<1>2. pending[t] \in SUBSET Revision
  BY DEF TypeOK
<1>3. revisions' \ revisions = pending[t]
  <2>1. ASSUME NEW r \in pending[t], r \in revisions
        PROVE  FALSE
    <3>1. r.library \in Library /\ r.clock \in Nat /\ heads[r.library] \in Nat
      BY <1>2 DEF Revision, TypeOK
    <3>2. heads[r.library] < r.clock
      BY <3>1 DEF Claims, Numbered
    <3>3. r.clock <= heads[r.library]
      BY <2>1, <3>1 DEF Committed, Numbered
    <3>4. QED
      BY <3>1, <3>2, <3>3
  <2>2. QED
    BY <1>1, <2>1
<1>4. ASSUME NEW l \in Library
      PROVE  /\ heads'[l] >= heads[l]
             /\ Log!Continues(pending[t], l)
  <2>1. heads[l] \in Nat /\ claim[t][l] \in Nat /\ heads'[l] \in Nat
    BY <1>1 DEF TypeOK, VisibleHead
  <2>2. Numbered(pending[t], l, heads[l], claim[t][l])
    BY DEF Claims
  <2>3. heads'[l] >= heads[l] /\ Numbered(pending[t], l, heads[l], heads'[l])
    <3>1. CASE claim[t][l] > 0
      BY <1>1, <2>1, <2>2, <3>1 DEF VisibleHead, Claims
    <3>2. CASE ~(claim[t][l] > 0)
      <4>1. heads'[l] = heads[l] /\ claim[t][l] = 0
        BY <1>1, <2>1, <3>2 DEF VisibleHead
      <4>2. \A r \in pending[t] : r.clock \in Nat
        BY <1>2 DEF Revision
      <4>3. QED
        BY <2>1, <2>2, <4>1, <4>2 DEF Numbered
    <3>3. QED
      BY <3>1, <3>2
  <2>4. /\ {r.clock : r \in LogOf(pending[t], l)} = heads[l] + 1 .. heads'[l]
        /\ \A r, s \in LogOf(pending[t], l) : r.clock = s.clock => r = s
    BY <1>2, <2>1, <2>3, NumberedIsInterval
  <2>5. QED
    BY <2>3, <2>4 DEF Log!Continues, Log!LogOf, LogOf
<1>5. ASSUME NEW n \in Node
      PROVE  Log!Replays(pending[t], n)
  <2>1. LoggedIsDrafted(t) /\ DraftedIsLogged(t)
    BY DraftInvParts
  <2>2. CASE draft[t][n] = None
    BY <1>1, <2>1, <2>2 DEF Log!Replays, LoggedIsDrafted, Visible
  <2>3. CASE draft[t][n] # None
    <3>1. PICK r \in pending[t] :
             /\ r.node = n /\ r.row = draft[t][n]
             /\ \A s \in pending[t] : s.node = n => s.clock <= r.clock
      BY <1>1, <2>1, <2>3 DEF DraftedIsLogged, LastLogged
    <3>2. \A s \in pending[t] : s.node = n => s.library = r.library
      BY <2>1, <3>1 DEF LoggedIsDrafted
    <3>3. nodes'[n] = draft[t][n]
      BY <1>1, <2>3 DEF Visible
    <3>4. QED
      BY <3>1, <3>2, <3>3 DEF Log!Replays
  <2>4. QED
    BY <2>2, <2>3
<1>6. QED
  BY <1>1, <1>3, <1>4, <1>5 DEF Log!Append

(* Every behaviour of the bookmark store, with all its transactions, locks, *)
(* rollbacks and batches, is one of the revision log: each commit is one    *)
(* append of consecutive clocks and the replay of its batch on the tree.    *)
THEOREM ImplementsLog == Spec => ImplementsRevisionLog
<1> DEFINE Inv == TypeOK /\ OperationInv /\ Exclusive /\ Claims /\ Committed /\ DraftInv
<1>1. Init => Inv
  BY TypeInit, ClockInit, DraftInit
<1>2. Inv /\ [Next]_vars => Inv'
  BY TypeNext, ClockNext, DraftNext
<1>3. Init => Log!LogInit
  BY DEF Init, Log!LogInit
<1>4. Inv /\ [Next]_vars => [Log!Append]_(Log!tables)
  <2> SUFFICES ASSUME Inv, [Next]_vars, ~UNCHANGED tables
               PROVE  Log!Append
    BY DEF Log!tables, tables
  <2>1. PICK t \in Txn : Commit(t)
    BY OnlyCommitsShow
  <2>2. QED
    BY <2>1, CommitAppends
<1> HIDE DEF Inv
<1>5. QED
  BY <1>1, <1>2, <1>3, <1>4, PTL DEF Spec, ImplementsRevisionLog, Log!LogSpec
-----------------------------------------------------------------------------
(* The parts of RowLockInv. *)
RowExclusive == \A t, u \in Txn, n \in Node :
  draft[t][n] # None /\ draft[u][n] # None => t = u
InsertUnseen == \A t \in Txn : phase[t] = "write" /\ request[t].op \in Creates =>
  /\ nodes[request[t].node] = None
  /\ \A u \in Txn : draft[u][request[t].node] = None
  /\ \A u \in Txn \ {t} : request[u] # None => request[u].node # request[t].node
SameLibrary == \A t \in Txn, n \in Node :
  draft[t][n] # None /\ nodes[n] # None => draft[t][n].library = nodes[n].library
LoggedIsStored == \A r \in revisions :
  nodes[r.node] # None /\ nodes[r.node].library = r.library

LEMMA RowLockInvParts ==
  RowLockInv <=> RowExclusive /\ InsertUnseen /\ SameLibrary /\ LoggedIsStored
BY DEF RowLockInv, RowExclusive, InsertUnseen, SameLibrary, LoggedIsStored

LEMMA RowLockInit == Init => RowLockInv /\ RowIsLastRevision
BY DEF Init, RowLockInv, RowIsLastRevision, NoDraft

LEMMA RowLockNext ==
  ASSUME TypeOK, OperationInv, DraftInv, [Next]_vars, RowLockInv
  PROVE  RowLockInv'
<1> USE ConstantsAssumption, RowLockInvParts
<1>0. \A t \in Txn : phase[t] \in {"write", "log"} =>
        request[t] \in Request /\ request[t].node \in Node /\ request[t] # None
  BY DEF OperationInv, Request
<1>1. ASSUME NEW t \in Txn, Check(t)
      PROVE  RowLockInv'
  <2>1. PICK op \in OpType, n \in Node, row \in Row :
               /\ Ask(t, op, n, row)
               /\ op \notin Creates => Visible(t, n) # None
               /\ op \in Creates => Fresh(n)
    BY <1>1, CheckAsks
  <2>2. /\ phase' = [phase EXCEPT ![t] = "write"]
        /\ request' = [request EXCEPT ![t] = [op |-> op, node |-> n, row |-> row]]
        /\ UNCHANGED <<nodes, revisions, draft, pending>>
    BY <2>1 DEF Ask, tables
  <2>3. RowExclusive' /\ SameLibrary' /\ LoggedIsStored'
    BY <2>2 DEF RowExclusive, SameLibrary, LoggedIsStored
  <2>4. InsertUnseen'
    <3> SUFFICES ASSUME NEW u \in Txn, phase'[u] = "write", request'[u].op \in Creates
                 PROVE  /\ nodes'[request'[u].node] = None
                        /\ \A v \in Txn : draft'[v][request'[u].node] = None
                        /\ \A v \in Txn \ {u} : request'[v] # None =>
                             request'[v].node # request'[u].node
      BY DEF InsertUnseen
    <3>1. CASE u = t
      BY <2>1, <2>2, <3>1 DEF Fresh, TypeOK
    <3>2. CASE u # t
      <4>1. phase[u] = "write" /\ request[u].op \in Creates /\ request'[u] = request[u]
        BY <2>2, <3>2 DEF TypeOK
      <4>2. request[u].node # n
        <5>1. CASE op \in Creates
          BY <1>0, <2>1, <4>1, <5>1 DEF Fresh
        <5>2. CASE op \notin Creates
          BY <2>1, <4>1, <5>2 DEF Visible, InsertUnseen
        <5>3. QED
          BY <5>1, <5>2
      <4>3. QED
        BY <2>2, <3>2, <4>1, <4>2 DEF InsertUnseen, TypeOK
    <3>3. QED
      BY <3>1, <3>2
  <2>5. QED
    BY <2>3, <2>4 DEF RowLockInv, RowExclusive, InsertUnseen, SameLibrary, LoggedIsStored
<1>2. ASSUME NEW t \in Txn, WriteNode(t)
      PROVE  RowLockInv'
  <2> DEFINE n   == request[t].node
             new == Written(request[t], Visible(t, n))
  <2>1. /\ phase[t] = "write" /\ phase' = [phase EXCEPT ![t] = "log"]
        /\ draft' = [draft EXCEPT ![t] = [@ EXCEPT ![n] = new]]
        /\ \A u \in Txn \ {t} : draft[u][n] = None
        /\ UNCHANGED <<nodes, revisions, request>>
    BY <1>2 DEF WriteNode, RowLocked, tables
  <2>2. request[t] \in Request /\ n \in Node
    BY <1>0, <2>1
  <2>3. Visible(t, n) \in Row \cup {None}
    BY <2>2 DEF Visible, TypeOK
  <2>4. request[t].op \notin Creates => Visible(t, n) # None /\ new.library = Visible(t, n).library
    BY <2>1, <2>2, <2>3, WrittenIsRow DEF OperationInv
  <2>5. nodes[n] # None => new.library = nodes[n].library
    BY <2>1, <2>2, <2>4 DEF InsertUnseen, Visible, SameLibrary
  <2> HIDE DEF new
  <2>6. \A u \in Txn, m \in Node : draft'[u][m] = IF u = t /\ m = n THEN new ELSE draft[u][m]
    BY <2>1, <2>2 DEF TypeOK
  <2>7. RowExclusive'
    BY <2>1, <2>6 DEF RowExclusive
  <2>8. SameLibrary'
    BY <2>1, <2>5, <2>6 DEF SameLibrary
  <2>9. LoggedIsStored'
    BY <2>1 DEF LoggedIsStored
  <2>10. InsertUnseen'
    <3> SUFFICES ASSUME NEW u \in Txn, phase'[u] = "write", request[u].op \in Creates
                 PROVE  /\ nodes[request[u].node] = None
                        /\ \A v \in Txn : draft'[v][request[u].node] = None
                        /\ \A v \in Txn \ {u} : request[v] # None =>
                             request[v].node # request[u].node
      BY <2>1 DEF InsertUnseen
    <3>1. u # t /\ phase[u] = "write"
      BY <2>1 DEF TypeOK
    <3>2. request[u].node \in Node /\ request[t] # None
      BY <1>0, <2>1, <3>1
    <3>3. request[u].node # n
      BY <3>1, <3>2 DEF InsertUnseen
    <3>4. QED
      BY <2>6, <3>1, <3>2, <3>3 DEF InsertUnseen
  <2>11. QED
    BY <2>7, <2>8, <2>9, <2>10 DEF RowLockInv, RowExclusive, InsertUnseen, SameLibrary, LoggedIsStored
<1>3. ASSUME NEW t \in Txn, LogRevision(t)
      PROVE  RowLockInv'
  <2>1. /\ phase' = [phase EXCEPT ![t] = "done"]
        /\ request' = [request EXCEPT ![t] = None]
        /\ UNCHANGED <<nodes, revisions, draft>>
    BY <1>3 DEF LogRevision, tables
  <2>2. InsertUnseen'
    <3> SUFFICES ASSUME NEW u \in Txn, phase'[u] = "write", request'[u].op \in Creates
                 PROVE  /\ nodes[request'[u].node] = None
                        /\ \A v \in Txn : draft[v][request'[u].node] = None
                        /\ \A v \in Txn \ {u} : request'[v] # None =>
                             request'[v].node # request'[u].node
      BY <2>1 DEF InsertUnseen
    <3>1. u # t /\ phase[u] = "write" /\ request'[u] = request[u]
      BY <2>1 DEF TypeOK
    <3>2. QED
      BY <2>1, <3>1 DEF InsertUnseen, TypeOK
  <2>3. QED
    BY <2>1, <2>2 DEF RowLockInv, RowExclusive, InsertUnseen, SameLibrary, LoggedIsStored
<1>4. ASSUME NEW t \in Txn, Commit(t) \/ Rollback(t)
      PROVE  RowLockInv'
  <2>1. Release(t)
    BY <1>4 DEF Commit, Rollback
  <2>2. \/ nodes' = nodes /\ revisions' = revisions
        \/ /\ revisions' = revisions \cup pending[t]
           /\ nodes' = [n \in Node |-> Visible(t, n)]
    <3>1. Rollback(t) => nodes' = nodes /\ revisions' = revisions
      BY DEF Rollback, tables
    <3>2. Commit(t) => /\ revisions' = revisions \cup pending[t]
                       /\ nodes' = [n \in Node |-> Visible(t, n)]
      BY DEF Commit
    <3>3. QED
      BY <1>4, <3>1, <3>2
  <2>3. ASSUME NEW n \in Node
        PROVE  nodes'[n] = nodes[n] \/ (draft[t][n] # None /\ nodes'[n] = draft[t][n])
    <3>1. nodes'[n] = nodes[n] \/ nodes'[n] = Visible(t, n)
      BY <2>2
    <3>2. QED
      BY <3>1 DEF Visible
  <2>4. /\ phase' = [phase EXCEPT ![t] = "idle"]
        /\ request' = [request EXCEPT ![t] = None]
        /\ draft' = [draft EXCEPT ![t] = NoDraft]
    BY <2>1 DEF Release
  <2>5. \A u \in Txn, n \in Node : draft'[u][n] = IF u = t THEN None ELSE draft[u][n]
    BY <2>4 DEF TypeOK, NoDraft
  <2>6. RowExclusive'
    BY <2>5 DEF RowExclusive
  <2>7. SameLibrary'
    BY <2>3, <2>5 DEF SameLibrary, RowExclusive
  <2>8. InsertUnseen'
    <3> SUFFICES ASSUME NEW u \in Txn, phase'[u] = "write", request'[u].op \in Creates
                 PROVE  /\ nodes'[request'[u].node] = None
                        /\ \A v \in Txn : draft'[v][request'[u].node] = None
                        /\ \A v \in Txn \ {u} : request'[v] # None =>
                             request'[v].node # request'[u].node
      BY DEF InsertUnseen
    <3>1. u # t /\ phase[u] = "write" /\ request'[u] = request[u]
      BY <2>4 DEF TypeOK
    <3>2. request[u].node \in Node
      BY <1>0, <3>1
    <3>3. QED
      BY <2>3, <2>4, <2>5, <3>1, <3>2 DEF InsertUnseen, TypeOK
  <2>9. LoggedIsStored'
    <3>1. \A r \in revisions \cup pending[t] : r.node \in Node
      BY DEF TypeOK, Revision
    <3>2. CASE nodes' = nodes /\ revisions' = revisions
      BY <3>2 DEF LoggedIsStored
    <3>3. CASE /\ revisions' = revisions \cup pending[t]
               /\ nodes' = [n \in Node |-> Visible(t, n)]
      <4>1. \A r \in pending[t] : nodes'[r.node] # None /\ nodes'[r.node].library = r.library
        BY <3>1, <3>3, DraftInvParts DEF LoggedIsDrafted, Visible
      <4>2. \A r \in revisions : nodes'[r.node] # None /\ nodes'[r.node].library = r.library
        BY <2>3, <3>1 DEF LoggedIsStored, SameLibrary
      <4>3. QED
        BY <3>3, <4>1, <4>2 DEF LoggedIsStored
    <3>4. QED
      BY <2>2, <3>2, <3>3
  <2>10. QED
    BY <2>6, <2>7, <2>8, <2>9 DEF RowLockInv, RowExclusive, InsertUnseen, SameLibrary, LoggedIsStored
<1>5. CASE UNCHANGED vars
  BY <1>5 DEF vars, RowLockInv
<1>6. QED
  BY <1>1, <1>2, <1>3, <1>4, <1>5 DEF Next

LEMMA LastRevisionNext ==
  ASSUME TypeOK, Claims, Committed, DraftInv, RowLockInv, RowIsLastRevision, [Next]_vars
  PROVE  RowIsLastRevision'
<1> USE ConstantsAssumption
<1>1. CASE UNCHANGED tables
  BY <1>1 DEF tables, RowIsLastRevision
<1>2. CASE ~UNCHANGED tables
  <2>1. PICK t \in Txn : Commit(t)
    BY <1>2, OnlyCommitsShow
  <2>2. /\ phase[t] = "done"
        /\ \A n \in Node : nodes'[n] = Visible(t, n)
        /\ revisions' = revisions \cup pending[t]
    BY <2>1 DEF Commit
  <2>3. LoggedIsDrafted(t) /\ DraftedIsLogged(t) /\ SameLibrary /\ LoggedIsStored
    BY DraftInvParts, RowLockInvParts
  <2>4. \A r \in revisions \cup pending[t] : r.library \in Library /\ r.clock \in Nat
    BY DEF TypeOK, Revision
  <2>5. SUFFICES ASSUME NEW n \in Node, nodes'[n] # None
                 PROVE  \E r \in revisions' :
                          /\ r.node = n /\ r.row = nodes'[n] /\ r.library = nodes'[n].library
                          /\ \A s \in revisions' : s.node = n => s.clock <= r.clock
    BY DEF RowIsLastRevision
  <2>6. CASE draft[t][n] = None
    <3>1. \A s \in pending[t] : s.node # n
      BY <2>3, <2>6 DEF LoggedIsDrafted
    <3>2. nodes'[n] = nodes[n]
      BY <2>2, <2>6 DEF Visible
    <3>3. QED
      BY <2>2, <2>5, <3>1, <3>2 DEF RowIsLastRevision
  <2>7. CASE draft[t][n] # None
    <3>1. nodes'[n] = draft[t][n]
      BY <2>2, <2>7 DEF Visible
    <3>2. PICK r \in pending[t] :
             /\ r.node = n /\ r.row = draft[t][n]
             /\ \A s \in pending[t] : s.node = n => s.clock <= r.clock
      BY <2>2, <2>3, <2>7 DEF DraftedIsLogged, LastLogged
    <3>3. r.library = draft[t][n].library
      BY <2>3, <3>2 DEF LoggedIsDrafted
    <3>4. ASSUME NEW s \in revisions, s.node = n
          PROVE  s.clock <= r.clock
      <4>1. s.library = r.library
        BY <2>3, <2>7, <3>3, <3>4 DEF SameLibrary, LoggedIsStored
      <4>2. s.clock <= heads[r.library] /\ heads[r.library] < r.clock
        BY <2>4, <4>1 DEF Claims, Committed, Numbered
      <4>3. heads[r.library] \in Nat /\ s.clock \in Nat /\ r.clock \in Nat
        BY <2>4 DEF TypeOK
      <4>4. QED
        BY <4>2, <4>3
    <3>5. QED
      BY <2>2, <3>1, <3>2, <3>3, <3>4
  <2>8. QED
    BY <2>6, <2>7
<1>3. QED
  BY <1>1, <1>2

(* What the proofs about other modules need of the store. *)
StoreInv == TypeOK /\ Committed /\ DraftInv /\ RowLockInv /\ RowIsLastRevision

LEMMA StoreCorrect == Spec => []StoreInv
<1> DEFINE Inv == /\ TypeOK /\ OperationInv /\ Exclusive /\ Claims /\ Committed
                  /\ DraftInv /\ RowLockInv /\ RowIsLastRevision
<1>1. Init => Inv
  BY TypeInit, ClockInit, DraftInit, RowLockInit
<1>2. Inv /\ [Next]_vars => Inv'
  BY TypeNext, ClockNext, DraftNext, RowLockNext, LastRevisionNext
<1>3. Inv => StoreInv
  BY DEF StoreInv
<1>4. QED
  BY <1>1, <1>2, <1>3, PTL DEF Spec

(* What a transaction is about to commit for a node is the payload of its   *)
(* own last revision of it, but for the operation it is in the middle of.  *)
THEOREM DraftsFollowLog == Spec => []DraftInv
<1>1. StoreInv => DraftInv
  BY DEF StoreInv
<1>2. QED
  BY <1>1, StoreCorrect, PTL

(* The tree never diverges from its log: whatever ran at the same time, the *)
(* committed row of a node is the payload of its last revision.            *)
THEOREM TreeFollowsLog == Spec => []RowIsLastRevision
<1>1. StoreInv => RowIsLastRevision
  BY DEF StoreInv
<1>2. QED
  BY <1>1, StoreCorrect, PTL
=============================================================================
