--------------------------- MODULE SyncServer_proofs ---------------------------
(***************************************************************************)
(* What the sync service promises for any number of connections, clients,  *)
(* previews and dashboard requests.                                        *)
(*                                                                         *)
(* Every step of the service is a step of the bookmark store or leaves the *)
(* store alone, so the invariants of the store hold beside it.  On top of  *)
(* them, what a preview says of the log stays true because the log only    *)
(* grows past its head, and what an apply relies on stays true because it  *)
(* holds the head from its first revision on.                              *)
(***************************************************************************)
EXTENDS SyncServer, LibraryTree_proofs, FiniteSetTheorems

-----------------------------------------------------------------------------
(* The service on top of the store. *)

(* A sync_previews row, when the head of the library is at head. *)
PreviewRow(v, head) ==
  /\ v = [client |-> v.client, base |-> v.base, to |-> v.to, late |-> v.late,
          status |-> v.status, ops |-> v.ops, accepted |-> v.accepted,
          result |-> v.result, logged |-> v.logged]
  /\ v.base \in Nat /\ v.to \in Nat /\ v.to <= head
  /\ v.status = "applied" => v.result.newClock \in Nat

(* The request a connection serves, with the previews P. *)
CallRow(k, head, P) ==
  /\ k.call = "preview" => k.base \in Nat /\ k.to \in Nat /\ k.to <= head
  /\ k.call = "apply" =>
       /\ k = [call |-> "apply", client |-> k.client, preview |-> k.preview,
               todo |-> k.todo, made |-> k.made]
       /\ k.todo \in Seq(Mutation)
       /\ k.preview \in Preview /\ PreviewRow(P[k.preview], head)

ServiceInv ==
  /\ previews = [p \in Preview |-> previews[p]] /\ calls = [t \in Txn |-> calls[t]]
  /\ clients = [c \in Client |-> clients[c]]
  /\ \A c \in Client : clients[c].at \subseteq Nat
  /\ \A p \in Preview : previews[p] = None \/ PreviewRow(previews[p], heads[SyncLibrary])
  /\ \A t \in Txn : calls[t] = None \/ CallRow(calls[t], heads[SyncLibrary], previews)

(* The invariants of the store. *)
LEMMA LogInvInit == SyncInit => LogInv
<1> SUFFICES ASSUME SyncInit PROVE LogInv
  OBVIOUS
<1> USE ConstantsAssumption, SyncAssumption
<1> DEFINE row == Folder(None)
           child == Folder(Root)
           first == [library |-> SyncLibrary, clock |-> 1, op |-> "library.create",
                     node |-> Root, row |-> row]
           second == [library |-> SyncLibrary, clock |-> 2, op |-> "node.create",
                      node |-> Shared, row |-> child]
<1>1. row \in Row /\ child \in Row /\ row.library = SyncLibrary /\ child.library = SyncLibrary
  BY DEF Folder, Row
<1> HIDE DEF row, child
<1>2. first \in Revision /\ second \in Revision
  BY <1>1 DEF Revision, OpType
<1>3. /\ revisions = {first, second}
      /\ first.library = SyncLibrary /\ first.clock = 1 /\ first.node = Root /\ first.row = row
      /\ second.library = SyncLibrary /\ second.clock = 2 /\ second.node = Shared /\ second.row = child
  BY DEF SyncInit, row, child
<1> HIDE DEF first, second
<1>4. /\ nodes = [n \in Node |-> IF n = Root THEN row ELSE IF n = Shared THEN child ELSE None]
      /\ heads = [l \in Library |-> IF l = SyncLibrary THEN 2 ELSE 0]
      /\ phase = [t \in Txn |-> "idle"] /\ request = [t \in Txn |-> None]
      /\ draft = [t \in Txn |-> NoDraft] /\ claim = [t \in Txn |-> NoClaim]
      /\ pending = [t \in Txn |-> {}]
  BY DEF SyncInit, Head0, row, child
<1>5. TypeOK /\ OperationInv
  BY <1>1, <1>2, <1>3, <1>4 DEF TypeOK, OperationInv, NoDraft, NoClaim
<1>6. Exclusive /\ Claims
  BY <1>4 DEF Exclusive, Claims, Numbered, NoClaim
<1>7. Committed
  <2> SUFFICES ASSUME NEW l \in Library PROVE Numbered(revisions, l, 0, heads[l])
    BY DEF Committed
  <2>1. CASE l = SyncLibrary
    BY <1>3, <1>4, <2>1 DEF Numbered
  <2>2. CASE l # SyncLibrary
    BY <1>3, <1>4, <2>2 DEF Numbered
  <2> QED
    BY <2>1, <2>2
<1>8. DraftInv
  BY <1>4 DEF DraftInv, NoDraft
<1>9. RowLockInv
  BY <1>1, <1>3, <1>4 DEF RowLockInv, NoDraft
<1>10. RowIsLastRevision
  BY <1>1, <1>3, <1>4 DEF RowIsLastRevision
<1> QED
  BY <1>5, <1>6, <1>7, <1>8, <1>9, <1>10 DEF LogInv

(* A mutation becomes an operation of the store on a node of the library.  *)
LEMMA MutationChecks ==
  ASSUME ServiceInv, NEW t \in Txn, ApplyMutation(t)
  PROVE  /\ calls[t].todo \in Seq(Mutation) /\ calls[t].todo[1] \in Mutation
         /\ Check(t)
<1> DEFINE k == calls[t]
           m == k.todo[1]
<1>1. k # None /\ k.call = "apply" /\ k.todo # <<>>
  BY DEF ApplyMutation, Serves
<1>2. k.todo \in Seq(Mutation)
  BY <1>1 DEF ServiceInv, CallRow
<1>3. m \in Mutation
  BY <1>1, <1>2
<1>4. /\ m.title \in Title \cup {None} /\ m.url \in Url \cup {None} /\ m.type \in NodeType
      /\ m.op \in MutationOp
  BY <1>3 DEF Mutation
<1> HIDE DEF m, k
<1>5. /\ m.op # "create" => InSyncLibrary(t, m.target)
      /\ m.op \in {"create", "move"} => InSyncLibrary(t, m.parent)
      /\ \/ m.op = "create" /\ \E n \in Node, title \in Title :
              CheckCreate(t, SyncLibrary, n, m.parent, m.type, title, m.url)
         \/ m.op = "update" /\ CheckUpdate(t, m.target, m.title, m.url)
         \/ m.op = "move" /\ CheckMove(t, m.target, m.parent)
         \/ m.op = "delete" /\ CheckSetDeleted(t, m.target, "node.delete")
         \/ m.op = "restore" /\ CheckSetDeleted(t, m.target, "node.restore")
  BY DEF ApplyMutation, m, k
<1>6. Check(t)
  BY <1>4, <1>5, SyncAssumption DEF Check, InSyncLibrary
<1> QED
  BY <1>2, <1>3, <1>6 DEF k, m

(* Every step of the service is one of the store, or none. *)
LEMMA StoreSteps ==
  ASSUME ServiceInv, [SyncNext]_allVars
  PROVE  [Next]_vars
<1>1. CASE UNCHANGED allVars
  BY <1>1 DEF allVars, vars
<1>2. ASSUME NEW p \in Preview, Expire(p) PROVE [Next]_vars
  BY <1>2 DEF Expire
<1>3. ASSUME NEW t \in Txn, Dashboard(t) PROVE [Next]_vars
  BY <1>3 DEF Dashboard, Next
<1>4. ASSUME NEW t \in Txn, NEW c \in Client, NEW base, NEW list, StartPreview(t, c, base, list)
      PROVE  [Next]_vars
  BY <1>4 DEF StartPreview
<1>5. ASSUME NEW t \in Txn, NEW p \in Preview, FinishPreview(t, p) \/ StartApply(t, p) \/ ReplayApply(t, p)
      PROVE  [Next]_vars
  BY <1>5 DEF FinishPreview, StartApply, ReplayApply
<1>6. ASSUME NEW t \in Txn, ApplyMutation(t) PROVE [Next]_vars
  BY <1>6, MutationChecks DEF Next
<1>7. ASSUME NEW t \in Txn, ApplyWrite(t) \/ ApplyLog(t) \/ FinishApply(t) \/ FailCall(t)
      PROVE  [Next]_vars
  BY <1>7 DEF ApplyWrite, ApplyLog, FinishApply, FailCall, Next
<1>8. ASSUME NEW t \in Txn, NEW c \in Client, NEW clock, StartAck(t, c, clock) PROVE [Next]_vars
  BY <1>8 DEF StartAck
<1>9. ASSUME NEW t \in Txn, FinishAck(t) PROVE [Next]_vars
  BY <1>9 DEF FinishAck
<1> QED
  BY <1>1, <1>2, <1>3, <1>4, <1>5, <1>6, <1>7, <1>8, <1>9 DEF SyncNext

LEMMA ServiceInit == SyncInit => ServiceInv
<1> SUFFICES ASSUME SyncInit PROVE ServiceInv
  OBVIOUS
<1>1. /\ previews = [p \in Preview |-> None] /\ calls = [t \in Txn |-> None]
      /\ \E synced \in SUBSET Client :
           clients = [c \in Client |-> IF c \in synced THEN [at |-> {2}, got |-> 1 .. 2]
                                      ELSE [at |-> {0}, got |-> {}]]
  BY DEF SyncInit, Head0
<1> QED
  BY <1>1 DEF ServiceInv

LEMMA HeadGrows ==
  ASSUME LogInv, [Next]_vars
  PROVE  /\ heads[SyncLibrary] \in Nat /\ heads'[SyncLibrary] \in Nat
         /\ heads'[SyncLibrary] >= heads[SyncLibrary]
         /\ revisions \subseteq revisions'
         /\ \A r \in revisions' \ revisions :
              r.library = SyncLibrary => r.clock > heads[SyncLibrary]
<1>1. SyncLibrary \in Library
  BY SyncAssumption
<1>2. heads \in [Library -> Nat] /\ heads' \in [Library -> Nat]
  BY LogInvNext DEF LogInv, TypeOK
<1>3. CASE UNCHANGED tables
  BY <1>1, <1>2, <1>3 DEF tables
<1>4. CASE ~UNCHANGED tables
  BY <1>1, <1>2, <1>4, LogGrows DEF LogInv
<1> QED
  BY <1>3, <1>4

(* Rows and requests stay what they are when the head moves on. *)
LEMMA ServiceStep ==
  ASSUME ServiceInv, heads[SyncLibrary] \in Nat, heads'[SyncLibrary] \in Nat,
         heads'[SyncLibrary] >= heads[SyncLibrary],
         previews' = [p \in Preview |-> previews'[p]], calls' = [t \in Txn |-> calls'[t]],
         clients' = [c \in Client |-> clients'[c]],
         \A c \in Client : clients'[c].at \subseteq Nat,
         \A p \in Preview : previews'[p] = previews[p]
                            \/ PreviewRow(previews'[p], heads'[SyncLibrary]),
         \A t \in Txn : \/ calls'[t] = None \/ calls'[t] = calls[t]
                        \/ CallRow(calls'[t], heads'[SyncLibrary], previews')
  PROVE  ServiceInv'
<1>1. ASSUME NEW v, PreviewRow(v, heads[SyncLibrary]) PROVE PreviewRow(v, heads'[SyncLibrary])
  BY <1>1 DEF PreviewRow
<1>2. \A p \in Preview : previews'[p] = None \/ PreviewRow(previews'[p], heads'[SyncLibrary])
  BY <1>1 DEF ServiceInv
<1>3. ASSUME NEW t \in Txn, calls'[t] = calls[t], calls[t] # None
      PROVE  CallRow(calls'[t], heads'[SyncLibrary], previews')
  <2> DEFINE k == calls[t]
  <2>1. CallRow(k, heads[SyncLibrary], previews)
    BY <1>3 DEF ServiceInv
  <2> HIDE DEF k
  <2>2. k.call = "preview" => k.to <= heads'[SyncLibrary]
    BY <2>1 DEF CallRow
  <2>3. k.call = "apply" => PreviewRow(previews'[k.preview], heads'[SyncLibrary])
    BY <1>1, <2>1 DEF CallRow
  <2>4. CallRow(k, heads'[SyncLibrary], previews')
    BY <2>1, <2>2, <2>3 DEF CallRow
  <2> QED
    BY <1>3, <2>4 DEF k
<1> QED
  BY <1>2, <1>3 DEF ServiceInv

(* The answer to an apply reaches its client, or is lost. *)
LEMMA DeliverKeeps ==
  ASSUME ServiceInv, NEW p, NEW result, result.newClock \in Nat,
         Deliver(p, result) \/ UNCHANGED clients
  PROVE  clients' = [c \in Client |-> clients'[c]] /\ \A c \in Client : clients'[c].at \subseteq Nat
<1>1. CASE UNCHANGED clients
  BY <1>1 DEF ServiceInv
<1>2. CASE Deliver(p, result)
  <2>1. clients' = [c \in Client |-> clients'[c]]
    BY <1>2 DEF Deliver, ServiceInv
  <2>2. ASSUME NEW c \in Client PROVE clients'[c].at \subseteq Nat
    <3>1. CASE c = previews[p].client
      <4>1. clients'[c].at = clients[c].at \cup {result.newClock}
        BY <1>2, <3>1 DEF Deliver, ServiceInv
      <4> QED
        BY <4>1 DEF ServiceInv
    <3>2. CASE c # previews[p].client
      BY <1>2, <3>2 DEF Deliver, ServiceInv
    <3> QED
      BY <3>1, <3>2
  <2> QED
    BY <2>1, <2>2
<1> QED
  BY <1>1, <1>2

LEMMA ServiceNext ==
  ASSUME LogInv, ServiceInv, [SyncNext]_allVars
  PROVE  ServiceInv'
<1> DEFINE head == heads[SyncLibrary]
<1>0. /\ head \in Nat /\ head' \in Nat /\ head' >= head
      /\ \A v : PreviewRow(v, head) => PreviewRow(v, head')
  <2>1. head \in Nat /\ head' \in Nat /\ head' >= head
    BY StoreSteps, HeadGrows
  <2> QED
    BY <2>1 DEF PreviewRow
<1>1. CASE UNCHANGED <<previews, calls, clients>>
  BY <1>0, <1>1, ServiceStep DEF ServiceInv
<1>2. ASSUME NEW p \in Preview, Expire(p) PROVE ServiceInv'
  <2>1. /\ previews' = [previews EXCEPT ![p].late = TRUE] /\ UNCHANGED <<calls, clients>>
        /\ PreviewRow(previews[p], head)
    BY <1>2 DEF Expire, ServiceInv
  <2>2. PreviewRow(previews'[p], head')
    BY <1>0, <2>1 DEF PreviewRow, ServiceInv
  <2> QED
    BY <1>0, <2>1, <2>2, ServiceStep DEF ServiceInv
<1>3. ASSUME NEW t \in Txn, NEW c \in Client, NEW list, NEW base \in clients[c].at,
             StartPreview(t, c, base, list)
      PROVE  ServiceInv'
  <2>1. /\ UNCHANGED <<previews, clients>> /\ base \in Nat
        /\ calls' = [calls EXCEPT ![t] = [call |-> "preview", client |-> c, base |-> base,
                                          to |-> head, todo |-> list]]
    BY <1>3 DEF StartPreview, Calling, ServiceInv
  <2>2. CallRow(calls'[t], head', previews')
    BY <1>0, <2>1 DEF CallRow, ServiceInv
  <2> QED
    BY <1>0, <2>1, <2>2, ServiceStep DEF ServiceInv
<1>4. ASSUME NEW t \in Txn, NEW p \in Preview, FinishPreview(t, p) PROVE ServiceInv'
  <2> DEFINE k == calls[t]
  <2>1. /\ calls' = [calls EXCEPT ![t] = None] /\ UNCHANGED clients
        /\ \E status \in {"conflicted", "pending"} : \E accepted :
             previews' = [previews EXCEPT ![p] =
               [client |-> k.client, base |-> k.base, to |-> k.to, late |-> FALSE,
                status |-> status, ops |-> ServerOps(k.base), accepted |-> accepted,
                result |-> None, logged |-> {}]]
    BY <1>4 DEF FinishPreview, Calling
  <2>2. k.base \in Nat /\ k.to \in Nat /\ k.to <= head'
    BY <1>0, <1>4 DEF FinishPreview, Serves, ServiceInv, CallRow
  <2>3. PreviewRow(previews'[p], head')
    <3>1. PICK status \in {"conflicted", "pending"} : \E accepted :
             previews'[p] =
               [client |-> k.client, base |-> k.base, to |-> k.to, late |-> FALSE,
                status |-> status, ops |-> ServerOps(k.base), accepted |-> accepted,
                result |-> None, logged |-> {}]
      BY <2>1 DEF ServiceInv
    <3> HIDE DEF k
    <3> QED
      BY <2>2, <3>1 DEF PreviewRow
  <2>4. previews' = [q \in Preview |-> previews'[q]] /\ \A q \in Preview \ {p} : previews'[q] = previews[q]
    BY <2>1 DEF ServiceInv
  <2> QED
    BY <1>0, <2>1, <2>3, <2>4, ServiceStep DEF ServiceInv
<1>5. ASSUME NEW t \in Txn, NEW p \in Preview, ReplayApply(t, p) PROVE ServiceInv'
  <2>1. /\ UNCHANGED <<previews, calls>> /\ Deliver(p, previews[p].result)
        /\ PreviewRow(previews[p], head) /\ previews[p].result.newClock \in Nat
    BY <1>5 DEF ReplayApply, ServiceInv, PreviewRow
  <2> QED
    BY <1>0, <2>1, DeliverKeeps, ServiceStep DEF ServiceInv
<1>6. ASSUME NEW t \in Txn, NEW p \in Preview, StartApply(t, p) PROVE ServiceInv'
  <2>1. /\ UNCHANGED <<previews, clients>> /\ previews[p].accepted \in Seq(Mutation)
        /\ calls' = [calls EXCEPT ![t] = [call |-> "apply", client |-> previews[p].client,
                       preview |-> p, todo |-> previews[p].accepted, made |-> {}]]
        /\ PreviewRow(previews[p], head')
    BY <1>0, <1>6 DEF StartApply, Calling, ServiceInv
  <2>2. CallRow(calls'[t], head', previews')
    BY <2>1 DEF CallRow, ServiceInv
  <2> QED
    BY <1>0, <2>1, <2>2, ServiceStep DEF ServiceInv
<1>7. ASSUME NEW t \in Txn, ApplyLog(t) PROVE ServiceInv'
  <2> DEFINE k == calls[t]
  <2>1. /\ UNCHANGED <<previews, clients>> /\ k # None /\ k.call = "apply" /\ k.todo # <<>>
        /\ \E made : calls' = [calls EXCEPT ![t] = [k EXCEPT !.todo = Tail(@), !.made = made]]
    BY <1>7 DEF ApplyLog, Serves, Calling
  <2>2. CallRow(k, head, previews)
    BY <2>1 DEF ServiceInv
  <2>3. PICK made : calls' = [calls EXCEPT ![t] = [k EXCEPT !.todo = Tail(@), !.made = made]]
    BY <2>1
  <2>4. calls'[t] = [k EXCEPT !.todo = Tail(@), !.made = made]
    BY <2>3 DEF ServiceInv
  <2>5. calls' = [u \in Txn |-> calls'[u]] /\ \A u \in Txn \ {t} : calls'[u] = calls[u]
    BY <2>3 DEF ServiceInv
  <2> HIDE DEF k
  <2>6. k = [call |-> "apply", client |-> k.client, preview |-> k.preview,
             todo |-> k.todo, made |-> k.made]
    BY <2>1, <2>2 DEF CallRow
  <2>7. calls'[t] = [call |-> "apply", client |-> k.client, preview |-> k.preview,
                     todo |-> Tail(k.todo), made |-> made]
    <3> DEFINE rest == Tail(k.todo)
    <3>1. calls'[t] = [k EXCEPT !.todo = rest, !.made = made]
      BY <2>4
    <3> HIDE DEF rest
    <3> DEFINE next == [k EXCEPT !.todo = rest, !.made = made]
    <3>2. next = [x \in {"call", "client", "preview", "todo", "made"} |-> next[x]]
      BY <2>6
    <3>3. /\ next.call = "apply" /\ next.client = k.client /\ next.preview = k.preview
          /\ next.todo = rest /\ next.made = made
      BY <2>6
    <3> HIDE DEF next
    <3>4. next = [call |-> "apply", client |-> k.client, preview |-> k.preview,
                  todo |-> rest, made |-> made]
      BY <3>2, <3>3
    <3> QED
      BY <3>1, <3>4 DEF rest, next
  <2>8. Tail(k.todo) \in Seq(Mutation)
    BY <2>1, <2>2 DEF CallRow
  <2>9. k.preview \in Preview /\ PreviewRow(previews[k.preview], head')
    BY <1>0, <2>1, <2>2 DEF CallRow
  <2> DEFINE next == calls'[t]
  <2>10. next.call = "apply" /\ next.client = k.client /\ next.preview = k.preview
         /\ next.todo = Tail(k.todo) /\ next.made = made
    BY <2>7
  <2>11. CallRow(next, head', previews')
    BY <2>1, <2>7, <2>8, <2>9, <2>10 DEF CallRow
  <2> QED
    BY <1>0, <2>1, <2>5, <2>11, ServiceStep DEF ServiceInv
<1>8. ASSUME NEW t \in Txn, FinishApply(t) PROVE ServiceInv'
  <2> DEFINE p == calls[t].preview
             result == [newClock |-> VisibleHead(t, SyncLibrary), own |-> Clocks(pending[t])]
  <2>1. /\ calls' = [calls EXCEPT ![t] = None]
        /\ previews' = [previews EXCEPT ![p].status = "applied", ![p].result = result,
                                        ![p].logged = @ \cup Clocks(pending[t])]
        /\ Deliver(p, result) \/ UNCHANGED clients
        /\ calls[t] # None /\ calls[t].call = "apply"
    BY <1>8 DEF FinishApply, Calling, Serves
  <2>2. p \in Preview /\ PreviewRow(previews[p], head)
    BY <2>1 DEF ServiceInv, CallRow
  <2>3. result.newClock \in Nat
    BY SyncAssumption DEF VisibleHead, LogInv, TypeOK
  <2> HIDE DEF p, result
  <2>4. PreviewRow(previews[p], head')
    BY <1>0, <2>2
  <2>5. PreviewRow(previews'[p], head')
    BY <2>1, <2>2, <2>3, <2>4 DEF PreviewRow, ServiceInv
  <2>6. previews' = [q \in Preview |-> previews'[q]] /\ \A q \in Preview \ {p} : previews'[q] = previews[q]
    BY <2>1 DEF ServiceInv
  <2>7. clients' = [c \in Client |-> clients'[c]] /\ \A c \in Client : clients'[c].at \subseteq Nat
    BY <2>1, <2>3, DeliverKeeps
  <2>8. calls' = [u \in Txn |-> calls'[u]] /\ \A u \in Txn : calls'[u] = None \/ calls'[u] = calls[u]
    BY <2>1 DEF ServiceInv
  <2> QED
    BY <1>0, <2>5, <2>6, <2>7, <2>8, ServiceStep
<1>9. ASSUME NEW t \in Txn, NEW c \in Client, NEW clock, StartAck(t, c, clock) PROVE ServiceInv'
  <2>1. /\ UNCHANGED <<previews, clients>>
        /\ calls' = [calls EXCEPT ![t] = [call |-> "ack", client |-> c, clock |-> clock,
                                          read |-> cursors[c]]]
    BY <1>9 DEF StartAck, Calling
  <2>2. CallRow(calls'[t], head', previews')
    BY <2>1 DEF CallRow, ServiceInv
  <2> QED
    BY <1>0, <2>1, <2>2, ServiceStep DEF ServiceInv
<1>10. ASSUME NEW t \in Txn, FinishAck(t) \/ FailCall(t) PROVE ServiceInv'
  <2>1. UNCHANGED <<previews, clients>> /\ calls' = [calls EXCEPT ![t] = None]
    BY <1>10 DEF FinishAck, FailCall, Calling
  <2> QED
    BY <1>0, <2>1, ServiceStep DEF ServiceInv
<1>11. ASSUME NEW t \in Txn, Dashboard(t) \/ ApplyMutation(t) \/ ApplyWrite(t) PROVE ServiceInv'
  BY <1>1, <1>11 DEF Dashboard, ApplyMutation, ApplyWrite, syncVars
<1>12. CASE UNCHANGED allVars
  BY <1>1, <1>12 DEF allVars, syncVars
<1> HIDE DEF head
<1> QED
  BY <1>2, <1>3, <1>4, <1>5, <1>6, <1>7, <1>8, <1>9, <1>10, <1>11, <1>12 DEF SyncNext

LEMMA SyncInv == SyncSpec => [](LogInv /\ ServiceInv)
<1>1. SyncInit => LogInv /\ ServiceInv
  BY LogInvInit, ServiceInit
<1>2. LogInv /\ ServiceInv /\ [SyncNext]_allVars => (LogInv /\ ServiceInv)'
  BY StoreSteps, LogInvNext, ServiceNext
<1> QED
  BY <1>1, <1>2, PTL DEF SyncSpec

(* Applies beside dashboard requests leave the log of the library numbered  *)
(* 1 to its head, without gap or repetition.                               *)
THEOREM SyncKeepsLog == SyncSpec => []GapFreeClocks
<1>1. LogInv => GapFreeClocks
  BY PointwiseClockInv DEF LogInv
<1> QED
  BY <1>1, SyncInv, PTL

(* Whatever an apply commits, a position a client has reached stays         *)
(* complete: nothing appears at or below a head that was readable before.  *)
THEOREM SyncKeepsPositions == SyncSpec => NoLateRevision
<1>1. LogInv /\ ServiceInv /\ [SyncNext]_allVars
        => [/\ revisions \subseteq revisions'
            /\ \A r \in revisions' \ revisions : r.clock > heads[r.library]
            /\ \A l \in Library : heads'[l] >= heads[l]]_tables
  BY StoreSteps, LogGrows DEF LogInv
<1> QED
  BY <1>1, SyncInv, PTL DEF SyncSpec, NoLateRevision

(* The tree is what its log says when requests and applies run together.   *)
THEOREM SyncTreeFollowsLog == SyncSpec => []RowIsLastRevision
<1>1. LogInv => RowIsLastRevision
  BY DEF LogInv
<1> QED
  BY <1>1, SyncInv, PTL

-----------------------------------------------------------------------------
(* The server ops of a preview. *)

(* The revisions between two clocks of the library. *)
Between(lo, hi) == {r \in LogOf(revisions, SyncLibrary) : lo < r.clock /\ r.clock <= hi}

NoneAbove(ops, to) == \A r \in ops : r.clock <= to

(* A preview has what is due, and more only if the head has moved past to. *)
OpsRow(v) ==
  /\ v.ops \subseteq {r \in LogOf(revisions, SyncLibrary) : r.clock > v.base}
  /\ NoneAbove(v.ops, v.to) \/ v.to < heads[SyncLibrary]
  /\ Cardinality(Between(v.base, v.to)) <= OpsLimit => Between(v.base, v.to) \subseteq v.ops
  /\ v.status = "applied" => NoneAbove(v.ops, v.to)

OpsInv ==
  /\ \A p \in Preview : previews[p] = None \/ OpsRow(previews[p])
  /\ \A t \in Txn : Serves(t, "apply") =>
       /\ OpsRow(previews[calls[t].preview])
       /\ NoneAbove(previews[calls[t].preview].ops, previews[calls[t].preview].to)

(* What is due to a preview does not change: the log grows past its head.  *)
LEMMA DueIsStable ==
  ASSUME LogInv, [Next]_vars, NEW lo \in Nat, NEW hi \in Nat, hi <= heads[SyncLibrary]
  PROVE  Between(lo, hi)' = Between(lo, hi)
<1>1. \A r \in revisions' : r.clock \in Nat
  BY LogInvNext DEF LogInv, TypeOK, Revision
<1> QED
  BY <1>1, HeadGrows DEF Between, LogOf

LEMMA OpsStable ==
  ASSUME LogInv, [Next]_vars, NEW v, v.base \in Nat, v.to \in Nat,
         v.to <= heads[SyncLibrary], OpsRow(v)
  PROVE  /\ v.ops \subseteq {r \in LogOf(revisions', SyncLibrary) : r.clock > v.base}
         /\ NoneAbove(v.ops, v.to) \/ v.to < heads'[SyncLibrary]
         /\ Cardinality(Between(v.base, v.to)') <= OpsLimit => Between(v.base, v.to)' \subseteq v.ops
         /\ v.status = "applied" => NoneAbove(v.ops, v.to)
<1>1. Between(v.base, v.to)' = Between(v.base, v.to)
  BY DueIsStable
<1> QED
  BY <1>1, HeadGrows DEF OpsRow, LogOf

(* A clock belongs to one revision, so what is between two clocks is finite. *)
LEMMA BetweenIsFinite ==
  ASSUME LogInv, NEW lo \in Nat, NEW hi \in Nat
  PROVE  IsFiniteSet(Between(lo, hi))
<1> DEFINE S == Between(lo, hi)
           clock == [r \in S |-> r.clock]
<1>1. \A r \in S : r \in revisions /\ r.library = SyncLibrary /\ r.clock \in lo .. hi
  BY DEF Between, LogOf, LogInv, TypeOK, Revision
<1>2. \A r, s \in S : r.clock = s.clock => r = s
  BY <1>1, SyncAssumption DEF LogInv, Committed, Numbered
<1> HIDE DEF S
<1>3. clock \in Injection(S, lo .. hi)
  <2>1. clock \in [S -> lo .. hi]
    BY <1>1
  <2>2. \A r, s \in S : clock[r] = clock[s] => r = s
    BY <1>2
  <2> HIDE DEF clock
  <2> QED
    BY <2>1, <2>2 DEF Injection, IsInjective
<1>4. IsFiniteSet(lo .. hi)
  BY FS_Interval
<1>5. IsFiniteSet(S)
  BY <1>3, <1>4, FS_Injection
<1> QED
  BY <1>5 DEF S

(* list_server_ops gives everything that is due when that is within its     *)
(* limit, though it may give later revisions too.                          *)
LEMMA ServerOpsHasDue ==
  ASSUME LogInv, NEW base \in Nat, NEW to \in Nat, to <= heads[SyncLibrary]
  PROVE  /\ ServerOps(base) \subseteq {r \in LogOf(revisions, SyncLibrary) : r.clock > base}
         /\ NoneAbove(ServerOps(base), to) \/ to < heads[SyncLibrary]
         /\ Cardinality(Between(base, to)) <= OpsLimit => Between(base, to) \subseteq ServerOps(base)
<1> DEFINE rest == {r \in LogOf(revisions, SyncLibrary) : r.clock > base}
           due == Between(base, to)
<1> USE SyncAssumption
<1>1. \A r \in rest : r.clock \in Nat /\ r.clock <= heads[SyncLibrary] /\ r.clock > base
  BY DEF LogOf, LogInv, TypeOK, Revision, Committed, Numbered
<1>2. due = {r \in rest : r.clock <= to}
  BY DEF Between
<1>3. IsFiniteSet(due)
  BY BetweenIsFinite
<1>4. ServerOps(base) = {r \in rest : Cardinality({q \in rest : q.clock < r.clock}) < OpsLimit}
  BY DEF ServerOps
<1>5. heads[SyncLibrary] \in Nat
  BY DEF LogInv, TypeOK
<1> HIDE DEF rest, due
<1>6. ASSUME Cardinality(due) <= OpsLimit, NEW r \in due PROVE r \in ServerOps(base)
  <2> DEFINE before == {q \in rest : q.clock < r.clock}
  <2>1. r \in rest /\ before \in SUBSET (due \ {r})
    BY <1>1, <1>2
  <2>2. IsFiniteSet(due \ {r}) /\ Cardinality(due \ {r}) = Cardinality(due) - 1
    BY <1>3, <1>6, FS_RemoveElement
  <2> HIDE DEF before
  <2>3. IsFiniteSet(before) /\ Cardinality(before) <= Cardinality(due \ {r})
    BY <2>1, <2>2, FS_Subset
  <2>4. Cardinality(due) \in Nat /\ Cardinality(before) \in Nat
    BY <1>3, <2>3, FS_CardinalityType
  <2>5. Cardinality(before) < OpsLimit
    BY <1>6, <2>2, <2>3, <2>4
  <2> QED
    BY <1>4, <2>1, <2>5 DEF before
<1>7. ServerOps(base) \subseteq rest
  BY <1>4
<1>8. NoneAbove(ServerOps(base), to) \/ to < heads[SyncLibrary]
  BY <1>1, <1>5, <1>7 DEF NoneAbove
<1> QED
  BY <1>6, <1>7, <1>8 DEF rest, due

LEMMA OpsInit == SyncInit => OpsInv
BY DEF SyncInit, OpsInv, Serves

(* A row whose ops, base and to are not touched, and which is not becoming  *)
(* applied, stays what it is.                                              *)
LEMMA OpsKept ==
  ASSUME LogInv, [Next]_vars,
         NEW p \in Preview, OpsRow(previews[p]), PreviewRow(previews[p], heads[SyncLibrary]),
         previews'[p].ops = previews[p].ops, previews'[p].base = previews[p].base,
         previews'[p].to = previews[p].to,
         previews'[p].status = previews[p].status \/ NoneAbove(previews[p].ops, previews[p].to)
  PROVE  OpsRow(previews[p])'
<1>1. PICK v : v = previews[p]
  OBVIOUS
<1>2. v.base \in Nat /\ v.to \in Nat /\ v.to <= heads[SyncLibrary] /\ OpsRow(v)
  BY <1>1 DEF PreviewRow
<1>3. /\ v.ops \subseteq {r \in LogOf(revisions', SyncLibrary) : r.clock > v.base}
      /\ NoneAbove(v.ops, v.to) \/ v.to < heads'[SyncLibrary]
      /\ Cardinality(Between(v.base, v.to)') <= OpsLimit => Between(v.base, v.to)' \subseteq v.ops
      /\ v.status = "applied" => NoneAbove(v.ops, v.to)
  BY <1>2, OpsStable
<1> QED
  BY <1>1, <1>3 DEF OpsRow, Between, LogOf

(* Rows that change keep what the applies of them rely on. *)
LEMMA OpsStep ==
  ASSUME LogInv, ServiceInv, OpsInv, [Next]_vars,
         \A p \in Preview :
           \/ previews'[p] = previews[p]
           \/ /\ OpsRow(previews[p])'
              /\ \A t \in Txn : Serves(t, "apply") /\ calls[t].preview = p =>
                   previews'[p].ops = previews[p].ops /\ previews'[p].to = previews[p].to,
         \A t \in Txn : Serves(t, "apply")' =>
           \/ Serves(t, "apply") /\ calls'[t].preview = calls[t].preview
           \/ \E p \in Preview :
                /\ calls'[t].preview = p /\ previews'[p] = previews[p] /\ previews[p] # None
                /\ NoneAbove(previews[p].ops, previews[p].to)
  PROVE  OpsInv'
<1>1. ASSUME NEW p \in Preview, OpsRow(previews[p]), PreviewRow(previews[p], heads[SyncLibrary]),
             previews'[p] = previews[p]
      PROVE  OpsRow(previews[p])'
  BY <1>1, OpsKept
<1>2. ASSUME NEW p \in Preview, previews[p] # None
      PROVE  OpsRow(previews[p]) /\ PreviewRow(previews[p], heads[SyncLibrary])
  BY <1>2 DEF OpsInv, ServiceInv
<1>3. ASSUME NEW p \in Preview, previews'[p] # None PROVE OpsRow(previews[p])'
  BY <1>1, <1>2, <1>3
<1>4. ASSUME NEW t \in Txn, Serves(t, "apply")'
      PROVE  \E p \in Preview : /\ calls'[t].preview = p /\ OpsRow(previews[p])'
                                /\ NoneAbove(previews'[p].ops, previews'[p].to)
  <2>1. CASE Serves(t, "apply") /\ calls'[t].preview = calls[t].preview
    <3>1. PICK p \in Preview : p = calls[t].preview /\ PreviewRow(previews[p], heads[SyncLibrary])
      BY <2>1 DEF Serves, ServiceInv, CallRow
    <3>2. OpsRow(previews[p]) /\ NoneAbove(previews[p].ops, previews[p].to)
      BY <2>1, <3>1 DEF OpsInv
    <3>3. OpsRow(previews[p])' /\ previews'[p].ops = previews[p].ops /\ previews'[p].to = previews[p].to
      BY <1>1, <2>1, <3>1, <3>2
    <3> QED
      BY <2>1, <3>1, <3>2, <3>3
  <2>2. CASE \E p \in Preview :
               /\ calls'[t].preview = p /\ previews'[p] = previews[p] /\ previews[p] # None
               /\ NoneAbove(previews[p].ops, previews[p].to)
    BY <1>1, <1>2, <2>2
  <2> QED
    BY <1>4, <2>1, <2>2
<1>5. \A p \in Preview : previews'[p] = None \/ OpsRow(previews[p])'
  BY <1>3
<1>6. \A t \in Txn : Serves(t, "apply")' =>
        /\ OpsRow(previews[calls[t].preview])'
        /\ NoneAbove(previews'[calls'[t].preview].ops, previews'[calls'[t].preview].to)
  BY <1>4
<1> QED
  BY <1>5, <1>6 DEF OpsInv

LEMMA OpsNext ==
  ASSUME LogInv, ServiceInv, OpsInv, [SyncNext]_allVars
  PROVE  OpsInv'
<1>0. [Next]_vars
  BY StoreSteps
<1>1. CASE UNCHANGED <<previews, calls>>
  BY <1>0, <1>1, OpsStep DEF Serves
<1>2. ASSUME NEW t \in Txn, UNCHANGED previews,
             calls'[t] = None \/ calls'[t].call # "apply",
             \A u \in Txn \ {t} : calls'[u] = calls[u]
      PROVE  OpsInv'
  BY <1>0, <1>2, OpsStep DEF Serves
<1>3. ASSUME NEW p \in Preview, Expire(p) PROVE OpsInv'
  <2>1. /\ UNCHANGED calls /\ previews[p] # None
        /\ previews' = [previews EXCEPT ![p].late = TRUE]
    BY <1>3 DEF Expire
  <2>2. OpsRow(previews[p]) /\ PreviewRow(previews[p], heads[SyncLibrary])
    BY <2>1 DEF OpsInv, ServiceInv
  <2>3. /\ previews'[p].ops = previews[p].ops /\ previews'[p].base = previews[p].base
        /\ previews'[p].to = previews[p].to /\ previews'[p].status = previews[p].status
    BY <2>1, <2>2 DEF PreviewRow, ServiceInv
  <2>4. OpsRow(previews[p])'
    BY <1>0, <2>2, <2>3, OpsKept
  <2>5. \A q \in Preview \ {p} : previews'[q] = previews[q]
    BY <2>1 DEF ServiceInv
  <2> QED
    BY <1>0, <2>1, <2>3, <2>4, <2>5, OpsStep DEF Serves
<1>4. ASSUME NEW t \in Txn, NEW p \in Preview, FinishPreview(t, p) PROVE OpsInv'
  <2>1. PICK k : k = calls[t]
    OBVIOUS
  <2>2. /\ \A u \in Txn : Serves(u, "apply") => calls[u].preview # p
        /\ calls' = [calls EXCEPT ![t] = None] /\ UNCHANGED vars /\ k # None /\ k.call = "preview"
    BY <1>4, <2>1 DEF FinishPreview, FreshPreview, Serves, Calling
  <2>3. /\ previews'[p].ops = ServerOps(k.base) /\ previews'[p].base = k.base
        /\ previews'[p].to = k.to /\ previews'[p].status # "applied"
        /\ \A q \in Preview \ {p} : previews'[q] = previews[q]
    BY <1>4, <2>1 DEF FinishPreview, ServiceInv
  <2>4. k.base \in Nat /\ k.to \in Nat /\ k.to <= heads[SyncLibrary]
    BY <2>1, <2>2 DEF ServiceInv, CallRow
  <2>5. /\ ServerOps(k.base) \subseteq {r \in LogOf(revisions, SyncLibrary) : r.clock > k.base}
        /\ NoneAbove(ServerOps(k.base), k.to) \/ k.to < heads[SyncLibrary]
        /\ Cardinality(Between(k.base, k.to)) <= OpsLimit =>
             Between(k.base, k.to) \subseteq ServerOps(k.base)
    BY <2>4, ServerOpsHasDue
  <2>6. UNCHANGED <<revisions, heads>>
    BY <2>2 DEF vars
  <2>7. OpsRow(previews[p])'
    <3> HIDE <2>1
    <3> DEFINE ops == ServerOps(k.base)
    <3> HIDE DEF ops
    <3> QED
      BY <2>3, <2>5, <2>6 DEF OpsRow, Between, LogOf, ops
  <2>8. \A u \in Txn : Serves(u, "apply")' => Serves(u, "apply") /\ calls'[u] = calls[u]
    BY <2>2 DEF Serves, ServiceInv
  <2> QED
    BY <1>0, <2>2, <2>3, <2>7, <2>8, OpsStep
<1>5. ASSUME NEW t \in Txn, NEW p \in Preview, StartApply(t, p) PROVE OpsInv'
  <2>1. /\ previews[p] # None /\ heads[SyncLibrary] = previews[p].to /\ UNCHANGED previews
        /\ calls' = [calls EXCEPT ![t] = [call |-> "apply", client |-> previews[p].client,
                       preview |-> p, todo |-> previews[p].accepted, made |-> {}]]
    BY <1>5 DEF StartApply, Calling
  <2>2. OpsRow(previews[p]) /\ PreviewRow(previews[p], heads[SyncLibrary])
    BY <2>1 DEF OpsInv, ServiceInv
  <2>3. NoneAbove(previews[p].ops, previews[p].to)
    BY <2>1, <2>2 DEF OpsRow, PreviewRow
  <2>4. calls'[t].preview = p /\ \A u \in Txn \ {t} : calls'[u] = calls[u]
    BY <2>1 DEF ServiceInv
  <2> QED
    BY <1>0, <2>1, <2>3, <2>4, OpsStep DEF Serves
<1>6. ASSUME NEW t \in Txn, ApplyLog(t) PROVE OpsInv'
  <2>1. /\ UNCHANGED previews /\ Serves(t, "apply") /\ calls'[t].preview = calls[t].preview
        /\ \A u \in Txn \ {t} : calls'[u] = calls[u]
    <3>1. /\ UNCHANGED previews /\ Serves(t, "apply")
          /\ \E made, rest : calls' = [calls EXCEPT ![t] = [@ EXCEPT !.todo = rest, !.made = made]]
      BY <1>6 DEF ApplyLog, Calling
    <3>2. PICK k : k = calls[t]
      OBVIOUS
    <3>3. \E made, rest : calls'[t] = [k EXCEPT !.todo = rest, !.made = made]
      <4>1. PICK made, rest : calls' = [calls EXCEPT ![t] = [@ EXCEPT !.todo = rest, !.made = made]]
        BY <3>1
      <4>2. calls'[t] = [k EXCEPT !.todo = rest, !.made = made]
        BY <3>2, <4>1 DEF ServiceInv
      <4> QED
        BY <4>2
    <3>4. k = [call |-> "apply", client |-> k.client, preview |-> k.preview,
               todo |-> k.todo, made |-> k.made]
      BY <3>1, <3>2 DEF ServiceInv, CallRow, Serves
    <3>5. calls'[t].preview = k.preview
      BY <3>3, <3>4
    <3> QED
      BY <3>1, <3>2, <3>5 DEF ServiceInv
  <2> QED
    BY <1>0, <2>1, OpsStep DEF Serves
<1>7. ASSUME NEW t \in Txn, FinishApply(t) PROVE OpsInv'
  <2>1. PICK p : p = calls[t].preview
    OBVIOUS
  <2>2. /\ Serves(t, "apply") /\ calls' = [calls EXCEPT ![t] = None]
        /\ \E result, logged : previews' = [previews EXCEPT ![p].status = "applied",
                                            ![p].result = result, ![p].logged = logged]
    BY <1>7, <2>1 DEF FinishApply, Calling
  <2>3. p \in Preview /\ PreviewRow(previews[p], heads[SyncLibrary]) /\ OpsRow(previews[p])
        /\ NoneAbove(previews[p].ops, previews[p].to)
    BY <2>1, <2>2 DEF ServiceInv, CallRow, OpsInv, Serves
  <2>4. /\ previews'[p].ops = previews[p].ops /\ previews'[p].base = previews[p].base
        /\ previews'[p].to = previews[p].to /\ \A q \in Preview \ {p} : previews'[q] = previews[q]
    BY <2>2, <2>3 DEF PreviewRow, ServiceInv
  <2>5. OpsRow(previews[p])'
    BY <1>0, <2>3, <2>4, OpsKept
  <2>6. \A u \in Txn : Serves(u, "apply")' => Serves(u, "apply") /\ calls'[u] = calls[u]
    BY <2>2 DEF Serves, ServiceInv
  <2> QED
    BY <1>0, <2>4, <2>5, <2>6, OpsStep
<1>8. ASSUME NEW t \in Txn, NEW c \in Client, NEW base, NEW list, StartPreview(t, c, base, list)
      PROVE  OpsInv'
  BY <1>2, <1>8 DEF StartPreview, Calling, ServiceInv
<1>9. ASSUME NEW t \in Txn, NEW c \in Client, NEW clock, StartAck(t, c, clock) PROVE OpsInv'
  BY <1>2, <1>9 DEF StartAck, Calling, ServiceInv
<1>10. ASSUME NEW t \in Txn, FinishAck(t) \/ FailCall(t) PROVE OpsInv'
  BY <1>2, <1>10 DEF FinishAck, FailCall, Calling, ServiceInv
<1>11. ASSUME NEW t \in Txn, NEW p, \/ Dashboard(t) \/ ApplyMutation(t) \/ ApplyWrite(t)
                                    \/ ReplayApply(t, p)
       PROVE  OpsInv'
  BY <1>1, <1>11 DEF Dashboard, ApplyMutation, ApplyWrite, ReplayApply, syncVars
<1>12. CASE UNCHANGED allVars
  BY <1>1, <1>12 DEF allVars, syncVars
<1> QED
  BY <1>3, <1>4, <1>5, <1>6, <1>7, <1>8, <1>9, <1>10, <1>11, <1>12 DEF SyncNext

(* An applied preview has given its client what lay between its base and    *)
(* its to clock, with any number of connections and other applies: though   *)
(* the head was read before the ops, and neither is locked, a preview that  *)
(* caught a later revision is refused.                                     *)
THEOREM PreviewsAreExact == SyncSpec => []PreviewOpsAreExact
<1>1. SyncInit => LogInv /\ ServiceInv /\ OpsInv
  BY LogInvInit, ServiceInit, OpsInit
<1>2. LogInv /\ ServiceInv /\ OpsInv /\ [SyncNext]_allVars => (LogInv /\ ServiceInv /\ OpsInv)'
  BY StoreSteps, LogInvNext, ServiceNext, OpsNext
<1>3. LogInv /\ ServiceInv /\ OpsInv => PreviewOpsAreExact
  <2> SUFFICES ASSUME OpsInv, NEW p \in Preview, previews[p] # None,
                      previews[p].status = "applied"
               PROVE  LET due == Between(previews[p].base, previews[p].to)
                      IN /\ previews[p].ops \subseteq due
                         /\ Cardinality(due) <= OpsLimit => previews[p].ops = due
    BY DEF PreviewOpsAreExact, Applied, Stored, Between
  <2>1. OpsRow(previews[p]) /\ NoneAbove(previews[p].ops, previews[p].to)
    BY DEF OpsInv, OpsRow
  <2> QED
    BY <2>1 DEF OpsRow, Between, NoneAbove
<1> QED
  BY <1>1, <1>2, <1>3, PTL DEF SyncSpec

-----------------------------------------------------------------------------
(* The bindings of the nodes an apply creates. *)

(* What a row has logged is committed, its creates with their bindings. *)
LoggedRow(v) ==
  /\ \A c \in v.logged : c \in Nat /\ c <= heads[SyncLibrary]
  /\ \A r \in LogOf(revisions, SyncLibrary) :
       r.clock \in v.logged /\ r.op = "node.create" =>
         \E k \in mappings : k.client = v.client /\ k.node = r.node

(* The bindings an apply is about to commit are of nodes only it has, and   *)
(* there are none before it holds the head.                                *)
MadeOK(t) ==
  LET k == calls[t] IN
  /\ \A e \in k.made : /\ e.client = k.client /\ e.node \in Node
                       /\ draft[t][e.node] # None /\ nodes[e.node] = None
  /\ \A d, e \in k.made : d.ext = e.ext <=> d.node = e.node
  /\ \A e \in k.made, o \in mappings : o.client = k.client => o.ext # e.ext
  /\ k.made # {} => claim[t][SyncLibrary] > 0
  /\ \A r \in pending[t] :
       /\ r.library = SyncLibrary
       /\ r.op = "node.create" => \E e \in k.made : e.node = r.node

(* The operation in progress is the first mutation left, in the library.   *)
InHand(t) ==
  LET k == calls[t]
      n == request[t].node
      creating == request[t].op = "node.create"
  IN phase[t] \in {"write", "log"} =>
     /\ k.todo # <<>> /\ request[t].op # "library.create"
     /\ creating <=> k.todo[1].op = "create"
     /\ phase[t] = "write" /\ creating => request[t].row.library = SyncLibrary
     /\ phase[t] = "log" \/ ~creating => InSyncLibrary(t, n)
     /\ creating => /\ nodes[n] = None
                    /\ \A e \in k.made : e.node # n /\ e.ext # k.todo[1].ext

IdleInv == \A t \in Txn : phase[t] = "idle" => pending[t] = {} /\ claim[t] = NoClaim

ApplyInv == \A t \in Txn : Serves(t, "apply") =>
  /\ MadeOK(t) /\ InHand(t)
  /\ calls[t].client = previews[calls[t].preview].client
  /\ LoggedRow(previews[calls[t].preview])

OneToOne == \A j, k \in mappings : j.client = k.client => (j.ext = k.ext <=> j.node = k.node)

MapInv ==
  /\ IdleInv /\ ApplyInv /\ OneToOne
  /\ \A o \in mappings : o.node \in Node /\ nodes[o.node] # None
  /\ \A p \in Preview : previews[p] = None \/ LoggedRow(previews[p])

LEMMA MapInit == SyncInit => MapInv
BY DEF SyncInit, MapInv, IdleInv, ApplyInv, OneToOne, Serves

LEMMA IdleNext ==
  ASSUME LogInv, [Next]_vars, IdleInv
  PROVE  IdleInv'
<1>1. ASSUME NEW t \in Txn, Check(t) PROVE IdleInv'
  <2>1. phase' = [phase EXCEPT ![t] = "write"] /\ UNCHANGED <<pending, claim>>
    BY <1>1, CheckAsks DEF LogInv, Ask
  <2> QED
    BY <2>1 DEF IdleInv, LogInv, TypeOK
<1>2. ASSUME NEW t \in Txn, WriteNode(t) PROVE IdleInv'
  <2>1. phase' = [phase EXCEPT ![t] = "log"] /\ UNCHANGED <<pending, claim>>
    BY <1>2 DEF WriteNode
  <2> QED
    BY <2>1 DEF IdleInv, LogInv, TypeOK
<1>3. ASSUME NEW t \in Txn, LogRevision(t) PROVE IdleInv'
  <2>1. /\ phase' = [phase EXCEPT ![t] = "done"]
        /\ \E c, P : claim' = [claim EXCEPT ![t] = c] /\ pending' = [pending EXCEPT ![t] = P]
    BY <1>3 DEF LogRevision
  <2> QED
    BY <2>1 DEF IdleInv, LogInv, TypeOK
<1>4. ASSUME NEW t \in Txn, Commit(t) \/ Rollback(t) PROVE IdleInv'
  <2>1. Release(t)
    BY <1>4 DEF Commit, Rollback
  <2> QED
    BY <2>1 DEF IdleInv, Release, LogInv, TypeOK
<1>5. CASE UNCHANGED vars
  BY <1>5 DEF vars, IdleInv
<1> QED
  BY <1>1, <1>2, <1>3, <1>4, <1>5 DEF Next

(* What a preview has logged stays logged and bound. *)
LEMMA LoggedKept ==
  ASSUME LogInv, [Next]_vars, mappings \subseteq mappings', NEW v, LoggedRow(v)
  PROVE  /\ \A c \in v.logged : c \in Nat /\ c <= heads'[SyncLibrary]
         /\ \A r \in LogOf(revisions', SyncLibrary) :
              r.clock \in v.logged /\ r.op = "node.create" =>
                \E k \in mappings' : k.client = v.client /\ k.node = r.node
<1>1. \A r \in revisions' : r.clock \in Nat
  BY LogInvNext DEF LogInv, TypeOK, Revision
<1>2. \A c \in v.logged : c \in Nat /\ c <= heads[SyncLibrary]
  BY DEF LoggedRow
<1>3. \A r \in LogOf(revisions', SyncLibrary) : r.clock \in v.logged => r \in LogOf(revisions, SyncLibrary)
  BY <1>1, <1>2, HeadGrows DEF LogOf
<1>4. \A r \in LogOf(revisions', SyncLibrary) :
         r.clock \in v.logged /\ r.op = "node.create" =>
           \E k \in mappings' : k.client = v.client /\ k.node = r.node
  BY <1>3 DEF LoggedRow
<1>5. ASSUME NEW c \in v.logged PROVE c \in Nat /\ c <= heads'[SyncLibrary]
  BY <1>2, HeadGrows
<1> QED
  BY <1>4, <1>5

(* The bindings that are committed, and when they change. *)
MappingsStep ==
  \/ UNCHANGED mappings
  \/ \E u \in Txn : /\ Serves(u, "apply") /\ calls'[u] = None
                    /\ mappings' = mappings \cup calls[u].made

(* An apply that is not taking a step keeps what it relies on. *)
LEMMA ApplyFrame ==
  ASSUME LogInv, MapInv, [Next]_vars, MappingsStep,
         NEW t \in Txn, Serves(t, "apply"), calls'[t] = calls[t],
         phase'[t] = phase[t], request'[t] = request[t], draft'[t] = draft[t],
         claim'[t] = claim[t], pending'[t] = pending[t]
  PROVE  MadeOK(t)' /\ InHand(t)'
<1> PICK k : k = calls[t]
  OBVIOUS
<1>1. MadeOK(t) /\ InHand(t)
  BY DEF MapInv, ApplyInv
<1>2. \A e \in k.made : /\ e.client = k.client /\ e.node \in Node
                        /\ draft[t][e.node] # None /\ nodes'[e.node] = None
  BY <1>1, NodesKept DEF MadeOK
<1>3. \A e \in k.made, o \in mappings' : o.client = k.client => o.ext # e.ext
  <2>1. CASE UNCHANGED mappings
    BY <1>1, <2>1 DEF MadeOK
  <2>2. CASE \E u \in Txn : /\ Serves(u, "apply") /\ calls'[u] = None
                            /\ mappings' = mappings \cup calls[u].made
    <3> SUFFICES ASSUME NEW u \in Txn, Serves(u, "apply"), calls'[u] = None,
                        NEW e \in k.made, NEW o \in calls[u].made
                 PROVE  FALSE
      BY <1>1, <2>2 DEF MadeOK
    <3>1. claim[t][SyncLibrary] > 0 /\ claim[u][SyncLibrary] > 0
      BY <1>1 DEF MapInv, ApplyInv, MadeOK
    <3>2. t = u
      BY <3>1, SyncAssumption DEF LogInv, Exclusive
    <3> QED
      BY <3>2 DEF Serves
  <2> QED
    BY <2>1, <2>2 DEF MappingsStep
<1>4. MadeOK(t)'
  BY <1>1, <1>2, <1>3 DEF MadeOK
<1>5. InHand(t)'
  <2> DEFINE n == request[t].node
  <2> SUFFICES ASSUME phase[t] \in {"write", "log"}
               PROVE  /\ InSyncLibrary(t, n) => InSyncLibrary(t, n)'
                      /\ request[t].op = "node.create" => nodes'[n] = None
    BY <1>1 DEF InHand
  <2>1. n \in Node
    BY DEF LogInv, OperationInv, Request
  <2>2. InSyncLibrary(t, n) => InSyncLibrary(t, n)'
    BY <2>1, NodesKept DEF InSyncLibrary, Visible
  <2>3. ASSUME request[t].op = "node.create" PROVE nodes'[n] = None
    <3>1. CASE phase[t] = "write"
      <4>1. RowLockInv'
        BY LogInvNext DEF LogInv
      <4> QED
        BY <2>3, <3>1, <4>1 DEF RowLockInv, Creates
    <3>2. CASE phase[t] = "log"
      <4>1. draft[t][n] # None
        BY <3>2 DEF LogInv, OperationInv
      <4> QED
        BY <1>1, <2>1, <2>3, <3>2, <4>1, NodesKept DEF InHand
    <3> QED
      BY <3>1, <3>2
  <2> QED
    BY <2>2, <2>3
<1> QED
  BY <1>4, <1>5

(* Taking the next mutation: its checks put it in the library, on a node    *)
(* nobody has and an external id the apply has not bound.                  *)
LEMMA MutationStep ==
  ASSUME LogInv, ServiceInv, MapInv, NEW t \in Txn, ApplyMutation(t)
  PROVE  MadeOK(t)' /\ InHand(t)'
<1> PICK k : k = calls[t]
  OBVIOUS
<1>1. /\ Serves(t, "apply") /\ k.todo # <<>> /\ UNCHANGED <<calls, mappings>>
      /\ MadeOK(t)
  BY DEF ApplyMutation, syncVars, MapInv, ApplyInv
<1>2. PICK op \in OpType, n \in Node, row \in Row : Ask(t, op, n, row)
  BY MutationChecks, CheckAsks DEF LogInv
<1>3. /\ phase'[t] = "write" /\ request'[t] = [op |-> op, node |-> n, row |-> row]
      /\ UNCHANGED <<nodes, draft, claim, pending>>
  BY <1>2 DEF Ask, tables, LogInv, TypeOK
<1>4. MadeOK(t)'
  BY <1>1, <1>3 DEF MadeOK
<1> DEFINE m == k.todo[1]
<1>5. \/ /\ m.op = "create" /\ request'[t].op = "node.create"
         /\ request'[t].row.library = SyncLibrary /\ Fresh(request'[t].node)
         /\ \A e \in k.made : e.client = k.client => e.ext # m.ext
      \/ /\ m.op # "create" /\ request'[t].op \notin {"node.create", "library.create"}
         /\ InSyncLibrary(t, request'[t].node)
  <2> HIDE DEF m
  <2>1. \A o, a, r : Ask(t, o, a, r) => request'[t].op = o /\ request'[t].node = a /\ request'[t].row = r
    BY DEF Ask, LogInv, TypeOK
  <2>2. CASE m.op = "create"
    <3>1. PICK a \in Node, title \in Title :
            CheckCreate(t, SyncLibrary, a, m.parent, m.type, title, m.url)
      BY <1>1, <2>2 DEF ApplyMutation, m
    <3>2. /\ Fresh(a)
          /\ Ask(t, "node.create", a, [library |-> SyncLibrary, type |-> m.type, parent |-> m.parent,
                                       title |-> title, url |-> m.url, deleted |-> FALSE])
      BY <3>1 DEF CheckCreate
    <3>3. \A e \in k.made : e.client = k.client => e.ext # m.ext
      BY <1>1, <2>2 DEF ApplyMutation, m
    <3> QED
      BY <2>1, <2>2, <3>2, <3>3
  <2>3. CASE m.op # "create"
    <3>1. InSyncLibrary(t, m.target)
      BY <1>1, <2>3 DEF ApplyMutation, m
    <3>2. \/ CheckUpdate(t, m.target, m.title, m.url) \/ CheckMove(t, m.target, m.parent)
          \/ CheckSetDeleted(t, m.target, "node.delete") \/ CheckSetDeleted(t, m.target, "node.restore")
      BY <1>1, <2>3 DEF ApplyMutation, m
    <3>3. \E o \in {"node.update", "node.move", "node.delete", "node.restore"} :
            \E r : Ask(t, o, m.target, r)
      BY <3>2 DEF CheckUpdate, CheckMove, CheckSetDeleted
    <3> QED
      BY <2>1, <2>3, <3>1, <3>3
  <2> QED
    BY <2>2, <2>3
<1>6. \A e \in k.made : e.client = k.client /\ e.node \in Node /\ draft[t][e.node] # None
  BY <1>1 DEF MadeOK
<1>7. InSyncLibrary(t, n)' <=> InSyncLibrary(t, n)
  BY <1>3 DEF InSyncLibrary, Visible
<1> HIDE DEF m
<1>8. InHand(t)'
  BY <1>1, <1>3, <1>5, <1>6, <1>7 DEF InHand, Fresh, m
<1> QED
  BY <1>4, <1>8

(* Writing its row. *)
LEMMA WriteStep ==
  ASSUME LogInv, MapInv, NEW t \in Txn, ApplyWrite(t)
  PROVE  MadeOK(t)' /\ InHand(t)'
<1> PICK k : k = calls[t]
  OBVIOUS
<1> DEFINE n == request[t].node
           old == Visible(t, n)
           new == Written(request[t], old)
<1>1. /\ Serves(t, "apply") /\ UNCHANGED <<calls, mappings, nodes, request, claim, pending>>
      /\ phase[t] = "write" /\ phase'[t] = "log"
      /\ draft' = [draft EXCEPT ![t] = [@ EXCEPT ![n] = new]]
  BY DEF ApplyWrite, WriteNode, syncVars, tables, LogInv, TypeOK
<1>2. MadeOK(t) /\ InHand(t)
  BY <1>1 DEF MapInv, ApplyInv
<1>3. request[t] \in Request /\ n \in Node /\ request[t].op # "library.create"
  BY <1>1, <1>2 DEF LogInv, OperationInv, Request, InHand
<1>4. old \in Row \cup {None} /\ (request[t].op # "node.create" => old # None)
  BY <1>1, <1>3 DEF LogInv, TypeOK, OperationInv, Visible, Creates
<1>5. new \in Row /\ new.library = SyncLibrary
  <2>1. request[t].op \notin Creates => old # None
    BY <1>3, <1>4 DEF Creates
  <2>2. new \in Row /\ (request[t].op \notin Creates => new.library = old.library)
    BY <1>3, <1>4, <2>1, WrittenIsRow
  <2>3. CASE request[t].op = "node.create"
    BY <1>1, <1>2, <2>2, <2>3 DEF InHand, Written
  <2>4. CASE request[t].op # "node.create"
    BY <1>1, <1>2, <1>3, <2>2, <2>4 DEF InHand, InSyncLibrary, Creates
  <2> QED
    BY <2>2, <2>3, <2>4
<1>6. new # None
  BY <1>5, ConstantsAssumption
<1> HIDE DEF new
<1>7. \A a \in Node : draft'[t][a] = IF a = n THEN new ELSE draft[t][a]
  BY <1>1, <1>3 DEF LogInv, TypeOK
<1>8. MadeOK(t)'
  BY <1>1, <1>2, <1>6, <1>7 DEF MadeOK
<1>9. InSyncLibrary(t, n)'
  BY <1>1, <1>3, <1>5, <1>6, <1>7 DEF InSyncLibrary, Visible
<1>10. InHand(t)'
  BY <1>1, <1>2, <1>9 DEF InHand
<1> QED
  BY <1>8, <1>10

(* Logging it: a create adds the binding of its node. *)
LEMMA LogStep ==
  ASSUME LogInv, ServiceInv, MapInv, NEW t \in Txn, ApplyLog(t)
  PROVE  /\ MadeOK(t)' /\ InHand(t)'
         /\ calls'[t].client = calls[t].client /\ calls'[t].preview = calls[t].preview
<1> PICK k : k = calls[t]
  OBVIOUS
<1> DEFINE n == request[t].node
           l == draft[t][n].library
           c == VisibleHead(t, l) + 1
           op == request[t].op
           m == k.todo[1]
           new == [client |-> k.client, ext |-> m.ext, node |-> n]
           made == IF m.op = "create" THEN k.made \cup {new} ELSE k.made
           rev == [library |-> l, clock |-> c, op |-> op, node |-> n, row |-> draft[t][n]]
<1>1. /\ Serves(t, "apply") /\ phase[t] = "log" /\ UNCHANGED <<mappings, nodes, draft>>
      /\ phase'[t] = "done" /\ pending'[t] = pending[t] \cup {rev}
      /\ claim' = [claim EXCEPT ![t] = [@ EXCEPT ![l] = c]]
      /\ \/ m.op # "create" /\ made = k.made
         \/ /\ m.op = "create" /\ made = k.made \cup {new}
            /\ ~\E o \in mappings : o.client = k.client /\ o.ext = m.ext
      /\ calls'[t] = [k EXCEPT !.todo = Tail(k.todo), !.made = made]
  <2>1. LogRevision(t) /\ Serves(t, "apply") /\ UNCHANGED mappings
    BY DEF ApplyLog
  <2>2. /\ phase[t] = "log" /\ UNCHANGED <<nodes, draft>>
        /\ phase'[t] = "done" /\ pending'[t] = pending[t] \cup {rev}
        /\ claim' = [claim EXCEPT ![t] = [@ EXCEPT ![l] = c]]
    BY <2>1 DEF LogRevision, tables, LogInv, TypeOK
  <2>3. /\ m.op = "create" => ~\E o \in mappings : o.client = k.client /\ o.ext = m.ext
        /\ calls'[t] = [k EXCEPT !.todo = Tail(k.todo), !.made = made]
    BY DEF ApplyLog, Calling, ServiceInv
  <2> QED
    BY <2>1, <2>2, <2>3
<1>2. MadeOK(t) /\ InHand(t)
  BY <1>1 DEF MapInv, ApplyInv
<1>3. op # "library.create" /\ (op = "node.create" <=> m.op = "create") /\ InSyncLibrary(t, n)
  BY <1>1, <1>2 DEF InHand
<1>4. draft[t][n] # None /\ n \in Node /\ l = SyncLibrary
  BY <1>1, <1>3 DEF LogInv, OperationInv, InSyncLibrary, Visible
<1>5. claim'[t][SyncLibrary] > 0
  <2>1. claim'[t][SyncLibrary] = c /\ c > 0
    BY <1>1, <1>4, SyncAssumption DEF VisibleHead, LogInv, TypeOK
  <2> QED
    BY <2>1
<1>6. m.op = "create" => /\ nodes[n] = None
                         /\ \A e \in k.made : e.node # n /\ e.ext # m.ext
  BY <1>1, <1>2, <1>3 DEF InHand
<1> HIDE DEF made, m, l, c, op, n
<1>7. /\ \A e \in made : /\ e.client = k.client /\ e.node \in Node
                         /\ draft[t][e.node] # None /\ nodes[e.node] = None
      /\ \A d, e \in made : d.ext = e.ext <=> d.node = e.node
      /\ \A e \in made, o \in mappings : o.client = k.client => o.ext # e.ext
      /\ \A e \in k.made : e \in made
      /\ m.op = "create" => \E e \in made : e.node = n
  <2>1. CASE m.op # "create"
    BY <1>1, <1>2, <2>1 DEF MadeOK
  <2>2. CASE m.op = "create"
    <3>1. new.client = k.client /\ new.ext = m.ext /\ new.node = n
      OBVIOUS
    <3> HIDE DEF new
    <3>2. /\ made = k.made \cup {new}
          /\ \A o \in mappings : o.client = k.client => o.ext # new.ext
          /\ nodes[new.node] = None /\ draft[t][new.node] # None /\ new.node \in Node
          /\ \A e \in k.made : e.node # new.node /\ e.ext # new.ext
      BY <1>1, <1>4, <1>6, <2>2, <3>1
    <3>3. /\ \A e \in k.made : /\ e.client = k.client /\ e.node \in Node
                              /\ draft[t][e.node] # None /\ nodes[e.node] = None
          /\ \A d, e \in k.made : d.ext = e.ext <=> d.node = e.node
          /\ \A e \in k.made, o \in mappings : o.client = k.client => o.ext # e.ext
      BY <1>2 DEF MadeOK
    <3> QED
      BY <3>1, <3>2, <3>3
  <2> QED
    BY <2>1, <2>2
<1>8. \A r \in pending'[t] : /\ r.library = SyncLibrary
                             /\ r.op = "node.create" => \E e \in made : e.node = r.node
  BY <1>1, <1>2, <1>3, <1>4, <1>7 DEF MadeOK
<1>9. calls'[t].client = k.client /\ calls'[t].preview = k.preview /\ calls'[t].made = made
  <2>1. k = [call |-> "apply", client |-> k.client, preview |-> k.preview,
             todo |-> k.todo, made |-> k.made]
    BY <1>1 DEF ServiceInv, CallRow, Serves
  <2> QED
    BY <1>1, <2>1
<1>10. MadeOK(t)'
  BY <1>1, <1>5, <1>7, <1>8, <1>9 DEF MadeOK
<1>11. InHand(t)'
  BY <1>1 DEF InHand
<1> QED
  BY <1>9, <1>10, <1>11

(* A step of one connection leaves what the others hold alone. *)
LEMMA OthersKept ==
  ASSUME LogInv, NEW t \in Txn,
         \/ Check(t) \/ WriteNode(t) \/ LogRevision(t) \/ Commit(t) \/ Rollback(t)
         \/ UNCHANGED vars,
         NEW u \in Txn \ {t}
  PROVE  /\ phase'[u] = phase[u] /\ request'[u] = request[u] /\ draft'[u] = draft[u]
         /\ claim'[u] = claim[u] /\ pending'[u] = pending[u]
<1>1. CASE Check(t)
  <2>1. \E op, n, row : Ask(t, op, n, row)
    BY <1>1, CheckAsks DEF LogInv
  <2> QED
    BY <2>1 DEF Ask, LogInv, TypeOK
<1>2. CASE WriteNode(t) \/ LogRevision(t)
  BY <1>2 DEF WriteNode, LogRevision, LogInv, TypeOK
<1>3. CASE Commit(t) \/ Rollback(t)
  BY <1>3 DEF Commit, Rollback, Release, LogInv, TypeOK
<1>4. CASE UNCHANGED vars
  BY <1>4 DEF vars
<1> QED
  BY <1>1, <1>2, <1>3, <1>4

(* A row whose log and client are not touched keeps its bindings. *)
LEMMA RowKept ==
  ASSUME LogInv, [Next]_vars, mappings \subseteq mappings', NEW p, LoggedRow(previews[p]),
         previews'[p].logged = previews[p].logged, previews'[p].client = previews[p].client
  PROVE  LoggedRow(previews[p])'
<1>1. PICK v : v = previews[p]
  OBVIOUS
<1>2. /\ \A c \in v.logged : c \in Nat /\ c <= heads'[SyncLibrary]
      /\ \A r \in LogOf(revisions', SyncLibrary) :
           r.clock \in v.logged /\ r.op = "node.create" =>
             \E k \in mappings' : k.client = v.client /\ k.node = r.node
  BY <1>1, LoggedKept
<1> QED
  BY <1>1, <1>2 DEF LoggedRow, LogOf

Idles(u) == /\ calls'[u] = calls[u] /\ phase'[u] = phase[u] /\ request'[u] = request[u]
            /\ draft'[u] = draft[u] /\ claim'[u] = claim[u] /\ pending'[u] = pending[u]

(* What a step must show for the bindings. *)
LEMMA MapStep ==
  ASSUME LogInv, ServiceInv, MapInv, [Next]_vars, MappingsStep,
         \A p \in Preview :
           \/ previews'[p] = previews[p]
           \/ /\ LoggedRow(previews[p])'
              /\ \A u \in Txn : Serves(u, "apply") /\ calls[u].preview = p =>
                   previews'[p].client = previews[p].client,
         \/ UNCHANGED mappings
         \/ OneToOne' /\ \A o \in mappings' \ mappings : o.node \in Node /\ nodes'[o.node] # None,
         \A u \in Txn : Serves(u, "apply")' =>
           \/ Idles(u)
           \/ /\ MadeOK(u)' /\ InHand(u)'
              /\ \E p \in Preview :
                   /\ calls'[u].preview = p /\ calls'[u].client = previews[p].client
                   /\ previews'[p] = previews[p] /\ LoggedRow(previews[p])
  PROVE  MapInv'
<1>1. IdleInv'
  BY IdleNext DEF MapInv
<1>2. OneToOne'
  BY DEF MapInv, OneToOne
<1>3. \A o \in mappings' : o.node \in Node /\ nodes'[o.node] # None
  BY NodesKept DEF MapInv
<1>4. mappings \subseteq mappings'
  BY DEF MappingsStep
<1>5. ASSUME NEW p, LoggedRow(previews[p]), previews'[p] = previews[p] PROVE LoggedRow(previews[p])'
  BY <1>4, <1>5, RowKept
<1>6. \A p \in Preview : previews'[p] = None \/ LoggedRow(previews[p])'
  BY <1>5 DEF MapInv
<1>7. ASSUME NEW u \in Txn, Serves(u, "apply")'
      PROVE  /\ MadeOK(u)' /\ InHand(u)'
             /\ calls'[u].client = previews'[calls'[u].preview].client
             /\ LoggedRow(previews[calls[u].preview])'
  <2>1. CASE \E p \in Preview :
               /\ MadeOK(u)' /\ InHand(u)'
               /\ calls'[u].preview = p /\ calls'[u].client = previews[p].client
               /\ previews'[p] = previews[p] /\ LoggedRow(previews[p])
    <3>1. PICK p \in Preview :
                /\ MadeOK(u)' /\ InHand(u)'
                /\ calls'[u].preview = p /\ calls'[u].client = previews[p].client
                /\ previews'[p] = previews[p] /\ LoggedRow(previews[p])
      BY <2>1
    <3>2. LoggedRow(previews[p])'
      BY <1>5, <3>1
    <3> QED
      BY <3>1, <3>2
  <2>2. CASE Idles(u)
    <3>1. calls'[u] = calls[u] /\ Serves(u, "apply")
      BY <1>7, <2>2 DEF Serves, Idles
    <3>2. MadeOK(u)' /\ InHand(u)'
      BY <2>2, <3>1, ApplyFrame DEF Idles
    <3>3. PICK p \in Preview : p = calls[u].preview
      BY <3>1 DEF ServiceInv, CallRow, Serves
    <3>4. LoggedRow(previews[p]) /\ calls[u].client = previews[p].client
      BY <3>1, <3>3 DEF MapInv, ApplyInv
    <3>5. LoggedRow(previews[p])' /\ previews'[p].client = previews[p].client
      BY <1>5, <3>1, <3>3, <3>4
    <3> QED
      BY <3>1, <3>2, <3>3, <3>4, <3>5
  <2> QED
    BY <1>7, <2>1, <2>2
<1> QED
  BY <1>1, <1>2, <1>3, <1>6, <1>7 DEF MapInv, ApplyInv

(* The end of an apply commits its bindings with its revisions. *)
LEMMA FinishStep ==
  ASSUME LogInv, ServiceInv, MapInv, NEW t \in Txn, FinishApply(t), [Next]_vars
  PROVE  MapInv'
<1> PICK k : k = calls[t]
  OBVIOUS
<1> PICK p : p = k.preview
  OBVIOUS
<1>1. /\ Serves(t, "apply") /\ calls' = [calls EXCEPT ![t] = None]
      /\ mappings' = mappings \cup k.made
      /\ Commit(t) \/ (phase[t] = "idle" /\ UNCHANGED vars)
      /\ \E result : previews' = [previews EXCEPT ![p].status = "applied", ![p].result = result,
                                                  ![p].logged = @ \cup Clocks(pending[t])]
  BY DEF FinishApply, Calling
<1>2. MadeOK(t) /\ k.client = previews[p].client /\ LoggedRow(previews[p])
  BY <1>1 DEF MapInv, ApplyInv
<1>3. p \in Preview /\ PreviewRow(previews[p], heads[SyncLibrary])
  BY <1>1 DEF ServiceInv, CallRow, Serves
<1>4. MappingsStep
  BY <1>1 DEF MappingsStep, ServiceInv
<1>5. /\ previews'[p].client = previews[p].client
      /\ previews'[p].logged = previews[p].logged \cup Clocks(pending[t])
      /\ \A q \in Preview \ {p} : previews'[q] = previews[q]
  <2>1. PICK v : v = previews[p]
    OBVIOUS
  <2>2. PICK logged : logged = v.logged \cup Clocks(pending[t])
    OBVIOUS
  <2>3. PICK result : previews' = [previews EXCEPT ![p].status = "applied", ![p].result = result,
                                                  ![p].logged = logged]
    BY <1>1, <1>3, <2>1, <2>2 DEF ServiceInv
  <2>4. /\ previews'[p] = [v EXCEPT !.status = "applied", !.result = result, !.logged = logged]
        /\ \A q \in Preview \ {p} : previews'[q] = previews[q]
    BY <1>3, <2>1, <2>3 DEF ServiceInv
  <2>5. previews'[p].client = v.client /\ previews'[p].logged = logged
    BY <1>3, <2>1, <2>4 DEF PreviewRow
  <2> QED
    BY <2>1, <2>2, <2>4, <2>5
<1>6. CASE phase[t] = "idle" /\ UNCHANGED vars
  <2>1. pending[t] = {} /\ claim[t] = NoClaim
    BY <1>6 DEF MapInv, IdleInv
  <2>2. k.made = {}
    BY <1>2, <2>1, SyncAssumption DEF MadeOK, NoClaim
  <2>3. UNCHANGED mappings /\ previews'[p].logged = previews[p].logged
    <3>1. Clocks(pending[t]) = {}
      BY <2>1 DEF Clocks
    <3> QED
      BY <1>1, <1>5, <2>2, <3>1
  <2>4. LoggedRow(previews[p])'
    BY <1>2, <1>5, <2>3, RowKept
  <2>5. \A u \in Txn : Serves(u, "apply")' => Idles(u)
    BY <1>1, <1>6 DEF Serves, Idles, ServiceInv, vars
  <2> QED
    BY <1>4, <1>5, <2>3, <2>4, <2>5, MapStep
<1>7. CASE Commit(t)
  <2>1. /\ \A n \in Node : nodes'[n] = Visible(t, n)
        /\ heads'[SyncLibrary] = VisibleHead(t, SyncLibrary)
        /\ revisions' = revisions \cup pending[t]
    BY <1>7, SyncAssumption DEF Commit
  <2>2. /\ \A e \in k.made : /\ e.client = k.client /\ e.node \in Node
                             /\ nodes[e.node] = None /\ nodes'[e.node] # None
        /\ \A d, e \in k.made : d.ext = e.ext <=> d.node = e.node
        /\ \A e \in k.made, o \in mappings : o.client = k.client => o.ext # e.ext
    BY <1>2, <2>1 DEF MadeOK, Visible
  <2>3. OneToOne'
    <3>1. OneToOne /\ \A o \in mappings : nodes[o.node] # None
      BY DEF MapInv
    <3> QED
      BY <1>1, <2>2, <3>1 DEF OneToOne
  <2>4. \A o \in mappings' \ mappings : o.node \in Node /\ nodes'[o.node] # None
    BY <1>1, <2>2
  <2>5. \A r \in pending[t] : r.library = SyncLibrary /\ r.clock \in Nat /\ r \in revisions'
    BY <1>2, <2>1 DEF MadeOK, LogInv, TypeOK, Revision
  <2>6. ASSUME NEW r \in pending[t] PROVE r.clock <= heads'[SyncLibrary]
    <3>1. heads[SyncLibrary] < r.clock /\ r.clock <= claim[t][SyncLibrary]
      BY <2>5, SyncAssumption DEF LogInv, Claims, Numbered
    <3>2. claim[t][SyncLibrary] \in Nat /\ heads[SyncLibrary] \in Nat
      BY SyncAssumption DEF LogInv, TypeOK
    <3>3. claim[t][SyncLibrary] > 0
      BY <2>5, <3>1, <3>2
    <3> QED
      BY <2>1, <3>1, <3>3 DEF VisibleHead
  <2>7. \A r, s \in revisions' :
          r.library = SyncLibrary /\ s.library = SyncLibrary /\ r.clock = s.clock => r = s
    BY LogInvNext, SyncAssumption DEF LogInv, Committed, Numbered
  <2>8. LoggedRow(previews[p])'
    <3>1. PICK v : v = previews[p]
      OBVIOUS
    <3>2. /\ \A c \in v.logged : c \in Nat /\ c <= heads'[SyncLibrary]
          /\ \A r \in LogOf(revisions', SyncLibrary) :
               r.clock \in v.logged /\ r.op = "node.create" =>
                 \E o \in mappings' : o.client = v.client /\ o.node = r.node
      <4>1. mappings \subseteq mappings' /\ LoggedRow(v)
        BY <1>1, <1>2, <3>1
      <4> QED
        BY <4>1, LoggedKept
    <3>3. \A c \in Clocks(pending[t]) : c \in Nat /\ c <= heads'[SyncLibrary]
      BY <2>5, <2>6 DEF Clocks
    <3>4. ASSUME NEW r \in LogOf(revisions', SyncLibrary), r.clock \in Clocks(pending[t]),
                 r.op = "node.create"
          PROVE  \E o \in mappings' : o.client = v.client /\ o.node = r.node
      <4>1. PICK s \in pending[t] : s.clock = r.clock
        BY <3>4 DEF Clocks
      <4>2. r = s
        BY <2>5, <2>7, <4>1 DEF LogOf
      <4>3. PICK e \in k.made : e.node = r.node
        BY <1>2, <3>4, <4>2 DEF MadeOK
      <4> QED
        BY <1>1, <1>2, <2>2, <3>1, <4>3
    <3> QED
      BY <1>5, <3>1, <3>2, <3>3, <3>4 DEF LoggedRow, LogOf
  <2>9. \A u \in Txn : Serves(u, "apply")' => Idles(u)
    <3>1. \A u \in Txn \ {t} : calls'[u] = calls[u]
      BY <1>1 DEF ServiceInv
    <3>2. calls'[t] = None
      BY <1>1 DEF ServiceInv
    <3> QED
      BY <1>7, <3>1, <3>2, OthersKept DEF Serves, Idles
  <2> QED
    BY <1>4, <1>5, <2>3, <2>4, <2>8, <2>9, MapStep
<1> QED
  BY <1>1, <1>6, <1>7

LEMMA MapNext ==
  ASSUME LogInv, ServiceInv, MapInv, [SyncNext]_allVars
  PROVE  MapInv'
<1>0. [Next]_vars
  BY StoreSteps
<1>1. ASSUME NEW t \in Txn,
             \/ Check(t) \/ WriteNode(t) \/ LogRevision(t) \/ Commit(t) \/ Rollback(t)
             \/ UNCHANGED vars,
             UNCHANGED <<previews, mappings>>,
             \A u \in Txn \ {t} : calls'[u] = calls[u],
             calls'[t] = None \/ calls'[t].call # "apply"
      PROVE  MapInv'
  BY <1>0, <1>1, OthersKept, MapStep DEF MappingsStep, Serves, Idles
<1>2. ASSUME NEW t \in Txn,
             \/ Check(t) \/ WriteNode(t) \/ LogRevision(t) \/ Commit(t) \/ Rollback(t)
             \/ UNCHANGED vars,
             UNCHANGED <<previews, mappings>>, Serves(t, "apply"),
             \A u \in Txn \ {t} : calls'[u] = calls[u],
             MadeOK(t)' /\ InHand(t)',
             calls'[t].client = calls[t].client, calls'[t].preview = calls[t].preview
      PROVE  MapInv'
  <2>1. PICK p \in Preview : p = calls[t].preview
    BY <1>2 DEF ServiceInv, CallRow, Serves
  <2>2. calls[t].client = previews[p].client /\ LoggedRow(previews[p])
    BY <1>2, <2>1 DEF MapInv, ApplyInv
  <2>3. /\ MappingsStep
        /\ \A u \in Txn \ {t} : Serves(u, "apply")' => Idles(u)
    BY <1>2, OthersKept DEF MappingsStep, Idles
  <2> QED
    BY <1>0, <1>2, <2>1, <2>2, <2>3, MapStep
<1>3. ASSUME UNCHANGED vars, UNCHANGED <<mappings, calls>>,
             \A p \in Preview : previews'[p] = previews[p] \/
               (LoggedRow(previews[p])' /\ previews'[p].client = previews[p].client)
      PROVE  MapInv'
  BY <1>0, <1>3, MapStep DEF MappingsStep, Idles, vars
<1>4. ASSUME NEW p \in Preview, Expire(p) PROVE MapInv'
  <2>1. /\ UNCHANGED vars /\ UNCHANGED <<mappings, calls>> /\ previews[p] # None
        /\ previews' = [previews EXCEPT ![p].late = TRUE]
    BY <1>4 DEF Expire
  <2>2. LoggedRow(previews[p]) /\ PreviewRow(previews[p], heads[SyncLibrary])
    BY <2>1 DEF MapInv, ServiceInv
  <2>3. previews'[p].logged = previews[p].logged /\ previews'[p].client = previews[p].client
    BY <2>1, <2>2 DEF PreviewRow, ServiceInv
  <2>4. LoggedRow(previews[p])'
    BY <1>0, <2>1, <2>2, <2>3, RowKept
  <2>5. \A q \in Preview \ {p} : previews'[q] = previews[q]
    BY <2>1 DEF ServiceInv
  <2> QED
    BY <1>3, <2>1, <2>3, <2>4, <2>5
<1>5. ASSUME NEW t \in Txn, NEW p \in Preview, FinishPreview(t, p) PROVE MapInv'
  <2>1. /\ \A u \in Txn : Serves(u, "apply") => calls[u].preview # p
        /\ calls' = [calls EXCEPT ![t] = None] /\ UNCHANGED vars /\ UNCHANGED mappings
    BY <1>5 DEF FinishPreview, FreshPreview, Calling
  <2>2. /\ previews'[p].logged = {}
        /\ \A q \in Preview \ {p} : previews'[q] = previews[q]
    BY <1>5 DEF FinishPreview, ServiceInv
  <2>3. LoggedRow(previews[p])'
    BY <2>2 DEF LoggedRow
  <2>4. \A u \in Txn : Serves(u, "apply")' => Idles(u)
    BY <2>1 DEF Serves, Idles, ServiceInv, vars
  <2> QED
    BY <1>0, <2>1, <2>2, <2>3, <2>4, MapStep DEF MappingsStep
<1>6. ASSUME NEW t \in Txn, NEW p \in Preview, StartApply(t, p) PROVE MapInv'
  <2>1. /\ previews[p] # None /\ phase[t] = "idle" /\ UNCHANGED vars
        /\ UNCHANGED <<previews, mappings>>
        /\ calls' = [calls EXCEPT ![t] = [call |-> "apply", client |-> previews[p].client,
                       preview |-> p, todo |-> previews[p].accepted, made |-> {}]]
    BY <1>6 DEF StartApply, Calling, Free
  <2>2. /\ calls'[t].preview = p /\ calls'[t].client = previews[p].client /\ calls'[t].made = {}
        /\ \A u \in Txn \ {t} : calls'[u] = calls[u]
    BY <2>1 DEF ServiceInv
  <2>3. pending[t] = {} /\ UNCHANGED <<pending, phase>>
    BY <2>1 DEF MapInv, IdleInv, vars
  <2>4. MadeOK(t)' /\ InHand(t)'
    BY <2>1, <2>2, <2>3 DEF MadeOK, InHand
  <2>5. LoggedRow(previews[p])
    BY <2>1 DEF MapInv
  <2>6. \A u \in Txn \ {t} : Idles(u)
    BY <2>1, <2>2 DEF Idles, vars
  <2> QED
    BY <1>0, <2>1, <2>2, <2>4, <2>5, <2>6, MapStep DEF MappingsStep
<1>7. ASSUME NEW t \in Txn, ApplyMutation(t) \/ ApplyWrite(t) PROVE MapInv'
  <2>1. /\ UNCHANGED <<previews, mappings, calls>> /\ Serves(t, "apply")
        /\ Check(t) \/ WriteNode(t)
    BY <1>7, MutationChecks DEF ApplyMutation, ApplyWrite, syncVars
  <2>2. MadeOK(t)' /\ InHand(t)'
    BY <1>7, MutationStep, WriteStep
  <2> QED
    BY <1>2, <2>1, <2>2
<1>8. ASSUME NEW t \in Txn, ApplyLog(t) PROVE MapInv'
  <2>1. /\ UNCHANGED <<previews, mappings>> /\ Serves(t, "apply") /\ LogRevision(t)
        /\ \E k : calls' = [calls EXCEPT ![t] = k]
    BY <1>8 DEF ApplyLog, Calling
  <2>2. \A u \in Txn \ {t} : calls'[u] = calls[u]
    BY <2>1 DEF ServiceInv
  <2> QED
    BY <1>2, <1>8, <2>1, <2>2, LogStep
<1>9. ASSUME NEW t \in Txn, FinishApply(t) PROVE MapInv'
  BY <1>0, <1>9, FinishStep
<1>10. ASSUME NEW t \in Txn, FailCall(t) PROVE MapInv'
  BY <1>1, <1>10 DEF FailCall, Calling, ServiceInv
<1>11. ASSUME NEW t \in Txn, Dashboard(t) PROVE MapInv'
  BY <1>1, <1>11 DEF Dashboard, syncVars
<1>12. ASSUME NEW t \in Txn, NEW c \in Client, NEW base, NEW list, StartPreview(t, c, base, list)
       PROVE  MapInv'
  BY <1>1, <1>12 DEF StartPreview, Calling, ServiceInv
<1>13. ASSUME NEW t \in Txn, NEW c \in Client, NEW clock, StartAck(t, c, clock) PROVE MapInv'
  BY <1>1, <1>13 DEF StartAck, Calling, ServiceInv
<1>14. ASSUME NEW t \in Txn, FinishAck(t) PROVE MapInv'
  BY <1>1, <1>14 DEF FinishAck, Calling, ServiceInv
<1>15. ASSUME NEW t \in Txn, NEW p \in Preview, ReplayApply(t, p) PROVE MapInv'
  BY <1>3, <1>15 DEF ReplayApply
<1>16. CASE UNCHANGED allVars
  BY <1>3, <1>16 DEF allVars, syncVars, vars
<1> QED
  BY <1>4, <1>5, <1>6, <1>7, <1>8, <1>9, <1>10, <1>11, <1>12, <1>13, <1>14, <1>15, <1>16
  DEF SyncNext

(* No apply leaves a node its client would create again: whatever applies   *)
(* and requests run at the same time, every node an apply created is bound  *)
(* to the browser node it came from, and a client's bindings are one to    *)
(* one.                                                                    *)
THEOREM CreatesStayMapped == SyncSpec => []CreatesAreMapped
<1>1. SyncInit => LogInv /\ ServiceInv /\ MapInv
  BY LogInvInit, ServiceInit, MapInit
<1>2. LogInv /\ ServiceInv /\ MapInv /\ [SyncNext]_allVars => (LogInv /\ ServiceInv /\ MapInv)'
  BY StoreSteps, LogInvNext, ServiceNext, MapNext
<1>3. MapInv => CreatesAreMapped
  BY DEF MapInv, OneToOne, CreatesAreMapped, Stored, LoggedRow
<1> QED
  BY <1>1, <1>2, <1>3, PTL DEF SyncSpec

-----------------------------------------------------------------------------
(* What holds when one request runs at a time. *)

AckInv ==
  /\ cursors = [c \in Client |-> cursors[c]]
  /\ \A t \in Txn : Serves(t, "ack") =>
       /\ calls[t].client \in Client /\ calls[t].clock \in Nat
       /\ calls[t].read = cursors[calls[t].client]
  /\ \A c \in Client : cursors[c] = None \/ cursors[c] \in Nat

LEMMA AckNext ==
  ASSUME \A t, u \in Txn : t = u, ServiceInv, AckInv, [SyncNext]_allVars
  PROVE  /\ AckInv'
         /\ \A c \in Client : cursors[c] # None => cursors'[c] # None /\ cursors'[c] >= cursors[c]
<1>1. ASSUME NEW t \in Txn, UNCHANGED cursors, calls' = [u \in Txn |-> calls'[u]],
             calls'[t] = None \/ calls'[t].call # "ack"
      PROVE  AckInv'
  BY <1>1 DEF AckInv, Serves
<1>2. CASE UNCHANGED <<cursors, calls>>
  BY <1>2 DEF AckInv, Serves
<1>3. ASSUME NEW t \in Txn, NEW c \in Client, NEW clock \in clients[c].at, StartAck(t, c, clock)
      PROVE  AckInv' /\ UNCHANGED cursors
  <2>1. /\ UNCHANGED cursors /\ clock \in Nat
        /\ calls' = [calls EXCEPT ![t] = [call |-> "ack", client |-> c, clock |-> clock,
                                          read |-> cursors[c]]]
    BY <1>3 DEF StartAck, Calling, ServiceInv
  <2> QED
    BY <2>1 DEF AckInv, Serves, ServiceInv
<1>4. ASSUME NEW t \in Txn, FinishAck(t)
      PROVE  /\ AckInv'
             /\ \A c \in Client : cursors[c] # None => cursors'[c] # None /\ cursors'[c] >= cursors[c]
  <2>1. PICK k : k = calls[t]
    OBVIOUS
  <2>2. /\ k.client \in Client /\ k.clock \in Nat /\ k.read = cursors[k.client]
        /\ calls' = [calls EXCEPT ![t] = None]
        /\ \/ UNCHANGED cursors
           \/ /\ k.read = None \/ k.clock >= k.read
              /\ cursors' = [cursors EXCEPT ![k.client] = k.clock]
    BY <1>4, <2>1 DEF FinishAck, AckInv, Calling
  <2>3. \A u \in Txn : calls'[u] = None
    BY <2>2 DEF ServiceInv
  <2>4. /\ cursors' = [c \in Client |-> cursors'[c]]
        /\ \A c \in Client : \/ cursors'[c] = cursors[c]
                             \/ /\ cursors'[c] \in Nat
                                /\ cursors[c] = None \/ cursors'[c] >= cursors[c]
    BY <2>2 DEF AckInv
  <2>5. AckInv'
    BY <2>3, <2>4 DEF AckInv, Serves
  <2>6. \A c \in Client : cursors[c] # None => cursors'[c] # None /\ cursors'[c] >= cursors[c]
    <3>1. None \notin Nat
      BY SyncAssumption
    <3> QED
      BY <2>4, <3>1 DEF AckInv
  <2> QED
    BY <2>5, <2>6
<1>5. ASSUME UNCHANGED cursors, AckInv'
      PROVE  /\ AckInv'
             /\ \A c \in Client : cursors[c] # None => cursors'[c] # None /\ cursors'[c] >= cursors[c]
  BY <1>5 DEF AckInv
<1>6. ASSUME NEW t \in Txn, NEW p, \/ ApplyMutation(t) \/ ApplyWrite(t) \/ Dashboard(t)
                                   \/ ReplayApply(t, p)
      PROVE  AckInv' /\ UNCHANGED cursors
  BY <1>2, <1>6 DEF ApplyMutation, ApplyWrite, Dashboard, ReplayApply, syncVars
<1>7. ASSUME NEW t \in Txn, NEW p, NEW c, NEW base, NEW list,
             \/ StartPreview(t, c, base, list) \/ FinishPreview(t, p) \/ StartApply(t, p)
             \/ FinishApply(t) \/ FailCall(t)
      PROVE  AckInv' /\ UNCHANGED cursors
  <2>1. /\ UNCHANGED cursors
        /\ \E r : calls' = [calls EXCEPT ![t] = r] /\ (r = None \/ r.call \in {"preview", "apply"})
    <3>1. CASE StartPreview(t, c, base, list)
      <4> DEFINE r == [call |-> "preview", client |-> c, base |-> base,
                       to |-> heads[SyncLibrary], todo |-> list]
      <4>1. r.call = "preview"
        OBVIOUS
      <4>2. calls' = [calls EXCEPT ![t] = r] /\ UNCHANGED cursors
        BY <3>1 DEF StartPreview, Calling
      <4> HIDE DEF r
      <4> QED
        BY <4>1, <4>2
    <3>2. CASE StartApply(t, p)
      <4> DEFINE r == [call |-> "apply", client |-> previews[p].client, preview |-> p,
                       todo |-> previews[p].accepted, made |-> {}]
      <4>1. r.call = "apply"
        OBVIOUS
      <4>2. calls' = [calls EXCEPT ![t] = r] /\ UNCHANGED cursors
        BY <3>2 DEF StartApply, Calling
      <4> HIDE DEF r
      <4> QED
        BY <4>1, <4>2
    <3>3. CASE FinishPreview(t, p) \/ FinishApply(t) \/ FailCall(t)
      BY <3>3 DEF FinishPreview, FinishApply, FailCall, Calling
    <3> QED
      BY <1>7, <3>1, <3>2, <3>3
  <2> QED
    BY <1>1, <2>1 DEF ServiceInv
<1>8. ASSUME NEW t \in Txn, ApplyLog(t) PROVE AckInv' /\ UNCHANGED cursors
  <2>1. calls[t] # None /\ calls[t].call = "apply" /\ UNCHANGED cursors
    BY <1>8 DEF ApplyLog, Serves
  <2>2. calls'[t].call = "apply"
    <3>1. PICK k : k = calls[t]
      OBVIOUS
    <3>2. \E rest, made : calls'[t] = [k EXCEPT !.todo = rest, !.made = made]
      BY <1>8, <3>1 DEF ApplyLog, Calling, ServiceInv
    <3>3. k = [call |-> "apply", client |-> k.client, preview |-> k.preview,
               todo |-> k.todo, made |-> k.made]
      BY <2>1, <3>1 DEF ServiceInv, CallRow
    <3> QED
      BY <3>2, <3>3
  <2>3. calls' = [u \in Txn |-> calls'[u]]
    BY <1>8 DEF ApplyLog, Calling, ServiceInv
  <2> QED
    BY <1>1, <2>1, <2>2, <2>3
<1>9. ASSUME NEW p, Expire(p) PROVE AckInv' /\ UNCHANGED cursors
  BY <1>2, <1>9 DEF Expire
<1>10. CASE UNCHANGED allVars
  BY <1>2, <1>5, <1>10 DEF allVars, syncVars
<1> QED
  BY <1>3, <1>4, <1>5, <1>6, <1>7, <1>8, <1>9, <1>10 DEF SyncNext

(* Where requests run one at a time, a cursor never goes back, whatever     *)
(* acks come late or twice; with two connections it can.                   *)
THEOREM SerialCursorsAdvance ==
  ASSUME \A t, u \in Txn : t = u
  PROVE  SyncSpec => CursorsOnlyAdvance
<1>1. SyncInit => AckInv
  <2> SUFFICES ASSUME SyncInit PROVE AckInv
    OBVIOUS
  <2>1. /\ calls = [t \in Txn |-> None]
        /\ \E synced \in SUBSET Client : cursors = [c \in Client |-> IF c \in synced THEN 2 ELSE None]
    BY DEF SyncInit, Head0
  <2> QED
    BY <2>1 DEF AckInv, Serves
<1>2. LogInv /\ ServiceInv /\ AckInv /\ [SyncNext]_allVars => AckInv'
  BY AckNext
<1>3. LogInv /\ ServiceInv /\ AckInv /\ [SyncNext]_allVars
        => [\A c \in Client : cursors[c] # None =>
              cursors'[c] # None /\ cursors'[c] >= cursors[c]]_cursors
  BY AckNext
<1> QED
  BY <1>1, <1>2, <1>3, SyncInv, PTL DEF SyncSpec, CursorsOnlyAdvance

(* While an apply runs alone the head stays where its preview saw it. *)
FollowsTo(v) ==
  IF v.status = "applied" THEN v.logged = v.to + 1 .. v.to + Cardinality(v.logged)
  ELSE v.logged = {}

FollowInv ==
  /\ \A p \in Preview : previews[p] = None \/ FollowsTo(previews[p])
  /\ \A t \in Txn : Serves(t, "apply") =>
       /\ previews[calls[t].preview].logged = {}
       /\ previews[calls[t].preview].to = heads[SyncLibrary]

(* The clocks of an apply that runs alone. *)
LEMMA FinishFollows ==
  ASSUME LogInv, ServiceInv, MapInv, FollowInv, NEW t \in Txn, FinishApply(t),
         NEW p, p = calls[t].preview
  PROVE  /\ FollowsTo(previews[p])' /\ \A q \in Preview \ {p} : previews'[q] = previews[q]
<1>1. /\ Serves(t, "apply")
      /\ \E result : previews' = [previews EXCEPT ![p].status = "applied", ![p].result = result,
                                                  ![p].logged = @ \cup Clocks(pending[t])]
  BY DEF FinishApply
<1>2. PICK v : v = previews[p]
  OBVIOUS
<1>3. p \in Preview /\ PreviewRow(v, heads[SyncLibrary]) /\ v.logged = {} /\ v.to = heads[SyncLibrary]
  BY <1>1, <1>2 DEF ServiceInv, CallRow, Serves, FollowInv
<1>4. PICK logged : logged = Clocks(pending[t])
  OBVIOUS
<1>5. PICK result : previews' = [previews EXCEPT ![p].status = "applied", ![p].result = result,
                                                ![p].logged = logged]
  <2>1. PICK result : previews' = [previews EXCEPT ![p].status = "applied", ![p].result = result,
                                                  ![p].logged = @ \cup Clocks(pending[t])]
    BY <1>1
  <2>2. v.logged \cup Clocks(pending[t]) = logged
    BY <1>3, <1>4
  <2>3. previews' = [previews EXCEPT ![p].status = "applied", ![p].result = result,
                                     ![p].logged = v.logged \cup Clocks(pending[t])]
    BY <1>2, <1>3, <2>1 DEF ServiceInv
  <2> QED
    BY <2>2, <2>3
<1>6. /\ previews'[p] = [v EXCEPT !.status = "applied", !.result = result, !.logged = logged]
      /\ \A q \in Preview \ {p} : previews'[q] = previews[q]
  BY <1>2, <1>3, <1>5 DEF ServiceInv
<1>7. previews'[p].status = "applied" /\ previews'[p].logged = logged /\ previews'[p].to = v.to
  BY <1>3, <1>6 DEF PreviewRow
<1>8. PICK h \in Nat : logged = v.to + 1 .. h
  <2> DEFINE h == claim[t][SyncLibrary]
  <2>1. h \in Nat
    BY SyncAssumption DEF LogInv, TypeOK
  <2>2. HeadLockInv
    BY PointwiseClockInv DEF LogInv
  <2>3. {r.clock : r \in LogOf(pending[t], SyncLibrary)} = heads[SyncLibrary] + 1 .. h
    BY <2>2, SyncAssumption DEF HeadLockInv
  <2>4. LogOf(pending[t], SyncLibrary) = pending[t]
    BY <1>1 DEF MapInv, ApplyInv, MadeOK, LogOf
  <2> QED
    BY <1>3, <1>4, <2>1, <2>3, <2>4 DEF Clocks
<1>9. v.to \in Nat
  BY <1>3 DEF PreviewRow
<1>10. Cardinality(logged) = IF v.to + 1 > h THEN 0 ELSE h - (v.to + 1) + 1
  <2>1. v.to + 1 \in Int /\ h \in Int
    BY <1>9
  <2>2. Cardinality(v.to + 1 .. h) = IF v.to + 1 > h THEN 0 ELSE h - (v.to + 1) + 1
    BY <2>1, FS_Interval
  <2> QED
    BY <1>8, <2>2
<1>11. logged = v.to + 1 .. v.to + Cardinality(logged)
  BY <1>8, <1>9, <1>10
<1> QED
  BY <1>6, <1>7, <1>11 DEF FollowsTo

LEMMA FollowNext ==
  ASSUME \A t, u \in Txn : t = u, LogInv, ServiceInv, MapInv, FollowInv, [SyncNext]_allVars
  PROVE  FollowInv'
<1>1. ASSUME NEW t \in Txn, UNCHANGED previews, calls'[t] = None \/ calls'[t].call # "apply"
      PROVE  FollowInv'
  BY <1>1 DEF FollowInv, Serves
<1>2. ASSUME NEW t \in Txn, UNCHANGED <<previews, heads>>, Serves(t, "apply"),
             calls'[t].preview = calls[t].preview
      PROVE  FollowInv'
  BY <1>2 DEF FollowInv, Serves
<1>3. ASSUME NEW p \in Preview, Expire(p) PROVE FollowInv'
  <2>1. /\ UNCHANGED <<calls, heads>> /\ previews[p] # None
        /\ previews' = [previews EXCEPT ![p].late = TRUE]
    BY <1>3 DEF Expire, vars
  <2>2. FollowsTo(previews[p]) /\ PreviewRow(previews[p], heads[SyncLibrary])
    BY <2>1 DEF FollowInv, ServiceInv
  <2>3. /\ previews'[p].logged = previews[p].logged /\ previews'[p].to = previews[p].to
        /\ previews'[p].status = previews[p].status
        /\ \A q \in Preview \ {p} : previews'[q] = previews[q]
    BY <2>1, <2>2 DEF PreviewRow, ServiceInv
  <2>4. FollowsTo(previews[p])'
    BY <2>2, <2>3 DEF FollowsTo
  <2>5. \A t \in Txn : Serves(t, "apply") => calls[t].preview \in Preview
    BY DEF ServiceInv, CallRow, Serves
  <2>6. ASSUME NEW t \in Txn, Serves(t, "apply")
        PROVE  /\ previews'[calls[t].preview].logged = {}
               /\ previews'[calls[t].preview].to = heads[SyncLibrary]
    <3>1. PICK q \in Preview : q = calls[t].preview
      BY <2>5, <2>6
    <3>2. previews[q].logged = {} /\ previews[q].to = heads[SyncLibrary]
      BY <2>6, <3>1 DEF FollowInv
    <3> QED
      BY <2>3, <3>1, <3>2
  <2>7. \A q \in Preview : previews'[q] = None \/ FollowsTo(previews[q])'
    BY <2>3, <2>4 DEF FollowInv, FollowsTo
  <2> QED
    BY <2>1, <2>6, <2>7 DEF FollowInv, Serves
<1>4. ASSUME NEW t \in Txn, NEW p \in Preview, FinishPreview(t, p) PROVE FollowInv'
  <2>1. /\ calls' = [calls EXCEPT ![t] = None]
        /\ previews'[p].logged = {} /\ previews'[p].status # "applied"
        /\ \A q \in Preview \ {p} : previews'[q] = previews[q]
    BY <1>4 DEF FinishPreview, Calling, ServiceInv
  <2>2. \A u \in Txn : calls'[u] = None
    BY <2>1 DEF ServiceInv
  <2>3. FollowsTo(previews[p])'
    BY <2>1 DEF FollowsTo
  <2> QED
    BY <2>1, <2>2, <2>3 DEF FollowInv, Serves
<1>5. ASSUME NEW t \in Txn, NEW p \in Preview, StartApply(t, p) PROVE FollowInv'
  <2>1. /\ UNCHANGED <<previews, heads>> /\ previews[p] # None /\ previews[p].status = "pending"
        /\ previews[p].to = heads[SyncLibrary]
        /\ calls' = [calls EXCEPT ![t] = [call |-> "apply", client |-> previews[p].client,
                       preview |-> p, todo |-> previews[p].accepted, made |-> {}]]
    BY <1>5 DEF StartApply, Calling, vars
  <2>2. previews[p].logged = {}
    BY <2>1 DEF FollowInv, FollowsTo
  <2>3. calls'[t].preview = p
    BY <2>1 DEF ServiceInv
  <2> QED
    BY <2>1, <2>2, <2>3 DEF FollowInv
<1>6. ASSUME NEW t \in Txn, ApplyMutation(t) \/ ApplyWrite(t) PROVE FollowInv'
  <2>1. UNCHANGED <<previews, calls>> /\ Serves(t, "apply") /\ (Check(t) \/ WriteNode(t))
    BY <1>6, MutationChecks DEF ApplyMutation, ApplyWrite, syncVars
  <2>2. UNCHANGED heads
    <3>1. CASE Check(t)
      BY <3>1, CheckAsks DEF LogInv, Ask, tables
    <3>2. CASE WriteNode(t)
      BY <3>2 DEF WriteNode, tables
    <3> QED
      BY <2>1, <3>1, <3>2
  <2> QED
    BY <1>2, <2>1, <2>2
<1>7. ASSUME NEW t \in Txn, ApplyLog(t) PROVE FollowInv'
  <2>1. UNCHANGED <<previews, heads>> /\ Serves(t, "apply")
    BY <1>7 DEF ApplyLog, LogRevision, tables
  <2> QED
    BY <1>2, <1>7, <2>1, LogStep
<1>8. ASSUME NEW t \in Txn, FinishApply(t) PROVE FollowInv'
  <2>1. PICK p : p = calls[t].preview
    OBVIOUS
  <2>2. \A u \in Txn : calls'[u] = None
    BY <1>8 DEF FinishApply, Calling, ServiceInv
  <2> QED
    BY <1>8, <2>1, <2>2, FinishFollows DEF FollowInv, Serves
<1>9. ASSUME NEW t \in Txn, FinishAck(t) \/ FailCall(t) PROVE FollowInv'
  BY <1>1, <1>9 DEF FinishAck, FailCall, Calling, ServiceInv
<1>10. ASSUME NEW t \in Txn, Dashboard(t) PROVE FollowInv'
  BY <1>1, <1>10 DEF Dashboard, syncVars
<1>11. ASSUME NEW t \in Txn, NEW c, NEW base, NEW list, StartPreview(t, c, base, list)
       PROVE  FollowInv'
  BY <1>1, <1>11 DEF StartPreview, Calling, ServiceInv
<1>12. ASSUME NEW t \in Txn, NEW c, NEW clock, StartAck(t, c, clock) PROVE FollowInv'
  BY <1>1, <1>12 DEF StartAck, Calling, ServiceInv
<1>13. ASSUME UNCHANGED <<previews, calls, heads>> PROVE FollowInv'
  BY <1>13 DEF FollowInv, Serves
<1>14. ASSUME NEW t \in Txn, NEW p, ReplayApply(t, p) PROVE FollowInv'
  BY <1>13, <1>14 DEF ReplayApply, vars
<1>15. CASE UNCHANGED allVars
  BY <1>13, <1>15 DEF allVars, syncVars, vars
<1> QED
  BY <1>3, <1>4, <1>5, <1>6, <1>7, <1>8, <1>9, <1>10, <1>11, <1>12, <1>14, <1>15 DEF SyncNext

(* Where requests run one at a time, the revisions of an apply directly      *)
(* follow what its preview told the client: with the ops of the preview it  *)
(* has all there is, which with two connections it may not have.           *)
THEOREM SerialAppliesFollow ==
  ASSUME \A t, u \in Txn : t = u
  PROVE  SyncSpec => []ApplyFollowsPreview
<1>1. SyncInit => LogInv /\ ServiceInv /\ MapInv /\ FollowInv
  <2>1. SyncInit => FollowInv
    BY DEF SyncInit, FollowInv, Serves
  <2> QED
    BY <2>1, LogInvInit, ServiceInit, MapInit
<1>2. LogInv /\ ServiceInv /\ MapInv /\ FollowInv /\ [SyncNext]_allVars
        => (LogInv /\ ServiceInv /\ MapInv /\ FollowInv)'
  BY StoreSteps, LogInvNext, ServiceNext, MapNext, FollowNext
<1>3. FollowInv => ApplyFollowsPreview
  BY DEF FollowInv, FollowsTo, ApplyFollowsPreview, Applied, Stored
<1> QED
  BY <1>1, <1>2, <1>3, PTL DEF SyncSpec
-----------------------------------------------------------------------------
(* The tree under the sync service. *)

LEMMA SyncShapeInit == SyncInit => ShapeInv
<1> SUFFICES ASSUME SyncInit PROVE ShapeInv
  OBVIOUS
<1> USE ConstantsAssumption, SyncAssumption
<1>1. PICK row, child : row = Folder(None) /\ child = Folder(Root)
  OBVIOUS
<1>2. /\ row # None /\ row.library = SyncLibrary /\ row.parent = None /\ row.type = "folder"
      /\ child # None /\ child.library = SyncLibrary /\ child.parent = Root
  <2>1. row \in Row /\ child \in Row
    BY <1>1 DEF Folder, Row
  <2> QED
    BY <1>1, <2>1 DEF Folder
<1>3. /\ nodes = [n \in Node |-> IF n = Root THEN row ELSE IF n = Shared THEN child ELSE None]
      /\ heads = [l \in Library |-> IF l = SyncLibrary THEN 2 ELSE 0]
      /\ phase = [t \in Txn |-> "idle"] /\ draft = [t \in Txn |-> NoDraft]
      /\ pending = [t \in Txn |-> {}]
  BY <1>1 DEF SyncInit, Head0
<1>4. BelowFolders /\ OneRoot
  BY <1>2, <1>3 DEF BelowFolders, OneRoot
<1>5. \A t \in Txn : Asked(t) /\ NamedRoot(t) /\ Drafted(t) /\ \A n \in Node, l \in Library : ~Engaged(t, n, l)
  BY <1>3 DEF Asked, NamedRoot, Drafted, Engaged, NoDraft
<1> QED
  BY <1>4, <1>5 DEF ShapeInv, OneFounder

(* Whatever applies and dashboard requests run at the same time, every node *)
(* stays below a folder of its library and every library keeps its root.   *)
THEOREM SyncKeepsShape == SyncSpec => []TreeShape
<1>1. SyncInit => LogInv /\ ServiceInv /\ ShapeInv
  BY LogInvInit, ServiceInit, SyncShapeInit
<1>2. LogInv /\ ServiceInv /\ ShapeInv /\ [SyncNext]_allVars => (LogInv /\ ServiceInv /\ ShapeInv)'
  BY StoreSteps, LogInvNext, ServiceNext, ShapeNext
<1>3. ShapeInv => TreeShape
  BY ShapeIsTreeShape
<1> QED
  BY <1>1, <1>2, <1>3, PTL DEF SyncSpec

-----------------------------------------------------------------------------
(* What the loop of a preview accepts. *)

LEMMA AcceptedOfLoop ==
  ASSUME NEW c, NEW list \in Seq(Mutation)
  PROVE  \E upTo :
           /\ AcceptedOf(c, list) = upTo[Len(list)] /\ upTo[0] = <<>>
           /\ \A i \in 1 .. Len(list) :
                upTo[i] = IF Unmapped(c, list[i]) THEN upTo[i - 1]
                          ELSE Append(upTo[i - 1], Accepted(c, list[i]))
<1> DEFINE Step(i, v) == IF Unmapped(c, list[i]) THEN v ELSE Append(v, Accepted(c, list[i]))
           Loop(f, k) == f = [i \in 0 .. k |-> IF i = 0 THEN <<>> ELSE Step(i, f[i - 1])]
           Stuck == {k \in Nat : ~\E f : Loop(f, k)}
<1>1. \E f : Loop(f, 0)
  <2>1. Loop([i \in 0 .. 0 |-> <<>>], 0)
    OBVIOUS
  <2> QED
    BY <2>1
<1>2. ASSUME NEW k \in Nat, NEW f, Loop(f, k)
      PROVE  \E g : Loop(g, k + 1)
  <2> DEFINE g == [i \in 0 .. k + 1 |-> IF i = k + 1 THEN Step(i, f[k]) ELSE f[i]]
  <2> HIDE DEF Step
  <2>1. ASSUME NEW i \in 0 .. k + 1
        PROVE  g[i] = IF i = 0 THEN <<>> ELSE Step(i, g[i - 1])
    <3>1. CASE i = k + 1
      BY <3>1
    <3>2. CASE i # k + 1
      BY <1>2, <3>2
    <3> QED
      BY <3>1, <3>2
  <2>2. Loop(g, k + 1)
    BY <2>1
  <2> QED
    BY <2>2
<1> HIDE DEF Loop
<1>3. Stuck = {}
  <2> SUFFICES ASSUME Stuck # {}
               PROVE  FALSE
    OBVIOUS
  <2>1. PICK m \in Stuck : \A k \in Stuck : m <= k
    BY Smallest
  <2>2. m \in Nat /\ m # 0
    BY <1>1
  <2>3. m - 1 \in Nat /\ m - 1 \notin Stuck
    BY <2>1, <2>2
  <2>4. PICK f : Loop(f, m - 1)
    BY <2>3
  <2>5. \E g : Loop(g, m - 1 + 1)
    BY <1>2, <2>3, <2>4
  <2> QED
    BY <2>2, <2>5
<1>4. Len(list) \in Nat
  OBVIOUS
<1>5. \E f : Loop(f, Len(list))
  BY <1>3, <1>4
<1> DEFINE upTo == CHOOSE f : Loop(f, Len(list))
<1>6. Loop(upTo, Len(list))
  BY <1>5
<1>7. AcceptedOf(c, list) = upTo[Len(list)]
  BY DEF AcceptedOf, Loop
<1> HIDE DEF upTo, Step
<1>8. /\ upTo[0] = <<>>
      /\ \A i \in 1 .. Len(list) : upTo[i] = Step(i, upTo[i - 1])
  BY <1>4, <1>6 DEF Loop
<1> QED
  BY <1>7, <1>8 DEF Step

(* It accepts what each mutation resolves to, and everything if all do. *)
LEMMA AcceptedOfList ==
  ASSUME NEW c, NEW list \in Seq(Mutation), NEW S,
         \A i \in 1 .. Len(list) : ~Unmapped(c, list[i]) => Accepted(c, list[i]) \in S
  PROVE  /\ AcceptedOf(c, list) \in Seq(S)
         /\ (\A i \in 1 .. Len(list) : ~Unmapped(c, list[i])) =>
              /\ Len(AcceptedOf(c, list)) = Len(list)
              /\ \A i \in 1 .. Len(list) : AcceptedOf(c, list)[i] = Accepted(c, list[i])
<1>1. PICK upTo :
        /\ AcceptedOf(c, list) = upTo[Len(list)] /\ upTo[0] = <<>>
        /\ \A i \in 1 .. Len(list) :
             upTo[i] = IF Unmapped(c, list[i]) THEN upTo[i - 1]
                       ELSE Append(upTo[i - 1], Accepted(c, list[i]))
  BY AcceptedOfLoop
<1> DEFINE All == \A i \in 1 .. Len(list) : ~Unmapped(c, list[i])
           Good(i) == /\ upTo[i] \in Seq(S)
                      /\ All => Len(upTo[i]) = i /\ \A j \in 1 .. i : upTo[i][j] = Accepted(c, list[j])
           Bad == {i \in 0 .. Len(list) : ~Good(i)}
<1>2. Len(list) \in Nat /\ Bad \in SUBSET Nat
  OBVIOUS
<1>3. Good(0)
  BY <1>1
<1>4. ASSUME NEW i \in 1 .. Len(list), Good(i - 1)
      PROVE  Good(i)
  <2>1. CASE Unmapped(c, list[i])
    <3>1. ~All /\ upTo[i] = upTo[i - 1]
      BY <1>1, <2>1
    <3> QED
      BY <1>4, <3>1
  <2>2. CASE ~Unmapped(c, list[i])
    <3> DEFINE s == upTo[i - 1]
               m == Accepted(c, list[i])
    <3>1. s \in Seq(S) /\ m \in S /\ upTo[i] = Append(s, m)
      BY <1>1, <1>4, <2>2
    <3>2. All => Len(s) = i - 1 /\ \A j \in 1 .. i - 1 : s[j] = Accepted(c, list[j])
      BY <1>4
    <3> HIDE DEF s, m, All
    <3>3. upTo[i] \in Seq(S)
      BY <3>1
    <3>4. ASSUME All PROVE Len(upTo[i]) = i /\ \A j \in 1 .. i : upTo[i][j] = Accepted(c, list[j])
      <4>1. Len(upTo[i]) = Len(s) + 1 /\ Len(s) = i - 1
        BY <3>1, <3>2, <3>4
      <4>2. ASSUME NEW j \in 1 .. i PROVE upTo[i][j] = Accepted(c, list[j])
        <5>1. CASE j = i
          BY <3>1, <4>1, <5>1 DEF m
        <5>2. CASE j # i
          BY <3>1, <3>2, <3>4, <4>1, <5>2
        <5> QED
          BY <5>1, <5>2
      <4> QED
        BY <4>1, <4>2
    <3> QED
      BY <3>3, <3>4
  <2> QED
    BY <2>1, <2>2
<1> HIDE DEF Good
<1>5. Bad = {}
  <2> SUFFICES ASSUME Bad # {}
               PROVE  FALSE
    OBVIOUS
  <2>1. PICK m \in Bad : \A k \in Bad : m <= k
    BY <1>2, Smallest
  <2>2. m # 0 /\ m \in 1 .. Len(list)
    BY <1>2, <1>3, <2>1
  <2>3. Good(m - 1)
    BY <2>1, <2>2
  <2> QED
    BY <1>4, <2>1, <2>2, <2>3
<1>6. Good(Len(list))
  BY <1>2, <1>5
<1> QED
  BY <1>1, <1>6 DEF Good

(* What a preview stores: mutations, whose creates name a browser node. *)
Sound == {m \in Mutation : m.op = "create" => m.ext # None}

LEMMA AcceptedIsSound ==
  ASSUME \A o \in mappings : o.node \in Node,
         NEW c, NEW m \in Mutation, ~Unmapped(c, m), Acceptable(c, m)
  PROVE  Accepted(c, m) \in Sound /\ Accepted(c, m).op = m.op /\ Accepted(c, m).ext = m.ext
<1>1. /\ m.op \in MutationOp /\ m.target \in Node \cup {None} /\ m.ext \in ExternalId \cup {None}
      /\ m.parent \in Node \cup {None} /\ m.parentExt \in ExternalId \cup {None}
      /\ m.type \in NodeType /\ m.title \in Title \cup {None} /\ m.url \in Url \cup {None}
      /\ m = [op |-> m.op, target |-> m.target, ext |-> m.ext, parent |-> m.parent,
              parentExt |-> m.parentExt, type |-> m.type, title |-> m.title, url |-> m.url]
  BY DEF Mutation
<1>2. TargetOf(c, m) \subseteq Node /\ ParentOf(c, m) \subseteq Node
  BY <1>1 DEF TargetOf, ParentOf, Resolved, Mapped
<1>3. m.op # "create" => TargetOf(c, m) # {}
  BY DEF Unmapped
<1>4. m.op \in {"create", "move"} => ParentOf(c, m) # {}
  BY DEF Unmapped, Acceptable
<1>5. m.op = "create" => m.ext # None
  BY DEF Acceptable
<1> DEFINE target == IF m.op = "create" THEN None ELSE CHOOSE n \in TargetOf(c, m) : TRUE
           parent == IF m.op \in {"create", "move"}
                     THEN CHOOSE n \in ParentOf(c, m) : TRUE ELSE None
<1>6. target \in Node \cup {None} /\ parent \in Node \cup {None}
  BY <1>2, <1>3, <1>4
<1>7. Accepted(c, m) = [m EXCEPT !.target = target, !.parent = parent]
  BY DEF Accepted
<1> HIDE DEF target, parent
<1>8. Accepted(c, m) = [op |-> m.op, target |-> target, ext |-> m.ext, parent |-> parent,
                        parentExt |-> m.parentExt, type |-> m.type, title |-> m.title, url |-> m.url]
  BY <1>1, <1>7
<1> QED
  BY <1>1, <1>5, <1>6, <1>8 DEF Sound, Mutation

-----------------------------------------------------------------------------
(* Types of the service's tables and requests. *)

Binding == [client : Client, ext : ExternalId, node : Node]

PreviewType(v) ==
  /\ v.status \in {"pending", "conflicted", "applied"} /\ v.client \in Client
  /\ v.accepted \in Seq(Sound)
  /\ v.status = "applied" => v.result.newClock \in Nat /\ v.result.own \subseteq Nat

(* The request a connection serves, with the previews P. *)
CallType(k, P) ==
  /\ k.client \in Client
  /\ k.call = "preview" => k.todo \in MutationLists
  /\ k.call = "apply" => /\ k.todo \in Seq(Sound) /\ k.made \subseteq Binding
                         /\ PreviewType(P[k.preview])
  /\ k.call = "ack" => k.clock \in Nat

TypesInv ==
  /\ \A p \in Preview : previews[p] = None \/ PreviewType(previews[p])
  /\ \A t \in Txn : calls[t] = None \/ CallType(calls[t], previews)
  /\ mappings \subseteq Binding
  /\ cursors \in [Client -> Nat \cup {None}]
  /\ clients \in [Client -> [at : SUBSET Nat, got : SUBSET Nat]]

LEMMA TypesInit == SyncInit => TypesInv
<1> SUFFICES ASSUME SyncInit PROVE TypesInv
  OBVIOUS
<1>1. /\ previews = [p \in Preview |-> None] /\ calls = [t \in Txn |-> None] /\ mappings = {}
      /\ \E synced \in SUBSET Client :
           /\ cursors = [c \in Client |-> IF c \in synced THEN 2 ELSE None]
           /\ clients = [c \in Client |-> IF c \in synced THEN [at |-> {2}, got |-> 1 .. 2]
                                         ELSE [at |-> {0}, got |-> {}]]
  BY DEF SyncInit, Head0
<1> QED
  BY <1>1 DEF TypesInv

(* The clocks a client is told of. *)
LEMMA DeliverTypes ==
  ASSUME TypesInv, LogInv, NEW p, PreviewType(previews[p]), OpsRow(previews[p]), NEW result,
         result.newClock \in Nat, result.own \subseteq Nat,
         Deliver(p, result) \/ UNCHANGED clients
  PROVE  clients' \in [Client -> [at : SUBSET Nat, got : SUBSET Nat]]
<1>1. CASE UNCHANGED clients
  BY <1>1 DEF TypesInv
<1>2. CASE Deliver(p, result)
  <2>1. Clocks(previews[p].ops) \subseteq Nat
    BY DEF OpsRow, LogOf, Clocks, LogInv, TypeOK, Revision
  <2>2. PICK got \in SUBSET Nat : got = Clocks(previews[p].ops) \cup result.own
    BY <2>1
  <2>3. PICK c : c = previews[p].client
    OBVIOUS
  <2>4. /\ clients[c].at \cup {result.newClock} \in SUBSET Nat /\ clients[c].got \cup got \in SUBSET Nat
        /\ c \in Client
    BY <2>2, <2>3 DEF TypesInv, PreviewType
  <2>5. clients' = [clients EXCEPT ![c] = [at |-> clients[c].at \cup {result.newClock},
                                           got |-> clients[c].got \cup got]]
    BY <1>2, <2>2, <2>3, <2>4 DEF Deliver, TypesInv
  <2> QED
    BY <2>4, <2>5 DEF TypesInv
<1> QED
  BY <1>1, <1>2

LEMMA TypesNext ==
  ASSUME LogInv, ServiceInv, OpsInv, MapInv, TypesInv, [SyncNext]_allVars
  PROVE  TypesInv'
<1> USE SyncAssumption
<1>1. ASSUME UNCHANGED <<previews, mappings, cursors, clients>>,
             \A t \in Txn : calls'[t] = None \/ calls'[t] = calls[t] \/ CallType(calls'[t], previews)
      PROVE  TypesInv'
  BY <1>1 DEF TypesInv
<1>2. ASSUME mappings' \subseteq Binding, cursors' = cursors,
             clients' \in [Client -> [at : SUBSET Nat, got : SUBSET Nat]],
             \A t \in Txn : calls'[t] = None \/ calls'[t] = calls[t],
             NEW p \in Preview, PreviewType(previews'[p]),
             \A q \in Preview \ {p} : previews'[q] = previews[q]
      PROVE  TypesInv'
  <2>1. ASSUME NEW t \in Txn, calls'[t] # None PROVE CallType(calls'[t], previews')
    <3>1. PICK k : k = calls[t] /\ k = calls'[t]
      BY <1>2, <2>1
    <3>2. CallType(k, previews) /\ (k.call = "apply" => k.preview \in Preview)
      BY <2>1, <3>1 DEF TypesInv, ServiceInv, CallRow
    <3>3. k.call = "apply" => PreviewType(previews'[k.preview])
      BY <1>2, <3>2 DEF CallType
    <3>4. CallType(k, previews')
      BY <3>2, <3>3 DEF CallType
    <3> QED
      BY <3>1, <3>4
  <2>2. \A q \in Preview : previews'[q] = None \/ PreviewType(previews'[q])
    BY <1>2 DEF TypesInv
  <2> QED
    BY <1>2, <2>1, <2>2 DEF TypesInv
<1>3. ASSUME NEW p \in Preview, Expire(p) PROVE TypesInv'
  <2>1. /\ previews[p] # None /\ previews' = [previews EXCEPT ![p].late = TRUE]
        /\ UNCHANGED <<mappings, cursors, calls, clients>>
    BY <1>3 DEF Expire
  <2>2. PICK v : v = previews[p]
    OBVIOUS
  <2>3. PreviewType(v) /\ PreviewRow(v, heads[SyncLibrary])
    BY <2>1, <2>2 DEF TypesInv, ServiceInv
  <2>4. previews'[p] = [v EXCEPT !.late = TRUE] /\ \A q \in Preview \ {p} : previews'[q] = previews[q]
    BY <2>1, <2>2 DEF ServiceInv
  <2>5. PreviewType(previews'[p])
    BY <2>3, <2>4 DEF PreviewType, PreviewRow
  <2> QED
    BY <1>2, <2>1, <2>4, <2>5 DEF TypesInv
<1>4. ASSUME NEW t \in Txn, NEW c \in Client, NEW list \in MutationLists, NEW base,
             StartPreview(t, c, base, list)
      PROVE  TypesInv'
  <2> DEFINE k == [call |-> "preview", client |-> c, base |-> base,
                   to |-> heads[SyncLibrary], todo |-> list]
  <2>1. calls' = [calls EXCEPT ![t] = k] /\ UNCHANGED <<previews, mappings, cursors, clients>>
    BY <1>4 DEF StartPreview, Calling
  <2>2. CallType(k, previews)
    BY DEF CallType
  <2> HIDE DEF k
  <2> QED
    BY <1>1, <2>1, <2>2 DEF ServiceInv
<1>5. ASSUME NEW t \in Txn, NEW p \in Preview, FinishPreview(t, p) PROVE TypesInv'
  <2>1. PICK k : k = calls[t]
    OBVIOUS
  <2>2. k.client \in Client /\ k.todo \in Seq(Mutation)
    BY <1>5, <2>1 DEF FinishPreview, Serves, TypesInv, CallType
  <2>3. PICK accepted :
          /\ accepted = <<>> \/
             /\ accepted = AcceptedOf(k.client, k.todo)
             /\ \A i \in DOMAIN k.todo : ~Unmapped(k.client, k.todo[i]) => Acceptable(k.client, k.todo[i])
          /\ \E status \in {"conflicted", "pending"} : \E ops :
               previews' = [previews EXCEPT ![p] =
                 [client |-> k.client, base |-> k.base, to |-> k.to, late |-> FALSE,
                  status |-> status, ops |-> ops, accepted |-> accepted,
                  result |-> None, logged |-> {}]]
    BY <1>5, <2>1 DEF FinishPreview
  <2>4. accepted \in Seq(Sound)
    <3>1. CASE accepted = <<>>
      BY <3>1
    <3>2. CASE /\ accepted = AcceptedOf(k.client, k.todo)
               /\ \A i \in DOMAIN k.todo : ~Unmapped(k.client, k.todo[i]) => Acceptable(k.client, k.todo[i])
      <4>1. \A o \in mappings : o.node \in Node
        BY DEF TypesInv, Binding
      <4>2. \A i \in 1 .. Len(k.todo) : ~Unmapped(k.client, k.todo[i]) => Accepted(k.client, k.todo[i]) \in Sound
        BY <2>2, <3>2, <4>1, AcceptedIsSound
      <4> QED
        BY <2>2, <3>2, <4>2, AcceptedOfList
    <3> QED
      BY <2>3, <3>1, <3>2
  <2>5. /\ calls' = [calls EXCEPT ![t] = None] /\ UNCHANGED <<mappings, cursors, clients>>
    BY <1>5 DEF FinishPreview, Calling
  <2>6. /\ PreviewType(previews'[p]) /\ \A q \in Preview \ {p} : previews'[q] = previews[q]
    BY <2>2, <2>3, <2>4 DEF PreviewType, ServiceInv
  <2> QED
    BY <1>2, <2>5, <2>6 DEF TypesInv, ServiceInv
<1>6. ASSUME NEW t \in Txn, NEW p \in Preview, ReplayApply(t, p) PROVE TypesInv'
  <2>1. /\ UNCHANGED <<previews, mappings, cursors, calls>> /\ Deliver(p, previews[p].result)
        /\ PreviewType(previews[p]) /\ OpsRow(previews[p]) /\ previews[p].status = "applied"
    BY <1>6 DEF ReplayApply, TypesInv, OpsInv
  <2>2. clients' \in [Client -> [at : SUBSET Nat, got : SUBSET Nat]]
    BY <2>1, DeliverTypes DEF PreviewType
  <2> QED
    BY <2>1, <2>2 DEF TypesInv
<1>7. ASSUME NEW t \in Txn, NEW p \in Preview, StartApply(t, p) PROVE TypesInv'
  <2> DEFINE k == [call |-> "apply", client |-> previews[p].client, preview |-> p,
                   todo |-> previews[p].accepted, made |-> {}]
  <2>1. /\ calls' = [calls EXCEPT ![t] = k] /\ UNCHANGED <<previews, mappings, cursors, clients>>
        /\ previews[p] # None
    BY <1>7 DEF StartApply, Calling
  <2>2. CallType(k, previews)
    BY <2>1 DEF CallType, TypesInv, PreviewType
  <2> HIDE DEF k
  <2> QED
    BY <1>1, <2>1, <2>2 DEF ServiceInv
<1>8. ASSUME NEW t \in Txn, ApplyLog(t) PROVE TypesInv'
  <2>1. PICK k : k = calls[t]
    OBVIOUS
  <2> DEFINE m == k.todo[1]
             new == [client |-> k.client, ext |-> m.ext, node |-> request[t].node]
             made == IF m.op = "create" THEN k.made \cup {new} ELSE k.made
  <2>2. /\ k # None /\ k.call = "apply" /\ k.todo # <<>> /\ phase[t] = "log"
        /\ UNCHANGED <<previews, mappings, cursors, clients>>
        /\ calls' = [calls EXCEPT ![t] = [k EXCEPT !.todo = Tail(k.todo), !.made = made]]
    BY <1>8, <2>1 DEF ApplyLog, LogRevision, Serves, Calling
  <2>3. CallType(k, previews) /\ request[t].node \in Node
    BY <2>1, <2>2 DEF TypesInv, LogInv, OperationInv, Request
  <2>4. k = [call |-> "apply", client |-> k.client, preview |-> k.preview,
             todo |-> k.todo, made |-> k.made]
    BY <2>1, <2>2 DEF ServiceInv, CallRow
  <2>5. m \in Sound /\ Tail(k.todo) \in Seq(Sound)
    BY <2>2, <2>3 DEF CallType
  <2>6. made \subseteq Binding
    BY <2>2, <2>3, <2>5 DEF CallType, Sound, Mutation, Binding
  <2> HIDE DEF made, m
  <2> DEFINE next == [k EXCEPT !.todo = Tail(k.todo), !.made = made]
  <2>7. /\ next.call = "apply" /\ next.client = k.client /\ next.preview = k.preview
        /\ next.todo = Tail(k.todo) /\ next.made = made
    BY <2>4
  <2> HIDE DEF next
  <2>8. CallType(next, previews)
    BY <2>2, <2>3, <2>5, <2>6, <2>7 DEF CallType
  <2>9. calls' = [calls EXCEPT ![t] = next]
    BY <2>2 DEF next
  <2> QED
    BY <1>1, <2>2, <2>8, <2>9 DEF ServiceInv
<1>9. ASSUME NEW t \in Txn, FinishApply(t) PROVE TypesInv'
  <2> PICK p : p = calls[t].preview
    OBVIOUS
  <2> DEFINE result == [newClock |-> VisibleHead(t, SyncLibrary), own |-> Clocks(pending[t])]
  <2>1. /\ Serves(t, "apply") /\ calls' = [calls EXCEPT ![t] = None] /\ UNCHANGED cursors
        /\ previews' = [previews EXCEPT ![p].status = "applied", ![p].result = result,
                                        ![p].logged = @ \cup Clocks(pending[t])]
        /\ Deliver(p, result) \/ UNCHANGED clients
        /\ mappings' = mappings \cup calls[t].made
    BY <1>9 DEF FinishApply, Calling
  <2>2. p \in Preview /\ PreviewRow(previews[p], heads[SyncLibrary]) /\ CallType(calls[t], previews)
    BY <2>1 DEF ServiceInv, CallRow, Serves, TypesInv
  <2>3. PreviewType(previews[p]) /\ OpsRow(previews[p])
    BY <2>1, <2>2 DEF CallType, Serves, OpsInv
  <2>4. result.newClock \in Nat /\ result.own \subseteq Nat
    BY DEF VisibleHead, Clocks, LogInv, TypeOK, Revision
  <2> HIDE DEF result
  <2>5. clients' \in [Client -> [at : SUBSET Nat, got : SUBSET Nat]]
    BY <2>1, <2>2, <2>3, <2>4, DeliverTypes
  <2>6. PICK v : v = previews[p]
    OBVIOUS
  <2>7. PICK logged : logged = v.logged \cup Clocks(pending[t])
    OBVIOUS
  <2>8. /\ previews'[p] = [v EXCEPT !.status = "applied", !.result = result, !.logged = logged]
        /\ \A q \in Preview \ {p} : previews'[q] = previews[q]
    BY <2>1, <2>2, <2>6, <2>7 DEF ServiceInv
  <2>9. PreviewType(previews'[p])
    BY <2>2, <2>3, <2>4, <2>6, <2>8 DEF PreviewType, PreviewRow, TypesInv
  <2>10. mappings' \subseteq Binding
    BY <2>1, <2>2 DEF TypesInv, CallType, Serves
  <2>11. \A u \in Txn : calls'[u] = None \/ calls'[u] = calls[u]
    BY <2>1 DEF ServiceInv
  <2> QED
    BY <1>2, <2>1, <2>2, <2>5, <2>8, <2>9, <2>10, <2>11
<1>10. ASSUME NEW t \in Txn, NEW c \in Client, NEW clock \in clients[c].at, StartAck(t, c, clock)
       PROVE  TypesInv'
  <2> DEFINE k == [call |-> "ack", client |-> c, clock |-> clock, read |-> cursors[c]]
  <2>1. calls' = [calls EXCEPT ![t] = k] /\ UNCHANGED <<previews, mappings, cursors, clients>>
    BY <1>10 DEF StartAck, Calling
  <2>2. CallType(k, previews)
    BY DEF CallType, ServiceInv
  <2> HIDE DEF k
  <2> QED
    BY <1>1, <2>1, <2>2 DEF ServiceInv
<1>11. ASSUME NEW t \in Txn, FinishAck(t) PROVE TypesInv'
  <2>1. /\ UNCHANGED <<previews, mappings, clients>> /\ calls' = [calls EXCEPT ![t] = None]
        /\ cursors' = cursors \/ cursors' = [cursors EXCEPT ![calls[t].client] = calls[t].clock]
        /\ CallType(calls[t], previews) /\ calls[t].call = "ack"
    BY <1>11 DEF FinishAck, Calling, Serves, TypesInv
  <2>2. cursors' \in [Client -> Nat \cup {None}]
    BY <2>1 DEF TypesInv, CallType
  <2> QED
    BY <2>1, <2>2 DEF TypesInv, ServiceInv
<1>12. ASSUME NEW t \in Txn, FailCall(t) PROVE TypesInv'
  BY <1>1, <1>12 DEF FailCall, Calling, ServiceInv
<1>13. ASSUME NEW t \in Txn, Dashboard(t) \/ ApplyMutation(t) \/ ApplyWrite(t) PROVE TypesInv'
  BY <1>1, <1>13 DEF Dashboard, ApplyMutation, ApplyWrite, syncVars
<1>14. CASE UNCHANGED allVars
  BY <1>1, <1>14 DEF allVars, syncVars
<1> QED
  BY <1>3, <1>4, <1>5, <1>6, <1>7, <1>8, <1>9, <1>10, <1>11, <1>12, <1>13, <1>14 DEF SyncNext

(* What the service stores are well formed rows: the server ops of a preview *)
(* are revisions, the mutations it accepted carry ids an apply can use.     *)
THEOREM SyncTypes == SyncSpec => []SyncTypeOK
<1>1. SyncInit => LogInv /\ ServiceInv /\ OpsInv /\ MapInv /\ TypesInv
  BY LogInvInit, ServiceInit, OpsInit, MapInit, TypesInit
<1>2. LogInv /\ ServiceInv /\ OpsInv /\ MapInv /\ TypesInv /\ [SyncNext]_allVars
        => (LogInv /\ ServiceInv /\ OpsInv /\ MapInv /\ TypesInv)'
  BY StoreSteps, LogInvNext, ServiceNext, OpsNext, MapNext, TypesNext
<1>3. ASSUME LogInv, OpsInv, TypesInv PROVE SyncTypeOK
  <2>1. \A p \in Stored : PreviewType(previews[p]) /\ previews[p].ops \subseteq revisions
    BY <1>3 DEF TypesInv, OpsInv, OpsRow, LogOf, Stored
  <2>2. ASSUME NEW p \in Stored, NEW i \in DOMAIN previews[p].accepted
        PROVE  previews[p].accepted[i] \in Mutation
    <3>1. PICK s \in Seq(Sound) : s = previews[p].accepted
      BY <2>1 DEF PreviewType
    <3>2. s[i] \in Sound
      BY <2>2, <3>1
    <3> QED
      BY <3>1, <3>2 DEF Sound
  <2> QED
    BY <1>3, <2>1, <2>2 DEF SyncTypeOK, TypesInv, PreviewType, Binding, LogInv, TypeOK
<1> QED
  BY <1>1, <1>2, <1>3, PTL DEF SyncSpec

-----------------------------------------------------------------------------
(* Applied once. *)

OneConnection == \A t, u \in Txn : t = u

HasCreate(list)  == \E i \in 1 .. Len(list) : list[i].op = "create"
Awaits(list, e)  == \E i \in 1 .. Len(list) : list[i].op = "create" /\ list[i].ext = e
Bound(M, c, e)   == \E o \in M : o.client = c /\ o.ext = e

OnceRow(v) ==
  /\ v.status # "applied" \/ v.accepted = <<>> => v.logged = {}
  /\ v.status = "applied" => Cardinality(v.logged) = Len(v.accepted)
  /\ v.status # "conflicted" => OneConnection \/ v.accepted = <<>> \/ HasCreate(v.accepted)

(* An apply k of preview v that has the head at own (0: not yet), where the *)
(* committed head is at head and the bindings M: it has logged what it has  *)
(* taken off its list, the creates it took have their bindings, and if      *)
(* another apply was first one of its creates will be refused.              *)
OnceCall(k, v, own, head, M) ==
  /\ OnceRow(v) /\ v.status # "conflicted"
  /\ own = 0 => k.todo = v.accepted
  /\ own > 0 => Len(k.todo) + own = head + Len(v.accepted)
  /\ \A i \in 1 .. Len(v.accepted) : v.accepted[i].op = "create" =>
       Bound(k.made, k.client, v.accepted[i].ext) \/ Awaits(k.todo, v.accepted[i].ext)
  /\ v.status = "applied" /\ v.accepted # <<>> => \E e : Awaits(k.todo, e) /\ Bound(M, k.client, e)

OnceInv ==
  /\ \A p \in Preview : previews[p] = None \/ OnceRow(previews[p])
  /\ \A t \in Txn : Serves(t, "apply") =>
       OnceCall(calls[t], previews[calls[t].preview], claim[t][SyncLibrary],
                heads[SyncLibrary], mappings)

LEMMA OnceInit == SyncInit => OnceInv
BY DEF SyncInit, OnceInv, Serves

(* Nobody moves a head that somebody holds. *)
LEMMA HeldHeadStays ==
  ASSUME LogInv, [Next]_vars, NEW u \in Txn, claim[u][SyncLibrary] > 0, claim'[u] = claim[u]
  PROVE  heads'[SyncLibrary] = heads[SyncLibrary]
<1> USE SyncAssumption
<1>1. CASE UNCHANGED tables
  BY <1>1 DEF tables
<1>2. CASE \E t \in Txn : Commit(t)
  <2>1. PICK t \in Txn : Commit(t)
    BY <1>2
  <2>2. /\ heads'[SyncLibrary] = VisibleHead(t, SyncLibrary) /\ claim'[t] = NoClaim
    BY <2>1 DEF Commit, Release, LogInv, TypeOK
  <2>3. t # u
    BY <2>2 DEF NoClaim
  <2>4. ~(claim[t][SyncLibrary] > 0)
    BY <2>3 DEF LogInv, Exclusive
  <2> QED
    BY <2>2, <2>4 DEF VisibleHead
<1>3. ASSUME NEW t \in Txn, Check(t) PROVE UNCHANGED tables
  BY <1>3, CheckAsks DEF LogInv, Ask
<1> QED
  BY <1>1, <1>2, <1>3 DEF Next, vars, tables, WriteNode, LogRevision, Rollback

(* An apply that is not taking a step keeps what makes it once. *)
LEMMA OnceKept ==
  ASSUME NEW k, NEW v, NEW w, NEW own \in Nat, NEW head \in Nat, NEW later, NEW M, NEW N,
         OnceCall(k, v, own, head, M), M \subseteq N,
         own > 0 => later = head,
         w.status = v.status, w.accepted = v.accepted, w.logged = v.logged
  PROVE  OnceCall(k, w, own, later, N)
<1>1. OnceRow(w) /\ w.status # "conflicted"
  BY DEF OnceCall, OnceRow
<1>2. \A e : Bound(M, k.client, e) => Bound(N, k.client, e)
  BY DEF Bound
<1>3. w.status = "applied" /\ w.accepted # <<>> => \E e : Awaits(k.todo, e) /\ Bound(N, k.client, e)
  BY <1>2 DEF OnceCall
<1> QED
  BY <1>1, <1>3 DEF OnceCall

(* What a step must show. *)
LEMMA OnceStep ==
  ASSUME LogInv, ServiceInv, OnceInv, [Next]_vars, mappings \subseteq mappings',
         \A p \in Preview : previews'[p] = previews[p] \/ OnceRow(previews'[p]),
         \A u \in Txn : calls'[u] # None /\ calls'[u].call = "apply" =>
           \/ /\ calls'[u] = calls[u] /\ claim'[u] = claim[u]
              /\ \E q : /\ q = calls[u].preview
                        /\ previews'[q].status = previews[q].status
                        /\ previews'[q].accepted = previews[q].accepted
                        /\ previews'[q].logged = previews[q].logged
           \/ OnceCall(calls'[u], previews'[calls'[u].preview], claim'[u][SyncLibrary],
                       heads'[SyncLibrary], mappings')
  PROVE  OnceInv'
<1>1. \A p \in Preview : previews'[p] = None \/ OnceRow(previews'[p])
  BY DEF OnceInv
<1>2. ASSUME NEW u \in Txn, calls'[u] # None, calls'[u].call = "apply",
             calls'[u] = calls[u], claim'[u] = claim[u],
             NEW q, q = calls[u].preview,
             previews'[q].status = previews[q].status,
             previews'[q].accepted = previews[q].accepted,
             previews'[q].logged = previews[q].logged
      PROVE  OnceCall(calls'[u], previews'[q], claim'[u][SyncLibrary], heads'[SyncLibrary], mappings')
  <2>1. OnceCall(calls[u], previews[q], claim[u][SyncLibrary], heads[SyncLibrary], mappings)
    BY <1>2 DEF OnceInv, Serves
  <2>2. claim[u][SyncLibrary] \in Nat /\ heads[SyncLibrary] \in Nat
    BY SyncAssumption DEF LogInv, TypeOK
  <2>3. claim[u][SyncLibrary] > 0 => heads'[SyncLibrary] = heads[SyncLibrary]
    BY <1>2, HeldHeadStays
  <2> QED
    BY <1>2, <2>1, <2>2, <2>3, OnceKept
<1>3. \A u \in Txn : Serves(u, "apply")' =>
        OnceCall(calls'[u], previews'[calls'[u].preview], claim'[u][SyncLibrary],
                 heads'[SyncLibrary], mappings')
  BY <1>2 DEF Serves
<1> QED
  BY <1>1, <1>3 DEF OnceInv

(* Logging a mutation takes it off the list.  One whose external id is      *)
(* bound is not logged, so an apply that comes second keeps it.             *)
LEMMA OnceLog ==
  ASSUME LogInv, ServiceInv, MapInv, TypesInv, OnceInv, NEW t \in Txn, ApplyLog(t)
  PROVE  OnceCall(calls'[t], previews[calls[t].preview], claim'[t][SyncLibrary],
                  heads[SyncLibrary], mappings)
<1> USE SyncAssumption
<1>1. PICK k : k = calls[t]
  OBVIOUS
<1>2. PICK v : v = previews[k.preview]
  OBVIOUS
<1> DEFINE m == k.todo[1]
           new == [client |-> k.client, ext |-> m.ext, node |-> request[t].node]
           made == IF m.op = "create" THEN k.made \cup {new} ELSE k.made
           own == claim[t][SyncLibrary]
           head == heads[SyncLibrary]
           next == [k EXCEPT !.todo = Tail(k.todo), !.made = made]
<1>3. /\ Serves(t, "apply") /\ k.todo # <<>> /\ LogRevision(t)
      /\ m.op = "create" => ~\E o \in mappings : o.client = k.client /\ o.ext = m.ext
      /\ calls'[t] = next
  BY <1>1 DEF ApplyLog, Calling, ServiceInv
<1>4. /\ k.todo \in Seq(Sound) /\ v.accepted \in Seq(Sound)
      /\ OnceCall(k, v, own, head, mappings)
      /\ k = [call |-> "apply", client |-> k.client, preview |-> k.preview,
              todo |-> k.todo, made |-> k.made]
  BY <1>1, <1>2, <1>3 DEF Serves, TypesInv, CallType, PreviewType, OnceInv, ServiceInv, CallRow
<1>5. next.client = k.client /\ next.todo = Tail(k.todo) /\ next.made = made
  BY <1>4
<1>6. claim'[t][SyncLibrary] = VisibleHead(t, SyncLibrary) + 1
  <2>1. InHand(t) /\ phase[t] = "log"
    BY <1>3 DEF MapInv, ApplyInv, LogRevision
  <2>2. InSyncLibrary(t, request[t].node) /\ draft[t][request[t].node] # None
    BY <2>1 DEF InHand, LogInv, OperationInv
  <2>3. draft[t][request[t].node].library = SyncLibrary
    BY <2>2 DEF InSyncLibrary, Visible
  <2> QED
    BY <1>3, <2>3 DEF LogRevision, LogInv, TypeOK
<1>7. own \in Nat /\ head \in Nat /\ (own > 0 => own > head)
  BY DEF LogInv, TypeOK, Claims
<1>8. VisibleHead(t, SyncLibrary) = IF own > 0 THEN own ELSE head
  BY DEF VisibleHead
<1> PICK after : after = claim'[t][SyncLibrary]
  OBVIOUS
<1>9. after > 0 /\ after = (IF own > 0 THEN own ELSE head) + 1
  BY <1>6, <1>7, <1>8
<1>10. Len(Tail(k.todo)) = Len(k.todo) - 1 /\ Len(k.todo) \in Nat /\ Len(k.todo) > 0 /\ Len(v.accepted) \in Nat
  BY <1>3, <1>4
<1> HIDE DEF m, new, made, own, head, next
<1>11. Len(next.todo) + after = head + Len(v.accepted)
  <2>1. PICK left : left = Len(k.todo)
    OBVIOUS
  <2>2. PICK all : all = Len(v.accepted)
    OBVIOUS
  <2>3. left \in Nat /\ all \in Nat /\ own \in Nat /\ head \in Nat
    BY <1>7, <1>10, <2>1, <2>2
  <2>4. Len(next.todo) = left - 1
    BY <1>5, <1>10, <2>1
  <2>5. /\ own > 0 => left + own = head + all
        /\ own = 0 => left = all
    BY <1>4, <2>1, <2>2 DEF OnceCall
  <2>6. (left - 1) + after = head + all
    BY <1>9, <2>3, <2>5
  <2> QED
    BY <2>2, <2>4, <2>6
<1>12. ASSUME NEW e, Awaits(k.todo, e)
       PROVE  Awaits(Tail(k.todo), e) \/ (m.op = "create" /\ m.ext = e)
  <2>1. PICK i \in 1 .. Len(k.todo) : k.todo[i].op = "create" /\ k.todo[i].ext = e
    BY <1>12 DEF Awaits
  <2>2. CASE i = 1
    BY <2>1, <2>2 DEF m
  <2>3. CASE i # 1
    <3>1. PICK j \in 1 .. Len(k.todo) - 1 : i = j + 1
      BY <1>10, <2>1, <2>3
    <3>2. \A s \in Seq(Sound) : s # <<>> =>
            Len(Tail(s)) = Len(s) - 1 /\ \A a \in 1 .. Len(s) - 1 : Tail(s)[a] = s[a + 1]
      OBVIOUS
    <3>3. j \in 1 .. Len(Tail(k.todo)) /\ Tail(k.todo)[j] = k.todo[i]
      BY <1>3, <1>4, <3>1, <3>2
    <3> QED
      BY <2>1, <3>3 DEF Awaits
  <2> QED
    BY <2>2, <2>3
<1>13. ASSUME NEW i \in 1 .. Len(v.accepted), v.accepted[i].op = "create"
       PROVE  \/ Bound(made, k.client, v.accepted[i].ext)
              \/ Awaits(Tail(k.todo), v.accepted[i].ext)
  <2>1. PICK e : e = v.accepted[i].ext
    OBVIOUS
  <2>2. Bound(k.made, k.client, e) \/ Awaits(k.todo, e)
    BY <1>4, <1>13, <2>1 DEF OnceCall
  <2>3. CASE Bound(k.made, k.client, e)
    BY <2>1, <2>3 DEF Bound, made
  <2>4. CASE m.op = "create" /\ m.ext = e
    <3>1. new.client = k.client /\ new.ext = e /\ new \in made
      BY <2>4 DEF new, made
    <3> QED
      BY <2>1, <3>1 DEF Bound
  <2> QED
    BY <1>12, <2>1, <2>2, <2>3, <2>4
<1>14. v.status = "applied" /\ v.accepted # <<>> =>
         \E e : Awaits(Tail(k.todo), e) /\ Bound(mappings, k.client, e)
  <2> SUFFICES ASSUME v.status = "applied", v.accepted # <<>>
               PROVE  \E e : Awaits(Tail(k.todo), e) /\ Bound(mappings, k.client, e)
    OBVIOUS
  <2>1. PICK e : Awaits(k.todo, e) /\ Bound(mappings, k.client, e)
    BY <1>4 DEF OnceCall
  <2>2. ~(m.op = "create" /\ m.ext = e)
    BY <1>3, <2>1 DEF Bound
  <2> QED
    BY <1>12, <2>1, <2>2
<1>15. OnceRow(v) /\ v.status # "conflicted"
  BY <1>4 DEF OnceCall
<1>16. OnceCall(next, v, after, head, mappings)
  BY <1>5, <1>9, <1>11, <1>13, <1>14, <1>15 DEF OnceCall
<1> QED
  BY <1>1, <1>2, <1>3, <1>16 DEF head

ListsCreate == \A list \in MutationLists : list = <<>> \/ HasCreate(list)

(* A preview that can be applied accepted its list whole. *)
LEMMA OncePreview ==
  ASSUME OneConnection \/ ListsCreate, ServiceInv, TypesInv, NEW t \in Txn, NEW p \in Preview,
         FinishPreview(t, p)
  PROVE  OnceRow(previews'[p])
<1> USE SyncAssumption
<1>1. PICK k : k = calls[t]
  OBVIOUS
<1>2. k.todo \in MutationLists /\ k.todo \in Seq(Mutation)
  BY <1>1 DEF FinishPreview, Serves, TypesInv, CallType
<1> PICK w : w = previews'[p]
  OBVIOUS
<1>3. /\ w.status \in {"pending", "conflicted"} /\ w.logged = {}
      /\ w.status = "pending" =>
           /\ w.accepted = AcceptedOf(k.client, k.todo)
           /\ \A i \in DOMAIN k.todo : /\ ~Unmapped(k.client, k.todo[i])
                                       /\ Acceptable(k.client, k.todo[i])
  BY <1>1 DEF FinishPreview, ServiceInv
<1>4. ASSUME w.status = "pending", w.accepted # <<>>, ListsCreate PROVE HasCreate(w.accepted)
  <2>1. \A o \in mappings : o.node \in Node
    BY DEF TypesInv, Binding
  <2>2. \A i \in 1 .. Len(k.todo) : /\ k.todo[i] \in Mutation /\ ~Unmapped(k.client, k.todo[i])
                                    /\ Acceptable(k.client, k.todo[i])
    BY <1>2, <1>3, <1>4
  <2>3. \A i \in 1 .. Len(k.todo) : /\ Accepted(k.client, k.todo[i]) \in Sound
                                    /\ Accepted(k.client, k.todo[i]).op = k.todo[i].op
    BY <2>1, <2>2, AcceptedIsSound
  <2>4. /\ w.accepted \in Seq(Sound) /\ Len(w.accepted) = Len(k.todo)
        /\ \A i \in 1 .. Len(k.todo) : w.accepted[i] = Accepted(k.client, k.todo[i])
    <3>1. PICK c, list : c = k.client /\ list = k.todo
      OBVIOUS
    <3>2. /\ list \in Seq(Mutation) /\ w.accepted = AcceptedOf(c, list)
          /\ \A i \in 1 .. Len(list) : ~Unmapped(c, list[i]) /\ Accepted(c, list[i]) \in Sound
      BY <1>2, <1>3, <1>4, <2>2, <2>3, <3>1
    <3>3. /\ AcceptedOf(c, list) \in Seq(Sound) /\ Len(AcceptedOf(c, list)) = Len(list)
          /\ \A i \in 1 .. Len(list) : AcceptedOf(c, list)[i] = Accepted(c, list[i])
      BY <3>2, AcceptedOfList
    <3> QED
      BY <3>1, <3>2, <3>3
  <2>5. Len(k.todo) # 0
    BY <1>4, <2>4
  <2>6. k.todo # <<>>
    BY <2>5
  <2>7. PICK i \in 1 .. Len(k.todo) : k.todo[i].op = "create"
    BY <1>2, <1>4, <2>6 DEF ListsCreate, HasCreate
  <2> QED
    BY <2>3, <2>4, <2>7 DEF HasCreate
<1> QED
  BY <1>3, <1>4 DEF OnceRow

(* The first apply of a preview logs the whole list, and from then on any   *)
(* other apply of it still has a create to make that is bound.             *)
LEMMA OnceFinish ==
  ASSUME LogInv, ServiceInv, MapInv, TypesInv, OnceInv, [Next]_vars, NEW t \in Txn, FinishApply(t)
  PROVE  OnceInv'
<1> USE SyncAssumption
<1>1. PICK k : k = calls[t]
  OBVIOUS
<1>2. PICK p : p = k.preview
  OBVIOUS
<1>3. PICK v : v = previews[p]
  OBVIOUS
<1> DEFINE own == claim[t][SyncLibrary]
           head == heads[SyncLibrary]
<1>4. PICK made : made = Clocks(pending[t])
  OBVIOUS
<1>5. /\ Serves(t, "apply") /\ k.todo = <<>> /\ calls' = [calls EXCEPT ![t] = None]
      /\ mappings' = mappings \cup k.made
      /\ Commit(t) \/ (phase[t] = "idle" /\ UNCHANGED vars)
      /\ \E result : previews' = [previews EXCEPT ![p].status = "applied", ![p].result = result,
                                                  ![p].logged = @ \cup made]
  BY <1>1, <1>2, <1>4 DEF FinishApply, Calling
<1>6. /\ p \in Preview /\ PreviewRow(v, head) /\ v.accepted \in Seq(Sound)
      /\ MadeOK(t) /\ k.client = v.client
      /\ OnceCall(k, v, own, head, mappings)
  BY <1>1, <1>2, <1>3, <1>5 DEF ServiceInv, CallRow, Serves, TypesInv, CallType, PreviewType,
     MapInv, ApplyInv, OnceInv
<1>7. own \in Nat /\ head \in Nat /\ (own > 0 => own > head)
  BY DEF LogInv, TypeOK, Claims
<1>8. made = head + 1 .. own
  <2>1. HeadLockInv
    BY PointwiseClockInv DEF LogInv
  <2>2. {r.clock : r \in LogOf(pending[t], SyncLibrary)} = head + 1 .. own
    BY <2>1 DEF HeadLockInv
  <2>3. LogOf(pending[t], SyncLibrary) = pending[t]
    BY <1>6 DEF MadeOK, LogOf
  <2> QED
    BY <1>4, <2>2, <2>3 DEF Clocks
<1>9. PICK all \in Nat : all = Len(v.accepted)
  BY <1>6
<1>10. /\ own > 0 => own = head + all
       /\ own = 0 => all = 0
  <2>1. /\ own > 0 => Len(k.todo) + own = head + all
        /\ own = 0 => Len(k.todo) = all
    BY <1>6, <1>9 DEF OnceCall
  <2>2. Len(k.todo) = 0
    BY <1>5
  <2> QED
    BY <1>7, <1>9, <2>1, <2>2
<1>11. Cardinality(made) = all
  <2> HIDE DEF own, head
  <2>1. Cardinality(made) = IF head + 1 > own THEN 0 ELSE own - (head + 1) + 1
    <3>1. head + 1 \in Int /\ own \in Int
      BY <1>7
    <3> QED
      BY <1>8, <3>1, FS_Interval
  <2>2. CASE own > 0
    BY <1>7, <1>9, <1>10, <2>1, <2>2
  <2>3. CASE own = 0
    BY <1>7, <1>9, <1>10, <2>1, <2>3
  <2> QED
    BY <1>7, <2>2, <2>3
<1>12. v.logged = {} /\ (all = 0 <=> v.accepted = <<>>)
  <2>1. all = 0 <=> v.accepted = <<>>
    BY <1>6, <1>9
  <2>2. ~\E e : Awaits(k.todo, e)
    BY <1>5 DEF Awaits
  <2>3. v.status # "applied" \/ v.accepted = <<>>
    BY <1>6, <2>2 DEF OnceCall
  <2> QED
    BY <1>6, <2>1, <2>3 DEF OnceCall, OnceRow
<1>13. /\ previews'[p].status = "applied" /\ previews'[p].accepted = v.accepted
       /\ previews'[p].logged = made /\ \A q \in Preview \ {p} : previews'[q] = previews[q]
  <2>1. PICK result : previews' = [previews EXCEPT ![p].status = "applied", ![p].result = result,
                                                  ![p].logged = @ \cup made]
    BY <1>5
  <2>2. /\ previews'[p] = [v EXCEPT !.status = "applied", !.result = result, !.logged = v.logged \cup made]
        /\ \A q \in Preview \ {p} : previews'[q] = previews[q]
    BY <1>3, <1>6, <2>1 DEF ServiceInv
  <2>3. v.logged \cup made = made
    BY <1>12
  <2> QED
    BY <1>6, <2>2, <2>3 DEF PreviewRow
<1>14. made = {} <=> all = 0
  <2>1. IsFiniteSet(made)
    BY <1>7, <1>8, FS_Interval
  <2> QED
    BY <1>11, <2>1, FS_EmptySet
<1>15. OnceRow(previews'[p])
  BY <1>6, <1>9, <1>11, <1>12, <1>13, <1>14 DEF OnceRow, OnceCall
<1>16. \A u \in Txn \ {t} : calls'[u] = calls[u] /\ claim'[u] = claim[u]
  BY <1>5, OthersKept DEF ServiceInv
<1>17. calls'[t] = None
  BY <1>5 DEF ServiceInv
<1>18. ASSUME NEW u \in Txn, calls'[u] # None, calls'[u].call = "apply", calls[u].preview = p
       PROVE  OnceCall(calls[u], previews'[p], claim'[u][SyncLibrary], heads'[SyncLibrary], mappings')
  <2>1. PICK j : j = calls[u]
    OBVIOUS
  <2> DEFINE held == claim[u][SyncLibrary]
  <2>2. u # t /\ Serves(u, "apply") /\ claim'[u] = claim[u]
    BY <1>16, <1>17, <1>18 DEF Serves
  <2>3. OnceCall(j, v, held, head, mappings) /\ j.client = v.client
    BY <1>3, <1>18, <2>1, <2>2 DEF OnceInv, MapInv, ApplyInv
  <2>4. held \in Nat /\ (held > 0 => heads'[SyncLibrary] = head)
    BY <2>2, HeldHeadStays DEF LogInv, TypeOK
  <2>5. ASSUME v.accepted # <<>>
        PROVE  \E e : Awaits(j.todo, e) /\ Bound(mappings', j.client, e)
    <3>1. own > 0
      BY <1>7, <1>10, <1>12, <2>5
    <3>2. held = 0
      BY <2>2, <2>4, <3>1 DEF LogInv, Exclusive
    <3>3. j.todo = v.accepted
      BY <2>3, <3>2 DEF OnceCall
    <3>4. t # u /\ ~OneConnection
      BY <2>2 DEF OneConnection
    <3>5. PICK i \in 1 .. Len(v.accepted) : v.accepted[i].op = "create"
      BY <2>3, <2>5, <3>4 DEF OnceCall, OnceRow, HasCreate
    <3>6. PICK e : e = v.accepted[i].ext
      OBVIOUS
    <3>7. Bound(k.made, k.client, e)
      <4>1. ~Awaits(k.todo, e)
        BY <1>5 DEF Awaits
      <4> QED
        BY <1>6, <3>5, <3>6, <4>1 DEF OnceCall
    <3>8. Bound(mappings', j.client, e)
      BY <1>5, <1>6, <2>3, <3>7 DEF Bound
    <3>9. Awaits(j.todo, e)
      BY <3>3, <3>5, <3>6 DEF Awaits
    <3> QED
      BY <3>8, <3>9
  <2>6. OnceRow(previews'[p]) /\ previews'[p].status # "conflicted"
    BY <1>13, <1>15
  <2>7. PICK w : w = previews'[p]
    OBVIOUS
  <2> HIDE DEF held, head
  <2>8. OnceCall(j, w, held, heads'[SyncLibrary], mappings')
    BY <1>13, <2>3, <2>4, <2>5, <2>6, <2>7 DEF OnceCall
  <2> QED
    BY <2>1, <2>2, <2>7, <2>8 DEF held
<1>19. mappings \subseteq mappings'
  BY <1>5
<1>20. \A q \in Preview : previews'[q] = previews[q] \/ OnceRow(previews'[q])
  BY <1>13, <1>15
<1>21. ASSUME NEW u \in Txn, calls'[u] # None, calls'[u].call = "apply"
       PROVE  \/ /\ calls'[u] = calls[u] /\ claim'[u] = claim[u]
                 /\ \E q : /\ q = calls[u].preview
                           /\ previews'[q].status = previews[q].status
                           /\ previews'[q].accepted = previews[q].accepted
                           /\ previews'[q].logged = previews[q].logged
              \/ OnceCall(calls'[u], previews'[calls'[u].preview], claim'[u][SyncLibrary],
                          heads'[SyncLibrary], mappings')
  <2>1. u # t /\ calls'[u] = calls[u] /\ claim'[u] = claim[u]
    BY <1>16, <1>17, <1>21
  <2>2. PICK q \in Preview : q = calls[u].preview
    BY <1>21, <2>1 DEF ServiceInv, CallRow
  <2>3. CASE q = p
    BY <1>18, <1>21, <2>1, <2>2, <2>3
  <2>4. CASE q # p
    BY <1>13, <2>1, <2>2, <2>4
  <2> QED
    BY <2>3, <2>4
<1> QED
  BY <1>19, <1>20, <1>21, OnceStep

LEMMA OnceNext ==
  ASSUME OneConnection \/ ListsCreate, LogInv, ServiceInv, MapInv, TypesInv, OnceInv,
         [SyncNext]_allVars
  PROVE  OnceInv'
<1>0. [Next]_vars
  BY StoreSteps
<1>1. ASSUME NEW t \in Txn,
             \/ Check(t) \/ WriteNode(t) \/ LogRevision(t) \/ Commit(t) \/ Rollback(t)
             \/ UNCHANGED vars,
             UNCHANGED <<previews, mappings>>,
             \A u \in Txn \ {t} : calls'[u] = calls[u],
             calls'[t] = None \/ calls'[t].call # "apply"
             \/ OnceCall(calls'[t], previews[calls'[t].preview], claim'[t][SyncLibrary],
                         heads'[SyncLibrary], mappings)
      PROVE  OnceInv'
  <2>1. \A u \in Txn \ {t} : calls'[u] = calls[u] /\ claim'[u] = claim[u]
    BY <1>1, OthersKept
  <2> QED
    BY <1>0, <1>1, <2>1, OnceStep
<1>2. ASSUME UNCHANGED vars, UNCHANGED <<mappings, calls>>,
             \A p \in Preview : previews'[p] = previews[p] \/
               /\ OnceRow(previews'[p]) /\ previews'[p].status = previews[p].status
               /\ previews'[p].accepted = previews[p].accepted
               /\ previews'[p].logged = previews[p].logged
      PROVE  OnceInv'
  <2>1. ASSUME NEW u \in Txn, calls'[u] # None, calls'[u].call = "apply"
        PROVE  /\ calls'[u] = calls[u] /\ claim'[u] = claim[u]
               /\ \E q : /\ q = calls[u].preview
                         /\ previews'[q].status = previews[q].status
                         /\ previews'[q].accepted = previews[q].accepted
                         /\ previews'[q].logged = previews[q].logged
    <3>1. PICK q \in Preview : q = calls[u].preview
      BY <1>2, <2>1 DEF ServiceInv, CallRow
    <3> QED
      BY <1>2, <3>1 DEF vars
  <2> QED
    BY <1>0, <1>2, <2>1, OnceStep
<1>3. ASSUME NEW p \in Preview, Expire(p) PROVE OnceInv'
  <2>1. /\ UNCHANGED vars /\ UNCHANGED <<mappings, calls>> /\ previews[p] # None
        /\ previews' = [previews EXCEPT ![p].late = TRUE]
    BY <1>3 DEF Expire
  <2>2. PICK v : v = previews[p]
    OBVIOUS
  <2>3. OnceRow(v) /\ PreviewRow(v, heads[SyncLibrary])
    BY <2>1, <2>2 DEF OnceInv, ServiceInv
  <2>4. /\ previews'[p].logged = v.logged /\ previews'[p].accepted = v.accepted
        /\ previews'[p].status = v.status
        /\ \A q \in Preview \ {p} : previews'[q] = previews[q]
    BY <2>1, <2>2, <2>3 DEF PreviewRow, ServiceInv
  <2>5. OnceRow(previews'[p])
    BY <2>3, <2>4 DEF OnceRow
  <2> QED
    BY <1>2, <2>1, <2>2, <2>4, <2>5
<1>4. ASSUME NEW t \in Txn, NEW p \in Preview, FinishPreview(t, p) PROVE OnceInv'
  <2>1. /\ \A u \in Txn : Serves(u, "apply") => calls[u].preview # p
        /\ calls' = [calls EXCEPT ![t] = None] /\ UNCHANGED vars /\ UNCHANGED mappings
    BY <1>4 DEF FinishPreview, FreshPreview, Calling
  <2>2. \A q \in Preview \ {p} : previews'[q] = previews[q]
    BY <1>4 DEF FinishPreview, ServiceInv
  <2>3. OnceRow(previews'[p])
    BY <1>4, OncePreview
  <2>4. ASSUME NEW u \in Txn, calls'[u] # None, calls'[u].call = "apply"
        PROVE  /\ calls'[u] = calls[u] /\ claim'[u] = claim[u]
               /\ \E q : /\ q = calls[u].preview
                         /\ previews'[q].status = previews[q].status
                         /\ previews'[q].accepted = previews[q].accepted
                         /\ previews'[q].logged = previews[q].logged
    <3>1. calls'[u] = calls[u] /\ Serves(u, "apply")
      BY <2>1, <2>4 DEF ServiceInv, Serves
    <3>2. PICK q \in Preview : q = calls[u].preview /\ q # p
      BY <2>1, <3>1 DEF ServiceInv, CallRow, Serves
    <3> QED
      BY <2>1, <2>2, <3>1, <3>2 DEF vars
  <2> QED
    BY <1>0, <2>1, <2>2, <2>3, <2>4, OnceStep
<1>5. ASSUME NEW t \in Txn, NEW p \in Preview, StartApply(t, p) PROVE OnceInv'
  <2> PICK v : v = previews[p]
    OBVIOUS
  <2> DEFINE k == [call |-> "apply", client |-> v.client, preview |-> p,
                   todo |-> v.accepted, made |-> {}]
  <2>1. /\ v # None /\ v.status = "pending" /\ phase[t] = "idle" /\ UNCHANGED vars
        /\ UNCHANGED <<previews, mappings>> /\ calls' = [calls EXCEPT ![t] = k]
    BY <1>5 DEF StartApply, Calling, Free
  <2>2. OnceRow(v)
    BY <2>1 DEF OnceInv
  <2>3. claim'[t][SyncLibrary] = 0
    BY <2>1, SyncAssumption DEF MapInv, IdleInv, NoClaim, vars
  <2>4. k.preview = p /\ k.todo = v.accepted
    OBVIOUS
  <2> HIDE DEF k
  <2>5. OnceCall(k, v, 0, heads'[SyncLibrary], mappings)
    BY <2>1, <2>2, <2>4 DEF OnceCall, Awaits
  <2>6. calls'[t] = k /\ \A u \in Txn \ {t} : calls'[u] = calls[u]
    BY <2>1 DEF ServiceInv
  <2> QED
    BY <1>1, <2>1, <2>3, <2>4, <2>5, <2>6
<1>6. ASSUME NEW t \in Txn, ApplyMutation(t) \/ ApplyWrite(t) PROVE OnceInv'
  <2>1. /\ UNCHANGED <<previews, mappings, calls>> /\ Serves(t, "apply")
        /\ Check(t) \/ WriteNode(t)
    BY <1>6, MutationChecks DEF ApplyMutation, ApplyWrite, syncVars
  <2>2. UNCHANGED <<claim, heads>>
    <3>1. CASE Check(t)
      BY <3>1, CheckAsks DEF LogInv, Ask, tables
    <3>2. CASE WriteNode(t)
      BY <3>2 DEF WriteNode, tables
    <3> QED
      BY <2>1, <3>1, <3>2
  <2>3. OnceCall(calls'[t], previews[calls'[t].preview], claim'[t][SyncLibrary],
                 heads'[SyncLibrary], mappings)
    BY <2>1, <2>2 DEF OnceInv
  <2> QED
    BY <1>1, <2>1, <2>3
<1>7. ASSUME NEW t \in Txn, ApplyLog(t) PROVE OnceInv'
  <2>1. /\ UNCHANGED <<previews, mappings, heads>> /\ Serves(t, "apply") /\ LogRevision(t)
        /\ \E k : calls' = [calls EXCEPT ![t] = k]
    BY <1>7 DEF ApplyLog, Calling, LogRevision, tables
  <2>2. \A u \in Txn \ {t} : calls'[u] = calls[u]
    BY <2>1 DEF ServiceInv
  <2>3. calls'[t].preview = calls[t].preview
    BY <1>7, LogStep
  <2> QED
    BY <1>1, <1>7, <2>1, <2>2, <2>3, OnceLog
<1>8. ASSUME NEW t \in Txn, FinishApply(t) PROVE OnceInv'
  BY <1>0, <1>8, OnceFinish
<1>9. ASSUME NEW t \in Txn, FailCall(t) PROVE OnceInv'
  BY <1>1, <1>9 DEF FailCall, Calling, ServiceInv
<1>10. ASSUME NEW t \in Txn, Dashboard(t) PROVE OnceInv'
  BY <1>1, <1>10 DEF Dashboard, syncVars
<1>11. ASSUME NEW t \in Txn, NEW c \in Client, NEW base, NEW list, StartPreview(t, c, base, list)
       PROVE  OnceInv'
  BY <1>1, <1>11 DEF StartPreview, Calling, ServiceInv
<1>12. ASSUME NEW t \in Txn, NEW c \in Client, NEW clock, StartAck(t, c, clock) PROVE OnceInv'
  BY <1>1, <1>12 DEF StartAck, Calling, ServiceInv
<1>13. ASSUME NEW t \in Txn, FinishAck(t) PROVE OnceInv'
  BY <1>1, <1>13 DEF FinishAck, Calling, ServiceInv
<1>14. ASSUME NEW t \in Txn, NEW p \in Preview, ReplayApply(t, p) PROVE OnceInv'
  BY <1>2, <1>14 DEF ReplayApply
<1>15. CASE UNCHANGED allVars
  BY <1>2, <1>15 DEF allVars, syncVars, vars
<1> QED
  BY <1>3, <1>4, <1>5, <1>6, <1>7, <1>8, <1>9, <1>10, <1>11, <1>12, <1>13, <1>14, <1>15 DEF SyncNext

(* A preview is applied once, however often its apply is repeated: on one   *)
(* connection the second apply finds it applied; on several, where both     *)
(* may have found it pending, the second one meets a create that is bound,  *)
(* provided that every list of mutations has one.                          *)
THEOREM PreviewsApplyOnce ==
  ASSUME OneConnection \/ ListsCreate
  PROVE  SyncSpec => []AppliedOnce
<1>1. SyncInit => LogInv /\ ServiceInv /\ OpsInv /\ MapInv /\ TypesInv /\ OnceInv
  BY LogInvInit, ServiceInit, OpsInit, MapInit, TypesInit, OnceInit
<1>2. LogInv /\ ServiceInv /\ OpsInv /\ MapInv /\ TypesInv /\ OnceInv /\ [SyncNext]_allVars
        => (LogInv /\ ServiceInv /\ OpsInv /\ MapInv /\ TypesInv /\ OnceInv)'
  BY StoreSteps, LogInvNext, ServiceNext, OpsNext, MapNext, TypesNext, OnceNext
<1>3. OnceInv => AppliedOnce
  BY FS_EmptySet DEF OnceInv, OnceRow, AppliedOnce, Applied, Stored
<1> QED
  BY <1>1, <1>2, <1>3, PTL DEF SyncSpec

-----------------------------------------------------------------------------
(* No revision skipped. *)

(* With the clients at K, client c has everything up to clock n. *)
Knows(K, c, n) == 1 .. n \subseteq K[c].got

SkipRow(v, K) ==
  /\ Knows(K, v.client, v.base)
  /\ v.status = "applied" => v.to + 1 .. v.result.newClock \subseteq v.result.own

SkipCall(k, P, K) ==
  /\ k.call = "preview" => Knows(K, k.client, k.base)
  /\ k.call = "apply" => /\ SkipRow(P[k.preview], K)
                         /\ P[k.preview].base + 1 .. P[k.preview].to \subseteq Clocks(P[k.preview].ops)
  /\ k.call = "ack" => Knows(K, k.client, k.clock)

(* What a client has reached, acknowledged or is asking about lies in what  *)
(* it knows, and so does what the answer to an apply will make it reach.   *)
SkipInv ==
  /\ \A c \in Client : \A a \in clients[c].at : Knows(clients, c, a)
  /\ \A c \in Client : cursors[c] # None => Knows(clients, c, cursors[c])
  /\ \A p \in Preview : previews[p] = None \/ SkipRow(previews[p], clients)
  /\ \A t \in Txn : calls[t] = None \/ SkipCall(calls[t], previews, clients)

(* No preview has more due than it can carry. *)
FewDue == \A p \in Stored :
  Cardinality(Between(previews[p].base, previews[p].to)) <= OpsLimit

LEMMA SkipInit == SyncInit => SkipInv
<1> SUFFICES ASSUME SyncInit PROVE SkipInv
  OBVIOUS
<1>1. /\ previews = [p \in Preview |-> None] /\ calls = [t \in Txn |-> None]
      /\ \E synced \in SUBSET Client :
           /\ cursors = [c \in Client |-> IF c \in synced THEN 2 ELSE None]
           /\ clients = [c \in Client |-> IF c \in synced THEN [at |-> {2}, got |-> 1 .. 2]
                                         ELSE [at |-> {0}, got |-> {}]]
  BY DEF SyncInit, Head0
<1>2. 1 .. 0 = {}
  OBVIOUS
<1>3. \A c \in Client : \A a \in clients[c].at : Knows(clients, c, a)
  BY <1>1, <1>2 DEF Knows
<1>4. \A c \in Client : cursors[c] # None => Knows(clients, c, cursors[c])
  BY <1>1 DEF Knows
<1> QED
  BY <1>1, <1>3, <1>4 DEF SkipInv

(* A stored preview with few revisions due carries the clocks up to to. *)
LEMMA CarriesClocks ==
  ASSUME LogInv, ServiceInv, OpsInv, FewDue, NEW p \in Preview, previews[p] # None
  PROVE  previews[p].base + 1 .. previews[p].to \subseteq Clocks(previews[p].ops)
<1> PICK v : v = previews[p]
  OBVIOUS
<1>1. /\ v.base \in Nat /\ v.to \in Nat /\ v.to <= heads[SyncLibrary]
      /\ Between(v.base, v.to) \subseteq v.ops
  BY DEF ServiceInv, PreviewRow, OpsInv, OpsRow, FewDue, Stored
<1>2. heads[SyncLibrary] \in Nat /\ Numbered(revisions, SyncLibrary, 0, heads[SyncLibrary])
  BY SyncAssumption DEF LogInv, TypeOK, Committed
<1>3. ASSUME NEW n \in v.base + 1 .. v.to PROVE n \in Clocks(v.ops)
  <2>1. n \in Nat /\ 0 < n /\ n <= heads[SyncLibrary] /\ v.base < n /\ n <= v.to
    BY <1>1, <1>2
  <2>2. PICK r \in revisions : r.library = SyncLibrary /\ r.clock = n
    BY <1>2, <2>1 DEF Numbered
  <2>3. r \in Between(v.base, v.to)
    BY <2>1, <2>2 DEF Between, LogOf
  <2> QED
    BY <1>1, <2>2, <2>3 DEF Clocks
<1> QED
  BY <1>3

(* The answer to an apply takes a client no further than it knows. *)
LEMMA DeliverKnows ==
  ASSUME ServiceInv, TypesInv, SkipInv, NEW p, PreviewType(previews[p]),
         previews[p].base \in Nat, previews[p].to \in Nat,
         Knows(clients, previews[p].client, previews[p].base),
         previews[p].base + 1 .. previews[p].to \subseteq Clocks(previews[p].ops),
         NEW result, result.newClock \in Nat,
         previews[p].to + 1 .. result.newClock \subseteq result.own,
         Deliver(p, result) \/ UNCHANGED clients
  PROVE  \A c \in Client : /\ clients[c].got \subseteq clients'[c].got
                           /\ \A a \in clients'[c].at : Knows(clients', c, a)
<1>1. CASE UNCHANGED clients
  BY <1>1 DEF SkipInv
<1>2. CASE Deliver(p, result)
  <2>1. PICK v : v = previews[p]
    OBVIOUS
  <2>2. PICK d \in Client : d = v.client
    BY <2>1 DEF PreviewType
  <2>3. PICK got : got = Clocks(v.ops) \cup result.own
    OBVIOUS
  <2>4. /\ clients'[d].at = clients[d].at \cup {result.newClock}
        /\ clients'[d].got = clients[d].got \cup got
        /\ \A c \in Client \ {d} : clients'[c] = clients[c]
    BY <1>2, <2>1, <2>2, <2>3 DEF Deliver, ServiceInv
  <2>5. 1 .. result.newClock \subseteq clients'[d].got
    <3>1. /\ 1 .. v.base \subseteq clients[d].got
          /\ v.base + 1 .. v.to \subseteq got /\ v.to + 1 .. result.newClock \subseteq got
      BY <2>1, <2>2, <2>3 DEF Knows
    <3>2. v.base \in Nat /\ v.to \in Nat
      BY <2>1
    <3>3. \A n \in 1 .. result.newClock :
             n \in 1 .. v.base \/ n \in v.base + 1 .. v.to \/ n \in v.to + 1 .. result.newClock
      BY <3>2
    <3> QED
      BY <2>4, <3>1, <3>3
  <2>6. \A c \in Client : clients[c].got \subseteq clients'[c].got
    BY <2>4
  <2>7. ASSUME NEW c \in Client, NEW a \in clients'[c].at PROVE Knows(clients', c, a)
    <3>1. CASE c = d /\ a = result.newClock
      BY <2>5, <3>1 DEF Knows
    <3>2. CASE a \in clients[c].at
      BY <2>6, <3>2 DEF SkipInv, Knows
    <3> QED
      BY <2>4, <2>7, <3>1, <3>2
  <2> QED
    BY <2>6, <2>7
<1> QED
  BY <1>1, <1>2

(* What a step must show. *)
LEMMA SkipStep ==
  ASSUME SkipInv, TypesInv',
         \A c \in Client : /\ clients[c].got \subseteq clients'[c].got
                           /\ \A a \in clients'[c].at : Knows(clients', c, a),
         \A c \in Client : \/ cursors'[c] = None \/ cursors'[c] = cursors[c]
                           \/ Knows(clients, c, cursors'[c]),
         \A p \in Preview : previews'[p] = previews[p] \/ SkipRow(previews'[p], clients),
         \A t \in Txn : calls'[t] = None \/ SkipCall(calls'[t], previews', clients)
  PROVE  SkipInv'
<1>1. ASSUME NEW c \in Client, NEW n, Knows(clients, c, n) PROVE Knows(clients', c, n)
  BY <1>1 DEF Knows
<1>2. ASSUME NEW v, v.client \in Client, SkipRow(v, clients) PROVE SkipRow(v, clients')
  BY <1>1, <1>2 DEF SkipRow
<1>3. \A p \in Preview : previews'[p] = None \/ SkipRow(previews'[p], clients')
  BY <1>2 DEF SkipInv, TypesInv, PreviewType
<1>4. ASSUME NEW t \in Txn, calls'[t] # None PROVE SkipCall(calls'[t], previews', clients')
  <2>1. PICK k : k = calls'[t]
    OBVIOUS
  <2>2. SkipCall(k, previews', clients) /\ CallType(k, previews')
    BY <1>4, <2>1 DEF TypesInv
  <2>3. SkipCall(k, previews', clients')
    BY <1>1, <1>2, <2>2 DEF SkipCall, CallType, PreviewType
  <2> QED
    BY <2>1, <2>3
<1>5. \A c \in Client : cursors'[c] # None => Knows(clients', c, cursors'[c])
  BY <1>1 DEF SkipInv
<1> QED
  BY <1>3, <1>4, <1>5 DEF SkipInv

(* The clocks an apply that runs alone has made reach to its new clock. *)
LEMMA OwnReachesNewClock ==
  ASSUME LogInv, MapInv, FollowInv, NEW t \in Txn, Serves(t, "apply"),
         NEW v, v = previews[calls[t].preview]
  PROVE  v.to + 1 .. VisibleHead(t, SyncLibrary) \subseteq Clocks(pending[t])
<1> USE SyncAssumption
<1> DEFINE own == claim[t][SyncLibrary]
<1>1. v.to = heads[SyncLibrary] /\ heads[SyncLibrary] \in Nat
  BY DEF FollowInv, LogInv, TypeOK
<1>2. HeadLockInv
  BY PointwiseClockInv DEF LogInv
<1>3. {r.clock : r \in LogOf(pending[t], SyncLibrary)} = v.to + 1 .. own
  BY <1>1, <1>2 DEF HeadLockInv
<1>4. LogOf(pending[t], SyncLibrary) = pending[t]
  BY DEF MapInv, ApplyInv, MadeOK, LogOf
<1>5. CASE own > 0
  BY <1>3, <1>4, <1>5 DEF VisibleHead, Clocks
<1>6. CASE ~(own > 0)
  BY <1>1, <1>6 DEF VisibleHead
<1> QED
  BY <1>5, <1>6

LEMMA SkipNext ==
  ASSUME OneConnection, LogInv, ServiceInv, OpsInv, MapInv, TypesInv, TypesInv', FollowInv, FewDue,
         SkipInv, [SyncNext]_allVars
  PROVE  SkipInv'
<1>1. ASSUME UNCHANGED <<previews, clients>>,
             \A c \in Client : \/ cursors'[c] = None \/ cursors'[c] = cursors[c]
                               \/ Knows(clients, c, cursors'[c]),
             \A t \in Txn : \/ calls'[t] = None \/ calls'[t] = calls[t]
                            \/ SkipCall(calls'[t], previews, clients)
      PROVE  SkipInv'
  <2>1. \A t \in Txn : calls'[t] = None \/ SkipCall(calls'[t], previews', clients)
    BY <1>1 DEF SkipInv
  <2>2. \A c \in Client : \A a \in clients'[c].at : Knows(clients', c, a)
    BY <1>1 DEF SkipInv
  <2> QED
    BY <1>1, <2>1, <2>2, SkipStep
<1>2. ASSUME NEW p \in Preview, Expire(p) PROVE SkipInv'
  <2>1. /\ UNCHANGED <<calls, cursors, clients>> /\ previews[p] # None
        /\ previews' = [previews EXCEPT ![p].late = TRUE]
    BY <1>2 DEF Expire
  <2>2. PICK v : v = previews[p]
    OBVIOUS
  <2>3. SkipRow(v, clients) /\ PreviewRow(v, heads[SyncLibrary])
    BY <2>1, <2>2 DEF SkipInv, ServiceInv
  <2>4. PICK w : w = previews'[p]
    OBVIOUS
  <2>5. /\ w.client = v.client /\ w.base = v.base /\ w.to = v.to /\ w.ops = v.ops
        /\ w.status = v.status /\ w.result = v.result
        /\ \A q \in Preview \ {p} : previews'[q] = previews[q]
    BY <2>1, <2>2, <2>3, <2>4 DEF PreviewRow, ServiceInv
  <2>6. SkipRow(w, clients)
    BY <2>3, <2>5 DEF SkipRow
  <2>7. ASSUME NEW t \in Txn, calls[t] # None PROVE SkipCall(calls[t], previews', clients)
    <3>1. PICK k : k = calls[t]
      OBVIOUS
    <3>2. SkipCall(k, previews, clients) /\ (k.call = "apply" => k.preview \in Preview)
      BY <2>7, <3>1 DEF SkipInv, ServiceInv, CallRow
    <3>3. SkipCall(k, previews', clients)
      <4>1. CASE k.call = "apply" /\ k.preview = p
        BY <2>2, <2>4, <2>5, <2>6, <3>2, <4>1 DEF SkipCall
      <4>2. CASE ~(k.call = "apply" /\ k.preview = p)
        BY <2>5, <3>2, <4>2 DEF SkipCall
      <4> QED
        BY <4>1, <4>2
    <3> QED
      BY <3>1, <3>3
  <2>8. \A c \in Client : \A a \in clients'[c].at : Knows(clients', c, a)
    BY <2>1 DEF SkipInv
  <2> QED
    BY <2>1, <2>4, <2>5, <2>6, <2>7, <2>8, SkipStep
<1>3. ASSUME NEW t \in Txn, NEW c \in Client, NEW base \in clients[c].at, NEW list,
             StartPreview(t, c, base, list)
      PROVE  SkipInv'
  <2> DEFINE k == [call |-> "preview", client |-> c, base |-> base,
                   to |-> heads[SyncLibrary], todo |-> list]
  <2>1. calls' = [calls EXCEPT ![t] = k] /\ UNCHANGED <<previews, cursors, clients>>
    BY <1>3 DEF StartPreview, Calling
  <2>2. SkipCall(k, previews, clients)
    BY DEF SkipCall, SkipInv
  <2> HIDE DEF k
  <2> QED
    BY <1>1, <2>1, <2>2 DEF ServiceInv
<1>4. ASSUME NEW t \in Txn, NEW p \in Preview, FinishPreview(t, p) PROVE SkipInv'
  <2>1. PICK k : k = calls[t]
    OBVIOUS
  <2>2. /\ UNCHANGED <<cursors, clients>> /\ k # None /\ k.call = "preview"
        /\ calls' = [calls EXCEPT ![t] = None]
        /\ previews'[p].client = k.client /\ previews'[p].base = k.base
        /\ previews'[p].status # "applied"
        /\ \A q \in Preview \ {p} : previews'[q] = previews[q]
    BY <1>4, <2>1 DEF FinishPreview, Serves, Calling, ServiceInv
  <2>3. Knows(clients, k.client, k.base)
    BY <2>1, <2>2 DEF SkipInv, SkipCall
  <2>4. SkipRow(previews'[p], clients)
    BY <2>2, <2>3 DEF SkipRow
  <2>5. \A u \in Txn : calls'[u] = None
    BY <2>2 DEF ServiceInv, OneConnection
  <2>6. \A c \in Client : \A a \in clients'[c].at : Knows(clients', c, a)
    BY <2>2 DEF SkipInv
  <2> QED
    BY <2>2, <2>4, <2>5, <2>6, SkipStep
<1>5. ASSUME NEW t \in Txn, NEW p \in Preview, StartApply(t, p) PROVE SkipInv'
  <2> DEFINE k == [call |-> "apply", client |-> previews[p].client, preview |-> p,
                   todo |-> previews[p].accepted, made |-> {}]
  <2>1. /\ calls' = [calls EXCEPT ![t] = k] /\ UNCHANGED <<previews, cursors, clients>>
        /\ previews[p] # None
    BY <1>5 DEF StartApply, Calling
  <2>2. k.call = "apply" /\ k.preview = p
    OBVIOUS
  <2> HIDE DEF k
  <2>3. SkipRow(previews[p], clients)
        /\ previews[p].base + 1 .. previews[p].to \subseteq Clocks(previews[p].ops)
    BY <2>1, CarriesClocks DEF SkipInv
  <2>4. SkipCall(k, previews, clients)
    BY <2>2, <2>3 DEF SkipCall
  <2> QED
    BY <1>1, <2>1, <2>4 DEF ServiceInv
<1>6. ASSUME NEW t \in Txn, NEW p \in Preview, ReplayApply(t, p) PROVE SkipInv'
  <2>1. /\ UNCHANGED <<previews, cursors, calls>> /\ previews[p] # None
        /\ previews[p].status = "applied" /\ Deliver(p, previews[p].result)
        /\ calls[t] = None
    BY <1>6 DEF ReplayApply, Free
  <2>2. PICK v : v = previews[p]
    OBVIOUS
  <2>3. PreviewType(v) /\ SkipRow(v, clients) /\ PreviewRow(v, heads[SyncLibrary])
    BY <2>1, <2>2 DEF TypesInv, SkipInv, ServiceInv
  <2>4. v.base + 1 .. v.to \subseteq Clocks(v.ops)
    BY <2>1, <2>2, CarriesClocks
  <2>5. \A c \in Client : /\ clients[c].got \subseteq clients'[c].got
                          /\ \A a \in clients'[c].at : Knows(clients', c, a)
    BY <2>1, <2>2, <2>3, <2>4, DeliverKnows DEF SkipRow, PreviewRow
  <2>6. \A u \in Txn : calls'[u] = None
    BY <2>1 DEF OneConnection
  <2> QED
    BY <2>1, <2>5, <2>6, SkipStep
<1>7. ASSUME NEW t \in Txn, ApplyLog(t) PROVE SkipInv'
  <2>1. PICK k : k = calls[t]
    OBVIOUS
  <2>2. /\ UNCHANGED <<previews, cursors, clients>> /\ Serves(t, "apply")
        /\ k # None /\ k.call = "apply"
        /\ \E todo, made : calls' = [calls EXCEPT ![t] = [k EXCEPT !.todo = todo, !.made = made]]
    BY <1>7, <2>1 DEF ApplyLog, Serves, Calling
  <2>3. k = [call |-> "apply", client |-> k.client, preview |-> k.preview,
             todo |-> k.todo, made |-> k.made]
    BY <2>1, <2>2 DEF ServiceInv, CallRow
  <2>4. PICK next : next.call = "apply" /\ next.preview = k.preview /\ calls' = [calls EXCEPT ![t] = next]
    BY <2>2, <2>3
  <2>5. SkipCall(k, previews, clients)
    BY <2>1, <2>2 DEF SkipInv
  <2>6. SkipCall(next, previews, clients)
    BY <2>2, <2>4, <2>5 DEF SkipCall
  <2> QED
    BY <1>1, <2>2, <2>4, <2>6 DEF ServiceInv
<1>8. ASSUME NEW t \in Txn, FinishApply(t) PROVE SkipInv'
  <2>1. PICK k : k = calls[t]
    OBVIOUS
  <2>2. PICK p : p = k.preview
    OBVIOUS
  <2>3. PICK v : v = previews[p]
    OBVIOUS
  <2> DEFINE result == [newClock |-> VisibleHead(t, SyncLibrary), own |-> Clocks(pending[t])]
  <2>4. /\ Serves(t, "apply") /\ UNCHANGED cursors /\ calls' = [calls EXCEPT ![t] = None]
        /\ \E logged : previews' = [previews EXCEPT ![p].status = "applied", ![p].result = result,
                                                    ![p].logged = logged]
        /\ Deliver(p, result) \/ UNCHANGED clients
    <3>1. /\ Serves(t, "apply") /\ UNCHANGED cursors /\ calls' = [calls EXCEPT ![t] = None]
          /\ previews' = [previews EXCEPT ![p].status = "applied", ![p].result = result,
                                          ![p].logged = @ \cup Clocks(pending[t])]
          /\ Deliver(p, result) \/ UNCHANGED clients
      BY <1>8, <2>1, <2>2 DEF FinishApply, Calling
    <3>2. p \in Preview /\ PreviewRow(v, heads[SyncLibrary])
      BY <2>1, <2>2, <2>3, <3>1 DEF ServiceInv, CallRow, Serves
    <3>3. PICK logged : logged = v.logged \cup Clocks(pending[t])
      OBVIOUS
    <3> HIDE DEF result
    <3>4. previews' = [previews EXCEPT ![p].status = "applied", ![p].result = result,
                                       ![p].logged = logged]
      BY <2>3, <3>1, <3>2, <3>3 DEF ServiceInv
    <3> QED
      BY <3>1, <3>4
  <2>5. /\ p \in Preview /\ PreviewRow(v, heads[SyncLibrary]) /\ PreviewType(v)
        /\ SkipRow(v, clients) /\ v.base + 1 .. v.to \subseteq Clocks(v.ops)
    BY <2>1, <2>2, <2>3, <2>4 DEF ServiceInv, CallRow, Serves, TypesInv, CallType, SkipInv, SkipCall
  <2>6. /\ result.newClock = VisibleHead(t, SyncLibrary) /\ result.own = Clocks(pending[t])
        /\ result.newClock \in Nat
    BY SyncAssumption DEF VisibleHead, LogInv, TypeOK
  <2>7. v.to + 1 .. result.newClock \subseteq result.own
    BY <2>1, <2>2, <2>3, <2>4, <2>6, OwnReachesNewClock
  <2> HIDE DEF result
  <2>8. \A c \in Client : /\ clients[c].got \subseteq clients'[c].got
                          /\ \A a \in clients'[c].at : Knows(clients', c, a)
    BY <2>3, <2>4, <2>5, <2>6, <2>7, DeliverKnows DEF SkipRow, PreviewRow
  <2>9. PICK w : w = previews'[p]
    OBVIOUS
  <2>10. /\ w.client = v.client /\ w.base = v.base /\ w.to = v.to
         /\ w.result = result
         /\ \A q \in Preview \ {p} : previews'[q] = previews[q]
    <3>1. PICK logged : previews' = [previews EXCEPT ![p].status = "applied", ![p].result = result,
                                                    ![p].logged = logged]
      BY <2>4
    <3>2. /\ w = [v EXCEPT !.status = "applied", !.result = result, !.logged = logged]
          /\ \A q \in Preview \ {p} : previews'[q] = previews[q]
      BY <2>3, <2>5, <2>9, <3>1 DEF ServiceInv
    <3> QED
      BY <2>5, <3>2 DEF PreviewRow
  <2>11. SkipRow(w, clients)
    BY <2>5, <2>7, <2>10 DEF SkipRow
  <2>12. \A u \in Txn : calls'[u] = None
    BY <2>4 DEF ServiceInv, OneConnection
  <2> QED
    BY <2>4, <2>8, <2>9, <2>10, <2>11, <2>12, SkipStep
<1>9. ASSUME NEW t \in Txn, NEW c \in Client, NEW clock \in clients[c].at, StartAck(t, c, clock)
      PROVE  SkipInv'
  <2> DEFINE k == [call |-> "ack", client |-> c, clock |-> clock, read |-> cursors[c]]
  <2>1. calls' = [calls EXCEPT ![t] = k] /\ UNCHANGED <<previews, cursors, clients>>
    BY <1>9 DEF StartAck, Calling
  <2>2. SkipCall(k, previews, clients)
    BY DEF SkipCall, SkipInv
  <2> HIDE DEF k
  <2> QED
    BY <1>1, <2>1, <2>2 DEF ServiceInv
<1>10. ASSUME NEW t \in Txn, FinishAck(t) PROVE SkipInv'
  <2>1. PICK k : k = calls[t]
    OBVIOUS
  <2>2. /\ UNCHANGED <<previews, clients>> /\ calls' = [calls EXCEPT ![t] = None]
        /\ cursors' = cursors \/ cursors' = [cursors EXCEPT ![k.client] = k.clock]
        /\ SkipCall(k, previews, clients) /\ k.call = "ack"
    BY <1>10, <2>1 DEF FinishAck, Calling, Serves, SkipInv
  <2>3. \A c \in Client : cursors'[c] = cursors[c] \/ Knows(clients, c, cursors'[c])
    BY <2>2 DEF SkipCall, TypesInv
  <2> QED
    BY <1>1, <2>2, <2>3 DEF ServiceInv
<1>11. ASSUME NEW t \in Txn, FailCall(t) PROVE SkipInv'
  BY <1>1, <1>11 DEF FailCall, Calling, ServiceInv
<1>12. ASSUME NEW t \in Txn, Dashboard(t) \/ ApplyMutation(t) \/ ApplyWrite(t) PROVE SkipInv'
  BY <1>1, <1>12 DEF Dashboard, ApplyMutation, ApplyWrite, syncVars
<1>13. CASE UNCHANGED allVars
  BY <1>1, <1>13 DEF allVars, syncVars
<1> QED
  BY <1>2, <1>3, <1>4, <1>5, <1>6, <1>7, <1>8, <1>9, <1>10, <1>11, <1>12, <1>13 DEF SyncNext

(* Where requests run one at a time and no preview has more due than it can *)
(* carry, a client never acknowledges a position below which there is a     *)
(* revision it was neither handed nor made, whatever answers are lost,      *)
(* repeated or late.                                                       *)
THEOREM SerialCursorsSkipNothing ==
  ASSUME OneConnection
  PROVE  SyncSpec /\ []FewDue => []NoSkippedRevision
<1> DEFINE Inv == LogInv /\ ServiceInv /\ OpsInv /\ MapInv /\ TypesInv /\ FollowInv /\ SkipInv
<1>1. SyncInit => Inv
  <2>1. SyncInit => FollowInv
    BY DEF SyncInit, FollowInv, Serves
  <2> QED
    BY <2>1, LogInvInit, ServiceInit, OpsInit, MapInit, TypesInit, SkipInit
<1>2. Inv /\ FewDue /\ [SyncNext]_allVars => Inv'
  BY StoreSteps, LogInvNext, ServiceNext, OpsNext, MapNext, TypesNext, FollowNext, SkipNext
  DEF OneConnection
<1>3. Inv => NoSkippedRevision
  BY DEF SkipInv, Knows, NoSkippedRevision
<1> QED
  BY <1>1, <1>2, <1>3, PTL DEF SyncSpec

-----------------------------------------------------------------------------
(* The tree where requests run one at a time. *)

(* The library begins with its root and a folder in it. *)
LEMMA SyncTreeInit == SyncInit => StoredAcyclic /\ \A t \in Txn : PlacedInv(t) /\ AcyclicInv(t)
<1> SUFFICES ASSUME SyncInit PROVE StoredAcyclic /\ \A t \in Txn : PlacedInv(t) /\ AcyclicInv(t)
  OBVIOUS
<1> USE ConstantsAssumption, SyncAssumption
<1>1. PICK row, child : row = Folder(None) /\ child = Folder(Root)
  OBVIOUS
<1>2. /\ row \in Row /\ row.parent = None /\ ~row.deleted
      /\ child \in Row /\ child.parent = Root
  BY <1>1 DEF Folder, Row
<1>3. PICK first, second :
        /\ first = [library |-> SyncLibrary, clock |-> 1, op |-> "library.create",
                    node |-> Root, row |-> row]
        /\ second = [library |-> SyncLibrary, clock |-> 2, op |-> "node.create",
                     node |-> Shared, row |-> child]
  OBVIOUS
<1>4. /\ first.library = SyncLibrary /\ first.clock = 1 /\ first.op = "library.create"
      /\ first.node = Root /\ first.row = row
      /\ second.library = SyncLibrary /\ second.clock = 2 /\ second.node = Shared
      /\ second.row = child
  BY <1>3
<1>5. /\ nodes = [n \in Node |-> IF n = Root THEN row ELSE IF n = Shared THEN child ELSE None]
      /\ revisions = {first, second}
      /\ phase = [t \in Txn |-> "idle"] /\ draft = [t \in Txn |-> NoDraft]
      /\ pending = [t \in Txn |-> {}]
  BY <1>1, <1>3 DEF SyncInit, Head0
<1>6. StoredAcyclic
  <2> SUFFICES ASSUME NEW S \in SUBSET {m \in Node : nodes[m] # None}, S # {}
               PROVE  \E m \in S : nodes[m].parent \notin S
    BY DEF StoredAcyclic
  <2>1. CASE Root \in S
    BY <1>2, <1>5, <2>1
  <2>2. CASE Root \notin S
    BY <1>2, <1>5, <2>2
  <2> QED
    BY <2>1, <2>2
<1>7. ASSUME NEW t \in Txn PROVE PlacedInv(t)
  <2>1. History(t) = {first, second}
    BY <1>5 DEF History
  <2>2. PlacedAt({first, second}, second)
    BY <1>2, <1>4 DEF PlacedAt
  <2> QED
    BY <1>4, <1>5, <2>1, <2>2 DEF PlacedInv, Places
<1>8. ASSUME NEW t \in Txn PROVE AcyclicInv(t)
  <2>1. \A m \in Node : Visible(t, m) = nodes[m]
    BY <1>5 DEF Visible, NoDraft
  <2> QED
    BY <1>5, <1>6, <2>1 DEF AcyclicInv, StoredAcyclic, SeenAcyclic
<1> QED
  BY <1>6, <1>7, <1>8

(* Whatever applies and dashboard requests follow each other, a node is     *)
(* only ever created in or moved to a folder that is live at that point.   *)
THEOREM SyncPlacesUnderLive ==
  ASSUME OneConnection
  PROVE  SyncSpec => []PlacedUnderLiveFolder
<1> DEFINE Inv == /\ LogInv /\ ServiceInv /\ ShapeInv /\ \A t \in Txn : PlacedInv(t)
                  /\ Txn = {} => PlacedUnderLiveFolder
<1>1. SyncInit => Inv
  <2> SUFFICES ASSUME SyncInit, Txn = {} PROVE PlacedUnderLiveFolder
    BY LogInvInit, ServiceInit, SyncShapeInit, SyncTreeInit
  <2> USE ConstantsAssumption, SyncAssumption
  <2>1. Folder(None).deleted = FALSE /\ Folder(Root).parent = Root
    BY DEF Folder
  <2> QED
    BY <2>1 DEF SyncInit, Head0, PlacedUnderLiveFolder
<1>2. Inv /\ [SyncNext]_allVars => Inv'
  <2> SUFFICES ASSUME Inv, [SyncNext]_allVars PROVE Inv'
    OBVIOUS
  <2>1. [Next]_vars
    BY StoreSteps
  <2>2. (LogInv /\ ServiceInv /\ ShapeInv)' /\ \A t \in Txn : PlacedInv(t)'
    BY <2>1, LogInvNext, ServiceNext, ShapeNext, PlacedNext DEF OneConnection, Serial
  <2>3. Txn = {} => UNCHANGED revisions
    BY <2>1 DEF Next, vars
  <2> QED
    BY <2>2, <2>3 DEF PlacedUnderLiveFolder
<1>3. Inv => PlacedUnderLiveFolder
  BY PlacedShows
<1> QED
  BY <1>1, <1>2, <1>3, PTL DEF SyncSpec

(* Nor does any such sequence make a node its own ancestor. *)
THEOREM SyncKeepsTree ==
  ASSUME OneConnection
  PROVE  SyncSpec => []MoveDoesNotCreateCycles
<1> DEFINE Inv == /\ LogInv /\ ServiceInv /\ ShapeInv /\ StoredAcyclic
                  /\ \A t \in Txn : AcyclicInv(t)
<1>1. SyncInit => Inv
  BY LogInvInit, ServiceInit, SyncShapeInit, SyncTreeInit
<1>2. Inv /\ [SyncNext]_allVars => Inv'
  <2> SUFFICES ASSUME Inv, [SyncNext]_allVars PROVE Inv'
    OBVIOUS
  <2>1. [Next]_vars
    BY StoreSteps
  <2>2. (LogInv /\ ServiceInv /\ ShapeInv)' /\ \A t \in Txn : AcyclicInv(t)'
    BY <2>1, LogInvNext, ServiceNext, ShapeNext, AcyclicNext DEF OneConnection, Serial
  <2>3. CASE Txn = {}
    BY <2>1, <2>2, <2>3 DEF Next, vars, StoredAcyclic
  <2>4. CASE Txn # {}
    BY <2>2, <2>4 DEF AcyclicInv
  <2> QED
    BY <2>2, <2>3, <2>4
<1>3. Inv => MoveDoesNotCreateCycles
  BY DEF MoveDoesNotCreateCycles, StoredAcyclic
<1> QED
  BY <1>1, <1>2, <1>3, PTL DEF SyncSpec
=============================================================================
