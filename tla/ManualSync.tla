------------------------------ MODULE ManualSync ------------------------------
(***************************************************************************)
(* runManualSync of packages/amagi-sync-client with the bookmarks adapter  *)
(* of packages/amagi-webext: a browser client compares its tree with the   *)
(* one it last saw, has the server preview the difference, applies the     *)
(* preview, performs the server's revisions in the browser, acknowledges   *)
(* the new clock and saves its state.  The user edits the bookmarks, the   *)
(* dashboard writes to the library, calls fail and the background script   *)
(* is stopped between any two awaits.                                      *)
(*                                                                         *)
(* The server's side of preview, apply and ack is one step each here; that *)
(* their transactions behave so is SyncServer's subject.  Every node is a  *)
(* folder, title stands for a node's content, positions are left out.      *)
(***************************************************************************)
EXTENDS Integers, SequencesExt

CONSTANTS
  None,
  Node, Root,      \* server nodes, and the root of the library
  MaxExt,          \* browser ids are 0 .. MaxExt, 0 the bookmarks bar
  Title,
  Run,             \* runs that may be under way at the same time
  Start,           \* the clock the client stands at: 0, or 1 past library.create
  FirstCursor,     \* what its stored state says of that: Start or None
  DashboardOps,    \* the operations of dashboard requests
  MaxClock,        \* bound: the library is not written past this clock
  MaxEdits,        \* bound: the user edits so many times
  OpsLimit         \* server ops in a preview: 500

NodeOp == {"node.create", "node.update", "node.move", "node.delete", "node.restore"}

Ext == 0 .. MaxExt
Bar == 0

ASSUME ManualSyncAssumption ==
  /\ Root \in Node /\ None \notin Node \cup Nat \cup {"user"} /\ Title # {}
  /\ MaxExt \in Nat
  /\ Start \in 0 .. 1 /\ FirstCursor \in {None, Start}
  /\ DashboardOps \subseteq NodeOp
  /\ MaxClock \in Nat \ {0} /\ MaxEdits \in Nat /\ OpsLimit \in Nat \ {0}

VARIABLES
  log,     \* the library's revisions by clock, each with the row it left
  bound,   \* node_client_mappings: the server node of a browser id
  ack,     \* sync_cursors: the acknowledged clock
  tree,    \* the browser's bookmarks
  disk,    \* the stored SyncState
  run,     \* what a run holds in memory
  origin,  \* where a browser id came from: None unused, "user", or the server node
  have,    \* clocks of the revisions that were performed in, or came from, the browser
  steady,  \* the user has never edited between the two loads of a run
  edits    \* how often the user has edited

vars == <<log, bound, ack, tree, disk, run, origin, have, steady, edits>>

Row    == [parent : Node \cup {None}, title : Title, deleted : BOOLEAN]
Revision == [op : NodeOp \cup {"library.create"}, node : Node, row : Row]
Leaf   == [parent : Ext \cup {None}, title : Title]
ASSUME RecordAssumption == None \notin Row \cup Leaf

Status == {"idle", "synced", "needs-user-resolution", "awaiting-confirmation", "recovery-required"}

OneTitle == CHOOSE x \in Title : TRUE

(* The library has just been created; the browser is empty but for its bar, *)
(* which is bound to the library's root, as in orchestrator.test.ts.       *)
Init ==
  /\ log = <<[op |-> "library.create", node |-> Root,
              row |-> [parent |-> None, title |-> OneTitle, deleted |-> FALSE]]>>
  /\ bound = [e \in Ext |-> IF e = Bar THEN Root ELSE None]
  /\ ack = IF Start = 0 THEN None ELSE Start
  /\ tree = [e \in Ext |-> IF e = Bar THEN [parent |-> None, title |-> OneTitle] ELSE None]
  /\ disk = [cursor |-> FirstCursor, map |-> bound, known |-> tree, status |-> "idle"]
  /\ run = [r \in Run |-> None]
  /\ origin = [e \in Ext |-> IF e = Bar THEN Root ELSE None]
  /\ have = 1 .. Start
  /\ steady = TRUE
  /\ edits = 0

-----------------------------------------------------------------------------
(* Trees. *)

There(t) == {e \in Ext : t[e] # None}

(* e, its parent, and so on; None above the bar. *)
Chain(t, e) ==
  LET up[i \in 0 .. MaxExt + 1] ==
        IF i = 0 THEN e ELSE IF up[i - 1] = None THEN None ELSE t[up[i - 1]].parent
  IN {up[i] : i \in 0 .. MaxExt + 1} \ {None}

Subtree(t, e) == {d \in There(t) : e \in Chain(t, d)}

(* The row of a server node at a clock: that of its last revision. *)
RowAt(lg, n) ==
  LET at == {c \in DOMAIN lg : lg[c].node = n} IN
  IF at = {} THEN None ELSE lg[CHOOSE c \in at : \A d \in at : d <= c].row

Live(lg, n) == RowAt(lg, n) # None /\ ~RowAt(lg, n).deleted

(* n and the nodes above it, as far as Cardinality(Node) steps lead. *)
Lineage(lg, n) ==
  LET up[i \in 0 .. Cardinality(Node)] ==
        IF i = 0 THEN n ELSE IF up[i - 1] = None THEN None ELSE RowAt(lg, up[i - 1]).parent
  IN {up[i] : i \in 0 .. Cardinality(Node)} \ {None}

(* What a reader of the library's tree sees at the end of lg. *)
Shown(lg) == {n \in Node : RowAt(lg, n) # None /\ \A m \in Lineage(lg, n) : Live(lg, m)}

-----------------------------------------------------------------------------
(* The server. *)

(* The log after one bookmark operation, <<>> when its checks fail.        *)
Written(lg, op, n, p, title) ==
  LET old == RowAt(lg, n)
      new == CASE op = "node.create" -> [parent |-> p, title |-> title, deleted |-> FALSE]
               [] op = "node.update" -> [old EXCEPT !.title = title]
               [] op = "node.move"   -> [old EXCEPT !.parent = p]
               [] OTHER              -> [old EXCEPT !.deleted = op = "node.delete"]
      allowed ==
        /\ IF op = "node.create" THEN old = None ELSE old # None /\ n # Root
        /\ op \in {"node.create", "node.move"} => Live(lg, p)
        /\ op = "node.move" => n \notin Lineage(lg, p)
  IN IF allowed THEN Append(lg, [op |-> op, node |-> n, row |-> new]) ELSE <<>>

Dashboard ==
  /\ Len(log) < MaxClock
  /\ \E op \in DashboardOps, n, p \in Node, title \in Title :
       /\ op \notin {"node.create", "node.move"} => p = Root
       /\ op # "node.update" => title = OneTitle
       /\ Written(log, op, n, p, title) # <<>>
       /\ log' = Written(log, op, n, p, title)
  /\ UNCHANGED <<bound, ack, tree, disk, run, origin, have, steady, edits>>

(* accept_local_mutation: a parent given by server id or through the        *)
(* client's mapping, a target the mapping does not contradict.             *)
ParentOf(m) == IF m.parent # None THEN m.parent ELSE bound[m.parentExt]

Refused(m) ==
  \/ m.op \in {"create", "move"} /\ ParentOf(m) # None /\ ~Live(log, ParentOf(m))
  \/ m.op = "create" /\ ParentOf(m) # None /\ bound[m.ext] # None
  \/ m.op # "create" /\ bound[m.ext] \notin {None, m.node}

MappingMissing(m) == m.op \in {"create", "move"} /\ ParentOf(m) = None

(* The log after one accepted mutation, <<>> when it fails; a create takes  *)
(* an id that is not in the log, if one is left.                           *)
Unused(lg) == {n \in Node : RowAt(lg, n) = None}
AfterOne(lg, m) ==
  IF lg = <<>> \/ (m.op = "create" /\ Unused(lg) = {}) THEN <<>>
  ELSE Written(lg, CASE m.op = "create" -> "node.create" [] m.op = "update" -> "node.update"
                     [] m.op = "move" -> "node.move" [] OTHER -> "node.delete",
               IF m.op = "create" THEN CHOOSE n \in Unused(lg) : TRUE ELSE m.node,
               IF m.op \in {"create", "move"} THEN ParentOf(m) ELSE None, m.title)

(* The accepted mutations one after the other. *)
AfterApply(accepted) ==
  LET after[i \in 0 .. Len(accepted)] ==
        IF i = 0 THEN log ELSE AfterOne(after[i - 1], accepted[i])
  IN after[Len(accepted)]

-----------------------------------------------------------------------------
(* The client's pure parts. *)

(* buildLocalMutations: what the browser has that is not mapped, mapped     *)
(* nodes that differ from the last known tree, known ones that are gone.   *)
Fill(t, map, op, e) == [op |-> op, ext |-> e, node |-> map[e], parent |-> None,
                        parentExt |-> None, title |-> IF t[e] = None THEN None ELSE t[e].title]
Placed(t, map, op, e) == [Fill(t, map, op, e) EXCEPT
  !.parent = map[t[e].parent], !.parentExt = IF map[t[e].parent] = None THEN t[e].parent ELSE None]

Changes(t, map, old) ==
  LET now  == There(t) \ {Bar}
      both == {e \in now : map[e] # None /\ old[e] # None}
  IN  {Placed(t, map, "create", e) : e \in {d \in now : map[d] = None}}
   \cup {Fill(t, map, "update", e) : e \in {d \in both : t[d].title # old[d].title}}
   \cup {Placed(t, map, "move", e) : e \in {d \in both : t[d].parent # old[d].parent}}
   \cup {Fill(t, map, "delete", e) : e \in {d \in There(old) \ There(t) : map[d] # None}}

(* Both trees are walked depth first, so a folder comes before what is in   *)
(* it and nothing from outside comes between; deletes come last, an update  *)
(* before a move.                                                          *)
Walked(t, old, list) ==
  LET Path(i)  == Chain(IF list[i].op = "delete" THEN old ELSE t, list[i].ext)
      Phase(i) == list[i].op = "delete"
  IN \A i, j \in DOMAIN list : i < j =>
       /\ Phase(i) => Phase(j)
       /\ IF list[i].ext = list[j].ext THEN list[i].op = "update"
          ELSE Phase(i) = Phase(j) => list[j].ext \notin Path(i)
       /\ \A k \in DOMAIN list :
            j < k /\ Phase(i) = Phase(k) => Path(i) \cap Path(k) \subseteq Path(j)

(* The lists it may return: siblings come in the order of their positions,  *)
(* which are left out.                                                     *)
Mutations(t, state) ==
  LET all == Changes(t, state.map, state.known) IN
  {list \in [1 .. Cardinality(all) -> all] : ToSet(list) = all /\ Walked(t, state.known, list)}

(* toReverseMapping: of several browser ids of a node the newest wins.     *)
BrowserIdOf(map, n) ==
  LET es == {e \in Ext : map[e] = n} IN
  IF es = {} THEN None ELSE CHOOSE e \in es : \A d \in es : d <= e

(* toLocalApplyOp throws on the payload of library.create, which has no     *)
(* node.  None stands for "server:<id>", an id that no browser knows.      *)
Plannable(ops) == \A i \in DOMAIN ops : ops[i].op # "library.create"

PhaseOf(op) == CASE op \in {"node.create", "node.restore"} -> 1 [] op = "node.update" -> 2
                 [] op = "node.move" -> 3 [] OTHER -> 4

(* buildLocalApplyPlan, every op translated before the first is performed. *)
Plan(ops, base, map) ==
  {[phase |-> PhaseOf(ops[i].op), ext |-> BrowserIdOf(map, ops[i].node),
    parent |-> BrowserIdOf(map, ops[i].row.parent), node |-> ops[i].node,
    title |-> ops[i].row.title, clock |-> base + i] : i \in DOMAIN ops}

(* Sorted by phase, in the server's order within one. *)
IsFirst(o, plan) ==
  \A q \in plan : o.phase < q.phase \/ (o.phase = q.phase /\ o.clock <= q.clock)

-----------------------------------------------------------------------------
(* One run, await by await. *)

At(r, pc)      == run[r] # None /\ run[r].pc = pc
Continue(r, k) == run' = [run EXCEPT ![r] = k]

(* What the run will store and return. *)
Ending(r, state) == [pc |-> "save", state |-> state, clock |-> 0]

(* loadState, startSession and feed: the client stands at its stored cursor, *)
(* else at the server's, else at 0.                                        *)
Begin(r) ==
  /\ run[r] = None
  /\ Continue(r, [pc |-> "read", state |-> disk,
                  base |-> IF disk.cursor # None THEN disk.cursor ELSE IF ack # None THEN ack ELSE 0])
  /\ UNCHANGED <<log, bound, ack, tree, disk, origin, have, steady, edits>>

ReadTree(r) ==
  /\ At(r, "read")
  /\ \E list \in Mutations(tree, run[r].state) :
       Continue(r, [pc |-> "preview", state |-> run[r].state, base |-> run[r].base,
                    mutations |-> list])
  /\ UNCHANGED <<log, bound, ack, tree, disk, origin, have, steady, edits>>

(* Mutant of Preview: changes are taken from a client that is behind.      *)
PreviewAnyBase(r) ==
  /\ At(r, "preview")
  /\ LET k == run[r] IN
     /\ \A m \in ToSet(k.mutations) : ~Refused(m) /\ ~MappingMissing(m)
     /\ Continue(r, [pc |-> "confirm", state |-> k.state, base |-> k.base, to |-> Len(log),
                     mutations |-> k.mutations, ops |-> SubSeq(log, k.base + 1, Len(log))])
  /\ UNCHANGED <<log, bound, ack, tree, disk, origin, have, steady, edits>>

(* A client that is behind may bring no changes; one whose bookmark lies in *)
(* a folder the server cannot name gets a conflict as well.                *)
Preview(r) ==
  /\ At(r, "preview")
  /\ LET k     == run[r]
         found == ToSet(k.mutations)
         stale == k.base < Len(log) /\ found # {}
         last  == IF k.base + OpsLimit < Len(log) THEN k.base + OpsLimit ELSE Len(log)
     IN /\ stale \/ \A m \in found : ~Refused(m)
        /\ IF stale \/ \E m \in found : MappingMissing(m)
           THEN Continue(r, Ending(r, [k.state EXCEPT !.status = "needs-user-resolution"]))
           ELSE Continue(r, [pc |-> "confirm", state |-> k.state, base |-> k.base, to |-> Len(log),
                             mutations |-> k.mutations, ops |-> SubSeq(log, k.base + 1, last)])
  /\ UNCHANGED <<log, bound, ack, tree, disk, origin, have, steady, edits>>

Confirm(r) ==
  /\ At(r, "confirm")
  /\ \/ Continue(r, [run[r] EXCEPT !.pc = "apply"])
     \/ Continue(r, Ending(r, [run[r].state EXCEPT !.status = "awaiting-confirmation"]))
  /\ UNCHANGED <<log, bound, ack, tree, disk, origin, have, steady, edits>>

(* The server applies the preview, unless its head has moved on; with the   *)
(* answer the client merges the new mappings and builds its plan.          *)
Apply(r) ==
  /\ At(r, "apply")
  /\ Len(log) = run[r].to
  /\ LET k     == run[r]
         after == AfterApply(k.mutations)
         Made(e, map) ==
           IF \E i \in DOMAIN k.mutations : k.mutations[i].op = "create" /\ k.mutations[i].ext = e
           THEN after[Len(log) + CHOOSE i \in DOMAIN k.mutations :
                        k.mutations[i].op = "create" /\ k.mutations[i].ext = e].node
           ELSE map[e]
         merged == [e \in Ext |-> Made(e, k.state.map)]
     IN /\ Len(after) \in Len(log) .. MaxClock
        /\ log' = after
        /\ bound' = [e \in Ext |-> Made(e, bound)]
        /\ have' = have \cup (Len(log) + 1 .. Len(after))
        /\ Continue(r, IF Plannable(k.ops)
             THEN [pc |-> "local", state |-> k.state, clock |-> Len(after), map |-> merged,
                   plan |-> Plan(k.ops, k.base, merged), made |-> [e \in Ext |-> None]]
             ELSE [pc |-> "thrown"])
  /\ UNCHANGED <<ack, tree, disk, origin, steady, edits>>

Fresh(e) == origin[e] = None /\ \A d \in Ext : d < e => origin[d] # None

(* applyOp: the browser knows the ids it is given, and never uses one again. *)
LocalStep(r) ==
  /\ At(r, "local")
  /\ \E o \in run[r].plan :
       /\ IsFirst(o, run[r].plan)
       /\ LET Known(e) == e # None /\ tree[e] # None
              rest == [run[r] EXCEPT !.plan = @ \ {o}]
          IN \/ /\ o.phase = 1 /\ Known(o.parent)
                /\ \E e \in Ext :
                     /\ Fresh(e)
                     /\ tree' = [tree EXCEPT ![e] = [parent |-> o.parent, title |-> o.title]]
                     /\ origin' = [origin EXCEPT ![e] = o.node]
                     /\ Continue(r, [rest EXCEPT !.made[e] = o.node])
             \/ /\ o.phase = 2 /\ Known(o.ext)
                /\ tree' = [tree EXCEPT ![o.ext].title = o.title]
                /\ Continue(r, rest) /\ UNCHANGED origin
             \/ /\ o.phase = 3 /\ Known(o.ext) /\ Known(o.parent)
                /\ o.parent \notin Subtree(tree, o.ext)
                /\ tree' = [tree EXCEPT ![o.ext].parent = o.parent]
                /\ Continue(r, rest) /\ UNCHANGED origin
             \/ /\ o.phase = 4 /\ Known(o.ext)
                /\ tree' = [e \in Ext |-> IF e \in Subtree(tree, o.ext) THEN None ELSE tree[e]]
                /\ Continue(r, rest) /\ UNCHANGED origin
       /\ have' = have \cup {o.clock}
  /\ UNCHANGED <<log, bound, ack, disk, steady, edits>>

(* Mutants: a rejected plan is acknowledged all the same; the mappings of   *)
(* what the adapter created are not merged; the wrong record is stored.    *)
RecoverAndAck(r) ==
  /\ At(r, "local") /\ run[r].plan # {}
  /\ Continue(r, [run[r] EXCEPT !.plan = {}])
  /\ UNCHANGED <<log, bound, ack, tree, disk, origin, have, steady, edits>>
ReloadUnmerged(r) ==
  /\ At(r, "local") /\ run[r].plan = {}
  /\ LET k == run[r] IN
     Continue(r, [pc |-> "ack", state |-> k.state, clock |-> k.clock, known |-> tree, map |-> k.map])
  /\ UNCHANGED <<log, bound, ack, tree, disk, origin, have, steady, edits>>
SaveRun(r) ==
  /\ At(r, "save")
  /\ disk' = run[r]
  /\ Continue(r, None)
  /\ UNCHANGED <<log, bound, ack, tree, origin, have, steady, edits>>

(* The adapter rejects: the mappings of what it created so far are lost.   *)
Recover(r) ==
  /\ At(r, "local") /\ run[r].plan # {}
  /\ LET s == run[r].state IN
     Continue(r, Ending(r, [cursor |-> s.cursor, map |-> run[r].map, known |-> s.known,
                            status |-> "recovery-required"]))
  /\ UNCHANGED <<log, bound, ack, tree, disk, origin, have, steady, edits>>

Reload(r) ==
  /\ At(r, "local") /\ run[r].plan = {}
  /\ LET k == run[r] IN
     Continue(r, [pc |-> "ack", state |-> k.state, clock |-> k.clock, known |-> tree,
                  map |-> [e \in Ext |-> IF k.made[e] # None THEN k.made[e] ELSE k.map[e]]])
  /\ UNCHANGED <<log, bound, ack, tree, disk, origin, have, steady, edits>>

(* upsert_cursor keeps a newer acknowledgement, and answers with it.       *)
Ack(r) ==
  /\ At(r, "ack")
  /\ LET k    == run[r]
         kept == IF ack # None /\ k.clock < ack THEN ack ELSE k.clock
     IN /\ ack' = kept
        /\ Continue(r, [Ending(r, [cursor |-> kept, map |-> k.map, known |-> k.known,
                                   status |-> "synced"]) EXCEPT !.clock = k.clock])
  /\ UNCHANGED <<log, bound, tree, disk, origin, have, steady, edits>>

Save(r) ==
  /\ At(r, "save")
  /\ disk' = run[r].state
  /\ Continue(r, None)
  /\ UNCHANGED <<log, bound, ack, tree, origin, have, steady, edits>>

(* A call is refused or its answer lost, the tree does not load, the        *)
(* background script is stopped: memory is gone, the rest stays.           *)
Abort(r) ==
  /\ run[r] # None
  /\ Continue(r, None)
  /\ UNCHANGED <<log, bound, ack, tree, disk, origin, have, steady, edits>>

-----------------------------------------------------------------------------
(* The user. *)

Between(r) == run[r] # None /\ run[r].pc \in {"preview", "confirm", "apply", "local"}

UserEdit ==
  /\ edits < MaxEdits /\ edits' = edits + 1
  /\ \/ \E e \in Ext, p \in There(tree) :
          /\ Fresh(e)
          /\ tree' = [tree EXCEPT ![e] = [parent |-> p, title |-> OneTitle]]
          /\ origin' = [origin EXCEPT ![e] = "user"]
     \/ \E e \in There(tree) \ {Bar} :
          /\ \/ \E title \in Title \ {tree[e].title} : tree' = [tree EXCEPT ![e].title = title]
             \/ \E p \in There(tree) \ Subtree(tree, e) :
                  p # tree[e].parent /\ tree' = [tree EXCEPT ![e].parent = p]
             \/ tree' = [d \in Ext |-> IF d \in Subtree(tree, e) THEN None ELSE tree[d]]
          /\ UNCHANGED origin
  /\ steady' = (steady /\ \A r \in Run : ~Between(r))
  /\ UNCHANGED <<log, bound, ack, disk, run, have>>

Next ==
  \/ Dashboard \/ UserEdit
  \/ \E r \in Run :
       \/ Begin(r) \/ ReadTree(r) \/ Preview(r) \/ Confirm(r) \/ Apply(r)
       \/ LocalStep(r) \/ Recover(r) \/ Reload(r) \/ Ack(r) \/ Save(r) \/ Abort(r)

Spec == Init /\ [][Next]_vars

-----------------------------------------------------------------------------
(* Properties. *)

TypeOK ==
  /\ \A c \in DOMAIN log : log[c].node \in Node /\ log[c].row \in Row
  /\ bound \in [Ext -> Node \cup {None}]
  /\ ack \in Nat \cup {None}
  /\ tree \in [Ext -> Leaf \cup {None}]
  /\ disk \in [cursor : Nat \cup {None}, map : [Ext -> Node \cup {None}],
               known : [Ext -> Leaf \cup {None}], status : Status]
  /\ origin \in [Ext -> Node \cup {None, "user"}]
  /\ have \subseteq DOMAIN log /\ steady \in BOOLEAN /\ edits \in 0 .. MaxEdits

(* A bookmark that a run created in the browser for a server node is never  *)
(* uploaded as a new one, wherever a run broke off: it is mapped before the *)
(* client reaches the clock at which the server accepts its changes.       *)
NothingEchoed == \A e \in Ext : bound[e] # None => origin[e] \in {"user", bound[e]}

(* t shows through the mapping exactly what the library shows.             *)
Agrees(t, map, lg) ==
  /\ {map[e] : e \in There(t)} = Shown(lg)
  /\ \A e, d \in There(t) : map[e] = map[d] => e = d
  /\ \A e \in There(t) \ {Bar} :
       t[e].title = RowAt(lg, map[e]).title /\ map[t[e].parent] = RowAt(lg, map[e]).parent

(* A run that ends "synced" leaves the browser with the library's tree at  *)
(* the clock it acknowledged, whatever runs failed, broke off or had to be *)
(* recovered before it, as long as the user never edited during a run.     *)
SyncedTreesAgree == \A r \in Run :
  At(r, "save") /\ run[r].state.status = "synced" /\ steady =>
    Agrees(run[r].state.known, run[r].state.map, SubSeq(log, 1, run[r].clock))

(* The client acknowledges only what its browser has: a failed, repeated or *)
(* interrupted local apply does not advance the cursor.                    *)
Position == INSTANCE SyncPosition WITH head <- Len(log), acked <- ack
ImplementsPosition == Position!PositionSpec

(* The server's revisions since the client's clock always become a plan. *)
ServerOpsBecomePlan == \A r \in Run : ~At(r, "thrown")
=============================================================================
