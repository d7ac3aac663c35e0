-------------------------- MODULE ManualSync_proofs ---------------------------
(***************************************************************************)
(* A sync client acknowledges only what its browser has: ManualSync        *)
(* implements SyncPosition, for every tree, every plan and every number of *)
(* runs at once, as long as a preview carries all revisions there are.     *)
(* A client that runs one sync at a time uploads nothing that it           *)
(* downloaded, and a run that ends "synced" leaves its browser with the    *)
(* tree that the library had at the clock it acknowledged.                 *)
(***************************************************************************)
EXTENDS ManualSync, FiniteSetTheorems, WellFoundedInduction, TLAPS

-----------------------------------------------------------------------------
(* Types.  What the operators of the client and the server return.         *)

MapType   == [Ext -> Node \cup {None}]
TreeType  == [Ext -> Leaf \cup {None}]
StateType == [cursor : Nat \cup {None}, map : MapType, known : TreeType, status : Status]

(* Every bookmark but the bar lies in another. *)
Rooted(t) == t \in TreeType /\ \A e \in There(t) \ {Bar} : t[e].parent # None

(* A mutation has what its operation reads. *)
Mutation ==
  {m \in [op : {"create", "update", "move", "delete"}, ext : Ext, node : Node \cup {None},
          parent : Node \cup {None}, parentExt : Ext \cup {None}, title : Title \cup {None}] :
     /\ m.op # "create" => m.node # None
     /\ m.op \in {"create", "move"} => m.parent # None \/ m.parentExt # None
     /\ m.op \in {"create", "update"} => m.title \in Title}

PlanOp(n) == [phase : 1 .. 4, ext : Ext \cup {None}, parent : Ext \cup {None},
              node : Node, title : Title, clock : 1 .. n]

(* A nonempty set of naturals has a least element, and one below a bound a  *)
(* greatest one.                                                           *)
LEMMA LeastNat ==
  ASSUME NEW T \in SUBSET Nat, T # {}
  PROVE  \E m \in T : \A k \in T : m <= k
<1>1. PICK x \in T : \A y \in T : ~ (<<y, x>> \in OpToRel(<, Nat))
  BY NatLessThanWellFounded, WFMin
<1>2. \A y \in T : ~(y < x)
  BY <1>1 DEF OpToRel
<1> QED
  BY <1>2

LEMMA GreatestBelow ==
  ASSUME NEW n \in Nat, NEW T \in SUBSET (1 .. n), T # {}
  PROVE  \E m \in T : \A k \in T : k <= m
<1> DEFINE D == {n - k : k \in T}
<1>1. D \in SUBSET Nat /\ D # {}
  <2>1. \A k \in T : n - k \in Nat
    OBVIOUS
  <2>2. \E k : k \in T
    OBVIOUS
  <2> QED
    BY <2>1, <2>2
<1>2. PICK d \in D : \A x \in D : d <= x
  BY <1>1, LeastNat
<1>3. PICK m \in T : d = n - m
  OBVIOUS
<1>4. \A k \in T : n - m <= n - k
  BY <1>2, <1>3
<1> QED
  BY <1>4

(* RowAt is a row of the log or None. *)
LEMMA RowAtType ==
  ASSUME NEW lg \in Seq(Revision), NEW n
  PROVE  RowAt(lg, n) \in Row \cup {None}
<1> DEFINE at == {c \in DOMAIN lg : lg[c].node = n}
<1>1. CASE at = {}
  BY <1>1 DEF RowAt
<1>2. CASE at # {}
  <2>1. Len(lg) \in Nat /\ at \in SUBSET (1 .. Len(lg))
    OBVIOUS
  <2>2. \E c \in at : \A d \in at : d <= c
    BY <1>2, <2>1, GreatestBelow
  <2> DEFINE c == CHOOSE c \in at : \A d \in at : d <= c
  <2>3. c \in at
    BY <2>2
  <2>4. RowAt(lg, n) = lg[c].row
    BY <1>2 DEF RowAt
  <2> HIDE DEF c
  <2>5. lg[c] \in Revision
    BY <2>3
  <2> QED
    BY <2>4, <2>5 DEF Revision
<1> QED
  BY <1>1, <1>2

(* An operation that is allowed appends a well typed revision. *)
LEMMA WrittenType ==
  ASSUME NEW lg \in Seq(Revision), NEW op \in NodeOp, NEW n \in Node, NEW p, NEW title,
         op \in {"node.create", "node.move"} => p \in Node \cup {None},
         op \in {"node.create", "node.update"} => title \in Title,
         Written(lg, op, n, p, title) # <<>>
  PROVE  /\ Written(lg, op, n, p, title) \in Seq(Revision)
         /\ Len(Written(lg, op, n, p, title)) = Len(lg) + 1
<1> DEFINE old == RowAt(lg, n)
           new == CASE op = "node.create" -> [parent |-> p, title |-> title, deleted |-> FALSE]
                    [] op = "node.update" -> [old EXCEPT !.title = title]
                    [] op = "node.move"   -> [old EXCEPT !.parent = p]
                    [] OTHER              -> [old EXCEPT !.deleted = op = "node.delete"]
           e   == [op |-> op, node |-> n, row |-> new]
<1>1. Written(lg, op, n, p, title) = Append(lg, e) /\ (op # "node.create" => old # None)
  BY DEF Written
<1>2. op # "node.create" => old \in Row
  BY <1>1, RowAtType
<1> HIDE DEF old
<1>3. new \in Row
  <2>1. CASE op = "node.create"
    BY <2>1 DEF Row
  <2>2. CASE op = "node.update"
    <3>1. new = [old EXCEPT !.title = title] /\ old \in Row /\ title \in Title
      BY <1>2, <2>2
    <3> QED
      BY <3>1 DEF Row
  <2>3. CASE op = "node.move"
    <3>1. new = [old EXCEPT !.parent = p] /\ old \in Row /\ p \in Node \cup {None}
      BY <1>2, <2>3
    <3> QED
      BY <3>1 DEF Row
  <2>4. CASE op \in {"node.delete", "node.restore"}
    <3>1. new = [old EXCEPT !.deleted = op = "node.delete"] /\ old \in Row
      BY <1>2, <2>4
    <3> DEFINE d == op = "node.delete"
    <3>2. d \in BOOLEAN
      OBVIOUS
    <3> HIDE DEF d
    <3>3. [old EXCEPT !.deleted = d] \in Row
      BY <3>1, <3>2 DEF Row
    <3> QED
      BY <3>1, <3>3 DEF d
  <2> QED
    BY <2>1, <2>2, <2>3, <2>4 DEF NodeOp
<1> HIDE DEF new
<1>4. e \in Revision
  BY <1>3 DEF Revision
<1> HIDE DEF e
<1> QED
  BY <1>1, <1>4

LEMMA FiniteImage ==
  ASSUME NEW S, IsFiniteSet(S), NEW f
  PROVE  IsFiniteSet({f[x] : x \in S})
<1> DEFINE T == {f[x] : x \in S}
           g == [x \in S |-> f[x]]
<1>1. g \in Surjection(S, T)
  BY DEF Surjection
<1> QED
  BY <1>1, FS_Surjection

(* What a tree differs in from what is mapped and known is a set of        *)
(* mutations, finite as there are finitely many bookmarks.                 *)
LEMMA ChangesType ==
  ASSUME NEW t, Rooted(t), NEW map \in MapType, NEW old \in TreeType
  PROVE  Changes(t, map, old) \subseteq Mutation /\ IsFiniteSet(Changes(t, map, old))
<1> DEFINE now  == There(t) \ {Bar}
           both == {e \in now : map[e] # None /\ old[e] # None}
           C == {Placed(t, map, "create", e) : e \in {d \in now : map[d] = None}}
           U == {Fill(t, map, "update", e) : e \in {d \in both : t[d].title # old[d].title}}
           M == {Placed(t, map, "move", e) : e \in {d \in both : t[d].parent # old[d].parent}}
           D == {Fill(t, map, "delete", e) : e \in {d \in There(old) \ There(t) : map[d] # None}}
<1>1. Changes(t, map, old) = C \cup U \cup M \cup D
  BY DEF Changes
<1>2. ASSUME NEW e \in now
      PROVE  /\ t[e].parent \in Ext /\ t[e].title \in Title /\ t[e] # None
             /\ map[t[e].parent] \in Node \cup {None} /\ map[e] \in Node \cup {None}
  <2>1. e \in Ext /\ t[e] # None /\ t[e].parent # None /\ t[e] \in Leaf
    BY DEF Rooted, There, TreeType
  <2> QED
    BY <2>1 DEF Leaf, MapType
<1>3. ASSUME NEW e \in now, NEW op \in {"create", "move"}, op = "move" => map[e] # None
      PROVE  Placed(t, map, op, e) \in Mutation
  <2> DEFINE p == map[t[e].parent]
             x == IF p = None THEN t[e].parent ELSE None
             title == t[e].title
             node == map[e]
  <2>1. Placed(t, map, op, e) =
          [op |-> op, ext |-> e, node |-> node, parent |-> p, parentExt |-> x, title |-> title]
    <3> DEFINE f == Fill(t, map, op, e)
    <3>1. f = [op |-> op, ext |-> e, node |-> node, parent |-> None, parentExt |-> None, title |-> title]
      BY <1>2 DEF Fill
    <3>2. Placed(t, map, op, e) = [f EXCEPT !.parent = p, !.parentExt = x]
      BY DEF Placed
    <3> HIDE DEF f, p, x, title, node
    <3> QED
      BY <3>1, <3>2
  <2>2. /\ e \in Ext /\ node \in Node \cup {None} /\ p \in Node \cup {None}
        /\ x \in Ext \cup {None} /\ (p # None \/ x # None) /\ title \in Title
        /\ (op # "create" => node # None)
    BY <1>2, <1>3, ManualSyncAssumption DEF Ext, There
  <2> HIDE DEF p, x, title, node
  <2> QED
    BY <2>1, <2>2 DEF Mutation
<1>4. ASSUME NEW e \in both PROVE Fill(t, map, "update", e) \in Mutation
  <2> DEFINE title == t[e].title
             node == map[e]
  <2>1. Fill(t, map, "update", e) =
          [op |-> "update", ext |-> e, node |-> node, parent |-> None, parentExt |-> None, title |-> title]
    BY <1>2 DEF Fill
  <2>2. e \in Ext /\ node \in Node \cup {None} /\ title \in Title /\ node # None
    BY <1>2 DEF There
  <2> HIDE DEF title, node
  <2> QED
    BY <2>1, <2>2 DEF Mutation
<1>5. ASSUME NEW e \in There(old) \ There(t), map[e] # None
      PROVE  Fill(t, map, "delete", e) \in Mutation
  <2> DEFINE node == map[e]
  <2>1. Fill(t, map, "delete", e) =
          [op |-> "delete", ext |-> e, node |-> node, parent |-> None, parentExt |-> None, title |-> None]
    BY <1>5 DEF Fill, There
  <2>2. e \in Ext /\ node \in Node \cup {None} /\ node # None
    BY <1>5 DEF There, MapType
  <2> HIDE DEF node
  <2> QED
    BY <2>1, <2>2 DEF Mutation
<1>6. C \cup U \cup M \cup D \subseteq Mutation
  BY <1>3, <1>4, <1>5
<1>7. \A X \in SUBSET Ext : IsFiniteSet(X)
  <2>1. IsFiniteSet(Ext)
    BY ManualSyncAssumption, FS_Interval DEF Ext
  <2> QED
    BY <2>1, FS_Subset
<1>8. IsFiniteSet(C) /\ IsFiniteSet(U) /\ IsFiniteSet(M) /\ IsFiniteSet(D)
  <2>1. /\ IsFiniteSet({d \in now : map[d] = None})
        /\ IsFiniteSet({d \in both : t[d].title # old[d].title})
        /\ IsFiniteSet({d \in both : t[d].parent # old[d].parent})
        /\ IsFiniteSet({d \in There(old) \ There(t) : map[d] # None})
    BY <1>7 DEF There
  <2> DEFINE P(op) == [e \in Ext |-> Placed(t, map, op, e)]
             F(op) == [e \in Ext |-> Fill(t, map, op, e)]
  <2>2. /\ C = {P("create")[e] : e \in {d \in now : map[d] = None}}
        /\ U = {F("update")[e] : e \in {d \in both : t[d].title # old[d].title}}
        /\ M = {P("move")[e] : e \in {d \in both : t[d].parent # old[d].parent}}
        /\ D = {F("delete")[e] : e \in {d \in There(old) \ There(t) : map[d] # None}}
    BY DEF There
  <2> HIDE DEF P, F, C, U, M, D, now, both
  <2> QED
    BY <2>1, <2>2, FiniteImage
<1>9. IsFiniteSet(C \cup U \cup M \cup D)
  BY <1>8, FS_Union
<1> QED
  BY <1>1, <1>6, <1>9

(* A list of mutations has every change and nothing else. *)
LEMMA MutationsType ==
  ASSUME NEW t, Rooted(t), NEW state \in StateType, NEW list \in Mutations(t, state)
  PROVE  list \in Seq(Mutation) /\ ToSet(list) = Changes(t, state.map, state.known)
<1> DEFINE all == Changes(t, state.map, state.known)
<1>1. all \subseteq Mutation /\ Cardinality(all) \in Nat
  BY ChangesType, FS_CardinalityType DEF StateType
<1>2. list \in [1 .. Cardinality(all) -> all] /\ ToSet(list) = all
  BY DEF Mutations
<1> HIDE DEF all
<1>3. list \in Seq(Mutation)
  BY <1>1, <1>2
<1> QED
  BY <1>2, <1>3 DEF all

(* The loop of apply, step by step. *)
LEMMA AfterApplyLoop ==
  ASSUME NEW list \in Seq(Mutation)
  PROVE  \E after : /\ AfterApply(list) = after[Len(list)] /\ after[0] = log
                    /\ \A i \in 1 .. Len(list) : after[i] = AfterOne(after[i - 1], list[i])
<1> DEFINE Loop(f, k) == f = [i \in 0 .. k |-> IF i = 0 THEN log ELSE AfterOne(f[i - 1], list[i])]
           Stuck == {k \in Nat : ~\E f : Loop(f, k)}
<1>1. \E f : Loop(f, 0)
  <2>1. Loop([i \in 0 .. 0 |-> log], 0)
    OBVIOUS
  <2> QED
    BY <2>1
<1>2. ASSUME NEW k \in Nat, NEW f, Loop(f, k)
      PROVE  \E g : Loop(g, k + 1)
  <2> DEFINE g == [i \in 0 .. k + 1 |-> IF i = k + 1 THEN AfterOne(f[k], list[i]) ELSE f[i]]
  <2>1. ASSUME NEW i \in 0 .. k + 1
        PROVE  g[i] = IF i = 0 THEN log ELSE AfterOne(g[i - 1], list[i])
    <3>1. CASE i = k + 1
      BY <3>1
    <3>2. CASE i # k + 1
      BY <1>2, <3>2
    <3> QED
      BY <3>1, <3>2
  <2>2. Loop(g, k + 1)
    BY <2>1
  <2> QED
    BY <2>2
<1> HIDE DEF Loop
<1>3. Stuck = {}
  <2> SUFFICES ASSUME Stuck # {} PROVE FALSE
    OBVIOUS
  <2>1. PICK m \in Stuck : \A k \in Stuck : m <= k
    BY LeastNat
  <2>2. m \in Nat /\ m # 0
    BY <1>1
  <2>3. m - 1 \in Nat /\ m - 1 \notin Stuck
    BY <2>1, <2>2
  <2>4. PICK f : Loop(f, m - 1)
    BY <2>3
  <2>5. \E g : Loop(g, m - 1 + 1)
    BY <1>2, <2>3, <2>4
  <2> QED
    BY <2>2, <2>5
<1>4. Len(list) \in Nat /\ \E f : Loop(f, Len(list))
  <2>1. Len(list) \in Nat
    OBVIOUS
  <2> QED
    BY <1>3, <2>1
<1> DEFINE after == CHOOSE f : Loop(f, Len(list))
<1>5. Loop(after, Len(list))
  BY <1>4
<1>6. AfterApply(list) = after[Len(list)]
  BY DEF AfterApply, Loop
<1> HIDE DEF after
<1>7. /\ after[0] = log
      /\ \A i \in 1 .. Len(list) : after[i] = AfterOne(after[i - 1], list[i])
  BY <1>4, <1>5 DEF Loop
<1> QED
  BY <1>6, <1>7

(* The parent of a mutation is a node, or missing. *)
LEMMA ParentOfType ==
  ASSUME bound \in MapType, NEW m \in Mutation, m.op \in {"create", "move"}
  PROVE  ParentOf(m) \in Node \cup {None}
BY DEF ParentOf, MapType, Mutation

LEMMA AfterOneType ==
  ASSUME bound \in MapType, NEW lg \in Seq(Revision), NEW m \in Mutation, AfterOne(lg, m) # <<>>
  PROVE  AfterOne(lg, m) \in Seq(Revision) /\ Len(AfterOne(lg, m)) = Len(lg) + 1
<1>1. m.op \in {"create", "update", "move", "delete"}
  BY DEF Mutation
<1>2. PICK op, n, p :
        /\ op \in NodeOp
        /\ AfterOne(lg, m) = Written(lg, op, n, p, m.title)
        /\ n = IF m.op = "create" THEN CHOOSE x \in Unused(lg) : TRUE ELSE m.node
        /\ p = IF m.op \in {"create", "move"} THEN ParentOf(m) ELSE None
        /\ op = "node.create" => m.op = "create"
        /\ op = "node.move" => m.op = "move"
        /\ op = "node.update" => m.op = "update"
        /\ m.op = "create" => Unused(lg) # {}
  <2> DEFINE op == CASE m.op = "create" -> "node.create" [] m.op = "update" -> "node.update"
                     [] m.op = "move" -> "node.move" [] OTHER -> "node.delete"
             n == IF m.op = "create" THEN CHOOSE x \in Unused(lg) : TRUE ELSE m.node
             p == IF m.op \in {"create", "move"} THEN ParentOf(m) ELSE None
  <2>1. /\ op \in NodeOp
        /\ op = "node.create" => m.op = "create"
        /\ op = "node.move" => m.op = "move"
        /\ op = "node.update" => m.op = "update"
    <3>1. CASE m.op = "create"
      <4>1. op = "node.create"
        BY <3>1
      <4> QED
        BY <3>1, <4>1 DEF NodeOp
    <3>2. CASE m.op = "update"
      <4>1. op = "node.update"
        BY <3>2
      <4> QED
        BY <3>2, <4>1 DEF NodeOp
    <3>3. CASE m.op = "move"
      <4>1. op = "node.move"
        BY <3>3
      <4> QED
        BY <3>3, <4>1 DEF NodeOp
    <3>4. CASE m.op = "delete"
      <4>1. op = "node.delete"
        BY <3>4
      <4> QED
        BY <3>4, <4>1 DEF NodeOp
    <3> QED
      BY <1>1, <3>1, <3>2, <3>3, <3>4
  <2>2. AfterOne(lg, m) = Written(lg, op, n, p, m.title) /\ (m.op = "create" => Unused(lg) # {})
    BY DEF AfterOne
  <2> HIDE DEF op
  <2> QED
    BY <2>1, <2>2
<1>3. n \in Node
  BY <1>1, <1>2 DEF Unused, Mutation
<1>4. op \in {"node.create", "node.move"} => p \in Node \cup {None}
  BY <1>2, ParentOfType
<1>5. op \in {"node.create", "node.update"} => m.title \in Title
  BY <1>2 DEF Mutation
<1> QED
  BY <1>2, <1>3, <1>4, <1>5, WrittenType

(* An apply whose mutations all succeed writes one revision for each.      *)
LEMMA AfterApplyType ==
  ASSUME bound \in MapType, log \in Seq(Revision), NEW list \in Seq(Mutation), AfterApply(list) # <<>>
  PROVE  AfterApply(list) \in Seq(Revision) /\ Len(AfterApply(list)) = Len(log) + Len(list)
<1>1. PICK after : /\ AfterApply(list) = after[Len(list)] /\ after[0] = log
                   /\ \A i \in 1 .. Len(list) : after[i] = AfterOne(after[i - 1], list[i])
  BY AfterApplyLoop
<1> DEFINE Good(i) == after[i] = <<>> \/ (after[i] \in Seq(Revision) /\ Len(after[i]) = Len(log) + i)
           Bad == {i \in 0 .. Len(list) : ~Good(i)}
<1>2. Len(list) \in Nat /\ Len(log) \in Nat /\ Bad \in SUBSET Nat
  OBVIOUS
<1>3. Good(0)
  BY <1>1, <1>2
<1>4. ASSUME NEW i \in 1 .. Len(list), Good(i - 1)
      PROVE  Good(i)
  <2>1. after[i] = AfterOne(after[i - 1], list[i]) /\ list[i] \in Mutation
    BY <1>1
  <2>2. CASE after[i - 1] = <<>>
    BY <2>1, <2>2 DEF AfterOne
  <2>3. CASE after[i - 1] # <<>> /\ after[i] # <<>>
    <3>1. after[i - 1] \in Seq(Revision) /\ Len(after[i - 1]) = Len(log) + (i - 1)
      BY <1>4, <2>3
    <3>2. after[i] \in Seq(Revision) /\ Len(after[i]) = Len(after[i - 1]) + 1
      BY <2>1, <2>3, <3>1, AfterOneType
    <3> QED
      BY <1>2, <3>1, <3>2
  <2> QED
    BY <2>2, <2>3
<1> HIDE DEF Good
<1>5. Bad = {}
  <2> SUFFICES ASSUME Bad # {} PROVE FALSE
    OBVIOUS
  <2>1. PICK m \in Bad : \A k \in Bad : m <= k
    BY <1>2, LeastNat
  <2>2. m \in 1 .. Len(list)
    BY <1>3
  <2>3. m - 1 \in 0 .. Len(list) /\ ~(m <= m - 1)
    BY <2>2
  <2>4. Good(m - 1)
    BY <2>1, <2>3
  <2> QED
    BY <1>4, <2>2, <2>4
<1>6. Good(Len(list))
  BY <1>2, <1>5
<1> QED
  BY <1>1, <1>6 DEF Good

(* What a run holds, by the await it stands at; n is the library's head.   *)
Loaded(k)    == k.state \in StateType /\ k.base \in Nat
TypedRead(k) == k.pc = "read" /\ Loaded(k)
TypedDiff(k) == k.pc = "preview" /\ Loaded(k) /\ k.mutations \in Seq(Mutation)
TypedPreviewed(k, n) ==
  /\ k.pc \in {"confirm", "apply"}
  /\ k = [pc |-> k.pc, state |-> k.state, base |-> k.base, to |-> k.to,
          mutations |-> k.mutations, ops |-> k.ops]
  /\ Loaded(k) /\ k.mutations \in Seq(Mutation)
  /\ k.ops \in Seq(Revision) /\ \A i \in DOMAIN k.ops : k.base + i \in 1 .. n
TypedPerforming(k, n) ==
  /\ k.pc = "local"
  /\ k = [pc |-> k.pc, state |-> k.state, clock |-> k.clock, map |-> k.map,
          plan |-> k.plan, made |-> k.made]
  /\ k.state \in StateType /\ k.clock \in Nat /\ k.map \in MapType
  /\ k.plan \subseteq PlanOp(n) /\ k.made \in MapType
TypedEnding(k) ==
  \/ k.pc = "ack" /\ k.clock \in Nat /\ k.map \in MapType /\ k.known \in TreeType
  \/ k.pc = "save" /\ k.state \in StateType
  \/ k.pc = "thrown"

RunTyped(k, n) ==
  TypedRead(k) \/ TypedDiff(k) \/ TypedPreviewed(k, n) \/ TypedPerforming(k, n) \/ TypedEnding(k)

Typed ==
  /\ log \in Seq(Revision) /\ Len(log) \in 1 .. MaxClock
  /\ bound \in MapType /\ ack \in Nat \cup {None}
  /\ Rooted(tree) /\ disk \in StateType
  /\ origin \in [Ext -> Node \cup {None, "user"}]
  /\ have \subseteq 1 .. Len(log) /\ steady \in BOOLEAN /\ edits \in 0 .. MaxEdits
  /\ run = [r \in Run |-> run[r]]
  /\ \A r \in Run : run[r] = None \/ RunTyped(run[r], Len(log))

LEMMA TypedInit == Init => Typed
<1> SUFFICES ASSUME Init PROVE Typed
  OBVIOUS
<1>0. Bar \in Ext /\ OneTitle \in Title /\ Root \in Node
  BY ManualSyncAssumption DEF Bar, Ext, OneTitle
<1>1. log \in Seq(Revision) /\ Len(log) = 1
  <2> DEFINE row == [parent |-> None, title |-> OneTitle, deleted |-> FALSE]
             e == [op |-> "library.create", node |-> Root, row |-> row]
  <2>1. e \in Revision
    BY <1>0 DEF Revision, Row
  <2>2. log = <<e>>
    BY DEF Init
  <2> HIDE DEF e
  <2> QED
    BY <2>1, <2>2
<1>2. bound \in MapType
  BY <1>0 DEF Init, MapType
<1>3. Rooted(tree)
  <2> DEFINE bar == [parent |-> None, title |-> OneTitle]
  <2>1. bar \in Leaf
    BY <1>0 DEF Leaf
  <2>2. tree = [e \in Ext |-> IF e = Bar THEN bar ELSE None]
    BY DEF Init
  <2> HIDE DEF bar
  <2> QED
    BY <2>1, <2>2 DEF Rooted, There, TreeType
<1>4. disk \in StateType
  BY <1>2, <1>3, ManualSyncAssumption DEF Init, StateType, Status, Rooted
<1> QED
  BY <1>0, <1>1, <1>2, <1>3, <1>4, ManualSyncAssumption DEF Init, Typed

(* Types only grow with the library. *)
LEMMA RunTypedGrows ==
  ASSUME NEW n \in Nat, NEW n2 \in Nat, n <= n2, NEW k, RunTyped(k, n)
  PROVE  RunTyped(k, n2)
<1>1. PlanOp(n) \subseteq PlanOp(n2)
  BY DEF PlanOp
<1>2. TypedPreviewed(k, n) => TypedPreviewed(k, n2)
  BY DEF TypedPreviewed
<1>3. TypedPerforming(k, n) => TypedPerforming(k, n2)
  BY <1>1 DEF TypedPerforming
<1> QED
  BY <1>2, <1>3 DEF RunTyped

(* A step of one run, with what else it changes. *)
LEMMA TypedStep ==
  ASSUME Typed,
         run' = run \/ \E r \in Run : \E k : Continue(r, k) /\ (k = None \/ RunTyped(k, Len(log'))),
         log' \in Seq(Revision), Len(log') \in Len(log) .. MaxClock,
         bound' \in MapType, ack' \in Nat \cup {None}, Rooted(tree'), disk' \in StateType,
         origin' \in [Ext -> Node \cup {None, "user"}],
         have' \subseteq 1 .. Len(log'), steady' \in BOOLEAN, edits' \in 0 .. MaxEdits
  PROVE  Typed'
<1>1. Len(log) \in Nat /\ Len(log') \in Nat /\ Len(log) <= Len(log') /\ Len(log') \in 1 .. MaxClock
  BY ManualSyncAssumption DEF Typed
<1>2. \A q \in Run : run[q] = None \/ RunTyped(run[q], Len(log'))
  BY <1>1, RunTypedGrows DEF Typed
<1>3. \A q \in Run : run'[q] = None \/ RunTyped(run'[q], Len(log'))
  BY <1>2 DEF Typed, Continue
<1>4. run' = [q \in Run |-> run'[q]]
  BY DEF Typed, Continue
<1> QED
  BY <1>1, <1>3, <1>4 DEF Typed

LEMMA TypedQuiet ==
  ASSUME Typed, NEW r \in Run, NEW k, Continue(r, k), k = None \/ RunTyped(k, Len(log)),
         UNCHANGED <<log, bound, tree, origin, have, steady, edits>>,
         ack' \in Nat \cup {None}, disk' \in StateType
  PROVE  Typed'
<1>1. Len(log) \in Len(log) .. MaxClock
  BY DEF Typed
<1>2. /\ bound' = bound /\ tree' = tree /\ origin' = origin /\ have' = have
      /\ log' = log /\ steady' = steady /\ edits' = edits
  OBVIOUS
<1> QED
  BY <1>1, <1>2, TypedStep DEF Typed

(* The run r is typed as the await it stands at says. *)
LEMMA RunIsTyped ==
  ASSUME Typed, NEW r \in Run, run[r] # None
  PROVE  /\ run[r].pc = "read" => TypedRead(run[r])
         /\ run[r].pc = "preview" => TypedDiff(run[r])
         /\ run[r].pc \in {"confirm", "apply"} => TypedPreviewed(run[r], Len(log))
         /\ run[r].pc = "local" => TypedPerforming(run[r], Len(log))
         /\ run[r].pc \in {"ack", "save"} => TypedEnding(run[r])
BY DEF Typed, RunTyped, TypedRead, TypedDiff, TypedPreviewed, TypedPerforming, TypedEnding

LEMMA EndingType ==
  ASSUME NEW s \in StateType, NEW m \in MapType, NEW x \in Status, NEW r, NEW n
  PROVE  /\ RunTyped(Ending(r, [s EXCEPT !.status = x]), n)
         /\ RunTyped(Ending(r, [cursor |-> s.cursor, map |-> m, known |-> s.known, status |-> x]), n)
<1>1. [s EXCEPT !.status = x] \in StateType
  BY DEF StateType
<1>2. [cursor |-> s.cursor, map |-> m, known |-> s.known, status |-> x] \in StateType
  BY DEF StateType
<1> QED
  BY <1>1, <1>2 DEF Ending, RunTyped, TypedEnding

LEMMA TypedBegin ==
  ASSUME Typed, NEW r \in Run, Begin(r)
  PROVE  Typed'
<1> DEFINE b == IF disk.cursor # None THEN disk.cursor ELSE IF ack # None THEN ack ELSE 0
           k == [pc |-> "read", state |-> disk, base |-> b]
<1>1. b \in Nat /\ disk \in StateType
  BY DEF Typed, StateType
<1>2. RunTyped(k, Len(log))
  BY <1>1 DEF RunTyped, TypedRead, Loaded
<1> QED
  BY <1>2, TypedQuiet DEF Begin, Typed

LEMMA TypedReadTree ==
  ASSUME Typed, NEW r \in Run, ReadTree(r)
  PROVE  Typed'
<1>1. PICK list \in Mutations(tree, run[r].state) :
        Continue(r, [pc |-> "preview", state |-> run[r].state, base |-> run[r].base,
                     mutations |-> list])
  BY DEF ReadTree
<1>2. Loaded(run[r])
  BY RunIsTyped DEF ReadTree, At, TypedRead
<1>3. list \in Seq(Mutation)
  BY <1>2, MutationsType DEF Loaded, Typed
<1> DEFINE k == [pc |-> "preview", state |-> run[r].state, base |-> run[r].base, mutations |-> list]
<1>4. RunTyped(k, Len(log))
  BY <1>2, <1>3 DEF RunTyped, TypedDiff, Loaded
<1> QED
  BY <1>1, <1>4, TypedQuiet DEF ReadTree, Typed

LEMMA TypedPreview ==
  ASSUME Typed, NEW r \in Run, Preview(r)
  PROVE  Typed'
<1> DEFINE k    == run[r]
           last == IF k.base + OpsLimit < Len(log) THEN k.base + OpsLimit ELSE Len(log)
           ops  == SubSeq(log, k.base + 1, last)
           got  == [pc |-> "confirm", state |-> k.state, base |-> k.base, to |-> Len(log),
                    mutations |-> k.mutations, ops |-> ops]
           bad  == Ending(r, [k.state EXCEPT !.status = "needs-user-resolution"])
<1>1. Loaded(k) /\ k.mutations \in Seq(Mutation)
  BY RunIsTyped DEF Preview, At, TypedDiff
<1>2. RunTyped(bad, Len(log))
  <2>1. "needs-user-resolution" \in Status /\ k.state.map \in MapType
    BY <1>1 DEF Status, Loaded, StateType
  <2> QED
    BY <1>1, <2>1, EndingType DEF Loaded
<1>3. ops \in Seq(Revision) /\ \A i \in DOMAIN ops : k.base + i \in 1 .. Len(log)
  <2>1. k.base \in Nat /\ log \in Seq(Revision) /\ last \in Nat /\ last <= Len(log)
    BY <1>1, ManualSyncAssumption DEF Loaded, Typed
  <2> HIDE DEF last
  <2>2. ops \in Seq(Revision) /\ Len(ops) = IF k.base + 1 <= last THEN last - k.base ELSE 0
    BY <2>1
  <2>3. DOMAIN ops = 1 .. Len(ops)
    BY <2>2
  <2> HIDE DEF ops
  <2>4. ASSUME NEW i \in 1 .. Len(ops) PROVE k.base + i \in 1 .. Len(log)
    <3>1. Len(log) \in Nat
      BY <2>1
    <3> QED
      BY <2>1, <2>2, <2>4, <3>1
  <2> QED
    BY <2>2, <2>3, <2>4
<1> HIDE DEF ops
<1>4. RunTyped(got, Len(log))
  BY <1>1, <1>3 DEF RunTyped, TypedPreviewed, Loaded
<1>5. Continue(r, bad) \/ Continue(r, got)
  BY DEF Preview, ops
<1> QED
  BY <1>2, <1>4, <1>5, TypedQuiet DEF Preview, Typed

LEMMA TypedConfirm ==
  ASSUME Typed, NEW r \in Run, Confirm(r)
  PROVE  Typed'
<1> DEFINE yes == [run[r] EXCEPT !.pc = "apply"]
           no  == Ending(r, [run[r].state EXCEPT !.status = "awaiting-confirmation"])
<1>1. TypedPreviewed(run[r], Len(log))
  BY RunIsTyped DEF Confirm, At
<1>2. RunTyped(no, Len(log))
  <2>1. "awaiting-confirmation" \in Status /\ run[r].state.map \in MapType
    BY <1>1 DEF Status, TypedPreviewed, Loaded, StateType
  <2> QED
    BY <1>1, <2>1, EndingType DEF TypedPreviewed, Loaded
<1>3. TypedPreviewed(yes, Len(log))
  BY <1>1 DEF TypedPreviewed, Loaded
<1> QED
  BY <1>2, <1>3, TypedQuiet DEF Confirm, Typed, RunTyped

(* Of several browser ids that map to a node there is a newest. *)
LEMMA BrowserIdType ==
  ASSUME NEW map, NEW n
  PROVE  BrowserIdOf(map, n) \in Ext \cup {None}
<1> DEFINE es == {e \in Ext : map[e] = n}
<1>1. ASSUME es # {} PROVE \E e \in es : \A d \in es : d <= e
  <2> DEFINE up == {e + 1 : e \in es}
  <2>1. \A e \in es : e \in Int /\ e + 1 \in 1 .. MaxExt + 1
    BY ManualSyncAssumption DEF Ext
  <2>2. MaxExt + 1 \in Nat /\ up \in SUBSET (1 .. MaxExt + 1) /\ up # {}
    BY <1>1, <2>1, ManualSyncAssumption
  <2>3. PICK m \in up : \A k \in up : k <= m
    BY <2>2, GreatestBelow
  <2>4. PICK e \in es : m = e + 1
    OBVIOUS
  <2>5. \A d \in es : d + 1 <= e + 1
    BY <2>3, <2>4
  <2> QED
    BY <2>1, <2>5
<1> QED
  BY <1>1 DEF BrowserIdOf

LEMMA PlanType ==
  ASSUME NEW ops \in Seq(Revision), NEW base \in Nat, NEW map, NEW n,
         \A i \in DOMAIN ops : base + i \in 1 .. n
  PROVE  Plan(ops, base, map) \subseteq PlanOp(n)
<1> SUFFICES ASSUME NEW i \in DOMAIN ops
             PROVE  [phase |-> PhaseOf(ops[i].op), ext |-> BrowserIdOf(map, ops[i].node),
                     parent |-> BrowserIdOf(map, ops[i].row.parent), node |-> ops[i].node,
                     title |-> ops[i].row.title, clock |-> base + i] \in PlanOp(n)
  BY DEF Plan
<1>1. ops[i] \in Revision
  OBVIOUS
<1>2. ops[i].node \in Node /\ ops[i].row.title \in Title
  BY <1>1 DEF Revision, Row
<1>3. PhaseOf(ops[i].op) \in 1 .. 4
  BY DEF PhaseOf
<1> DEFINE phase == PhaseOf(ops[i].op)
           ext == BrowserIdOf(map, ops[i].node)
           parent == BrowserIdOf(map, ops[i].row.parent)
<1>4. ext \in Ext \cup {None} /\ parent \in Ext \cup {None} /\ phase \in 1 .. 4
  BY <1>3, BrowserIdType
<1> HIDE DEF phase, ext, parent
<1> QED
  BY <1>2, <1>4 DEF PlanOp, phase, ext, parent

(* The mappings that an apply answers with. *)
LEMMA MadeType ==
  ASSUME NEW list \in Seq(Mutation), NEW n \in Nat, NEW after \in Seq(Revision),
         Len(after) = n + Len(list), NEW map \in MapType, NEW e \in Ext
  PROVE  (IF \E i \in DOMAIN list : list[i].op = "create" /\ list[i].ext = e
          THEN after[n + CHOOSE i \in DOMAIN list : list[i].op = "create" /\ list[i].ext = e].node
          ELSE map[e]) \in Node \cup {None}
<1> DEFINE P(i) == list[i].op = "create" /\ list[i].ext = e
           j == CHOOSE i \in DOMAIN list : P(i)
<1>1. CASE \E i \in DOMAIN list : P(i)
  <2>1. j \in DOMAIN list
    BY <1>1
  <2> HIDE DEF j
  <2>2. Len(list) \in Nat /\ n + j \in 1 .. Len(after)
    BY <2>1
  <2>3. after[n + j] \in Revision
    BY <2>2
  <2> QED
    BY <1>1, <2>3 DEF Revision, j
<1>2. CASE ~\E i \in DOMAIN list : P(i)
  BY <1>2 DEF MapType
<1> QED
  BY <1>1, <1>2

LEMMA TypedApply ==
  ASSUME Typed, NEW r \in Run, Apply(r)
  PROVE  Typed' /\ log' \in Seq(Revision)
<1> DEFINE k     == run[r]
           after == AfterApply(k.mutations)
           Made(e, map) ==
             IF \E i \in DOMAIN k.mutations : k.mutations[i].op = "create" /\ k.mutations[i].ext = e
             THEN after[Len(log) + CHOOSE i \in DOMAIN k.mutations :
                          k.mutations[i].op = "create" /\ k.mutations[i].ext = e].node
             ELSE map[e]
           merged == [e \in Ext |-> Made(e, k.state.map)]
           new == [pc |-> "local", state |-> k.state, clock |-> Len(after), map |-> merged,
                   plan |-> Plan(k.ops, k.base, merged), made |-> [e \in Ext |-> None]]
<1>1. TypedPreviewed(k, Len(log))
  BY RunIsTyped DEF Apply, At
<1>2. /\ Len(after) \in Len(log) .. MaxClock
      /\ log' = after /\ bound' = [e \in Ext |-> Made(e, bound)]
      /\ have' = have \cup (Len(log) + 1 .. Len(after))
      /\ Continue(r, IF Plannable(k.ops) THEN new ELSE [pc |-> "thrown"])
      /\ UNCHANGED <<ack, tree, disk, origin, steady, edits>>
  BY DEF Apply
<1>3. /\ k.mutations \in Seq(Mutation) /\ k.state \in StateType /\ k.state.map \in MapType
      /\ k.ops \in Seq(Revision) /\ k.base \in Nat /\ \A i \in DOMAIN k.ops : k.base + i \in 1 .. Len(log)
  BY <1>1 DEF TypedPreviewed, Loaded, StateType
<1>4. Len(log) \in Nat /\ Len(log) >= 1 /\ log \in Seq(Revision) /\ bound \in MapType
  BY ManualSyncAssumption DEF Typed
<1>5. after # <<>>
  <2>0. Len(after) \in Len(log) .. MaxClock
    BY <1>2
  <2> HIDE DEF after
  <2>1. Len(after) >= 1
    BY <2>0, <1>4, ManualSyncAssumption
  <2>2. Len(<<>>) = 0
    OBVIOUS
  <2> QED
    BY <2>1, <2>2
<1>6. after \in Seq(Revision) /\ Len(after) = Len(log) + Len(k.mutations)
  BY <1>3, <1>4, <1>5, AfterApplyType
<1>7. \A map \in MapType : \A e \in Ext : Made(e, map) \in Node \cup {None}
  <2> HIDE DEF after, k
  <2> QED
    BY <1>3, <1>4, <1>6, MadeType
<1>8. merged \in MapType /\ bound' \in MapType
  <2>1. \A e \in Ext : Made(e, k.state.map) \in Node \cup {None}
    BY <1>3, <1>7
  <2>2. \A e \in Ext : Made(e, bound) \in Node \cup {None}
    BY <1>4, <1>7
  <2> HIDE DEF Made
  <2> QED
    BY <1>2, <2>1, <2>2 DEF MapType
<1> HIDE DEF Made, merged, after
<1>9. RunTyped(new, Len(log'))
  <2>1. Len(log') \in Nat /\ Len(log) <= Len(log')
    BY <1>2, <1>4, <1>6
  <2>2. \A i \in DOMAIN k.ops : k.base + i \in 1 .. Len(log')
    BY <1>3, <1>4, <2>1
  <2>3. Plan(k.ops, k.base, merged) \subseteq PlanOp(Len(log'))
    BY <1>3, <2>2, PlanType
  <2>4. [e \in Ext |-> None] \in MapType
    BY DEF MapType
  <2> QED
    BY <1>2, <1>3, <1>8, <2>1, <2>3, <2>4 DEF RunTyped, TypedPerforming
<1>10. RunTyped([pc |-> "thrown"], Len(log'))
  BY DEF RunTyped, TypedEnding
<1>11. \E q : Continue(r, q) /\ RunTyped(q, Len(log'))
  BY <1>2, <1>9, <1>10
<1>12. have' \subseteq 1 .. Len(log')
  BY <1>2, <1>4 DEF Typed
<1>13. /\ ack' \in Nat \cup {None} /\ Rooted(tree') /\ disk' \in StateType
       /\ origin' \in [Ext -> Node \cup {None, "user"}] /\ steady' \in BOOLEAN /\ edits' \in 0 .. MaxEdits
  BY <1>2 DEF Typed
<1> QED
  BY <1>2, <1>6, <1>8, <1>11, <1>12, <1>13, TypedStep

(* A tree stays one of bookmarks that lie in others. *)
LEMMA RootedSteps ==
  ASSUME NEW t, Rooted(t), NEW e \in Ext
  PROVE  /\ \A p \in Ext, title \in Title : Rooted([t EXCEPT ![e] = [parent |-> p, title |-> title]])
         /\ t[e] # None => \A title \in Title : Rooted([t EXCEPT ![e].title = title])
         /\ t[e] # None => \A p \in Ext : Rooted([t EXCEPT ![e].parent = p])
         /\ \A D : Rooted([d \in Ext |-> IF d \in D THEN None ELSE t[d]])
<1>0. t \in [Ext -> Leaf \cup {None}]
  BY DEF Rooted, TreeType
<1>1. ASSUME NEW leaf \in Leaf, e # Bar => leaf.parent # None
      PROVE  Rooted([t EXCEPT ![e] = leaf])
  BY <1>0, <1>1 DEF Rooted, There, TreeType
<1>2. ASSUME NEW p \in Ext, NEW title \in Title
      PROVE  Rooted([t EXCEPT ![e] = [parent |-> p, title |-> title]])
  <2>1. [parent |-> p, title |-> title] \in Leaf /\ p # None
    BY ManualSyncAssumption DEF Ext, Leaf
  <2> QED
    BY <1>1, <2>1
<1>3. ASSUME t[e] # None, NEW title \in Title
      PROVE  Rooted([t EXCEPT ![e].title = title])
  <2>1. t[e] \in Leaf /\ (e # Bar => t[e].parent # None)
    BY <1>0, <1>3 DEF Rooted, There
  <2> DEFINE leaf == [t[e] EXCEPT !.title = title]
  <2>2. leaf \in Leaf /\ leaf.parent = t[e].parent
    BY <2>1 DEF Leaf
  <2> HIDE DEF leaf
  <2>3. Rooted([t EXCEPT ![e] = leaf])
    BY <1>1, <2>1, <2>2
  <2> QED
    BY <2>3 DEF leaf
<1>4. ASSUME t[e] # None, NEW p \in Ext
      PROVE  Rooted([t EXCEPT ![e].parent = p])
  <2>1. t[e] \in Leaf
    BY <1>0, <1>4
  <2> DEFINE leaf == [t[e] EXCEPT !.parent = p]
  <2>2. leaf \in Leaf /\ leaf.parent = p /\ p # None
    BY <2>1, ManualSyncAssumption DEF Ext, Leaf
  <2> HIDE DEF leaf
  <2>3. Rooted([t EXCEPT ![e] = leaf])
    BY <1>1, <2>2
  <2> QED
    BY <2>3 DEF leaf
<1>5. ASSUME NEW D PROVE Rooted([d \in Ext |-> IF d \in D THEN None ELSE t[d]])
  BY <1>0 DEF Rooted, There, TreeType
<1> QED
  BY <1>2, <1>3, <1>4, <1>5

LEMMA PlanShrinks ==
  ASSUME NEW k, NEW o,
         k = [pc |-> k.pc, state |-> k.state, clock |-> k.clock, map |-> k.map,
              plan |-> k.plan, made |-> k.made]
  PROVE  [k EXCEPT !.plan = @ \ {o}] =
           [pc |-> k.pc, state |-> k.state, clock |-> k.clock, map |-> k.map,
            plan |-> k.plan \ {o}, made |-> k.made]
  OBVIOUS

LEMMA TypedLocalStep ==
  ASSUME Typed, NEW r \in Run, LocalStep(r)
  PROVE  Typed'
<1> DEFINE k == run[r]
<1>1. TypedPerforming(k, Len(log))
  BY RunIsTyped DEF LocalStep, At
<1>2. /\ k = [pc |-> k.pc, state |-> k.state, clock |-> k.clock, map |-> k.map,
              plan |-> k.plan, made |-> k.made]
      /\ k.pc = "local" /\ k.state \in StateType /\ k.clock \in Nat /\ k.map \in MapType
      /\ k.plan \subseteq PlanOp(Len(log)) /\ k.made \in MapType
  BY <1>1 DEF TypedPerforming
<1>3. PICK o \in k.plan :
        /\ LET Known(e) == e # None /\ tree[e] # None
               rest == [k EXCEPT !.plan = @ \ {o}]
           IN \/ /\ o.phase = 1 /\ Known(o.parent)
                 /\ \E e \in Ext :
                      /\ Fresh(e)
                      /\ tree' = [tree EXCEPT ![e] = [parent |-> o.parent, title |-> o.title]]
                      /\ origin' = [origin EXCEPT ![e] = o.node]
                      /\ Continue(r, [rest EXCEPT !.made[e] = o.node])
              \/ /\ o.phase = 2 /\ Known(o.ext)
                 /\ tree' = [tree EXCEPT ![o.ext].title = o.title]
                 /\ Continue(r, rest) /\ UNCHANGED origin
              \/ /\ o.phase = 3 /\ Known(o.ext) /\ Known(o.parent)
                 /\ o.parent \notin Subtree(tree, o.ext)
                 /\ tree' = [tree EXCEPT ![o.ext].parent = o.parent]
                 /\ Continue(r, rest) /\ UNCHANGED origin
              \/ /\ o.phase = 4 /\ Known(o.ext)
                 /\ tree' = [e \in Ext |-> IF e \in Subtree(tree, o.ext) THEN None ELSE tree[e]]
                 /\ Continue(r, rest) /\ UNCHANGED origin
        /\ have' = have \cup {o.clock}
  BY DEF LocalStep
<1>4. /\ o.ext \in Ext \cup {None} /\ o.parent \in Ext \cup {None} /\ o.node \in Node
      /\ o.title \in Title /\ o.clock \in 1 .. Len(log)
  BY <1>2 DEF PlanOp
<1> DEFINE New(made) == [pc |-> k.pc, state |-> k.state, clock |-> k.clock, map |-> k.map,
                         plan |-> k.plan \ {o}, made |-> made]
           rest == [k EXCEPT !.plan = @ \ {o}]
<1>5. rest = New(k.made)
  BY <1>2, PlanShrinks
<1>6. \A e \in Ext : [rest EXCEPT !.made[e] = o.node] = New([k.made EXCEPT ![e] = o.node])
  <2> HIDE DEF rest
  <2> QED
    BY <1>5
<1>7. \A made \in MapType : RunTyped(New(made), Len(log))
  <2> SUFFICES ASSUME NEW made \in MapType PROVE RunTyped(New(made), Len(log))
    OBVIOUS
  <2>1. k.plan \ {o} \subseteq PlanOp(Len(log))
    BY <1>2
  <2>2. TypedPerforming(New(made), Len(log))
    BY <1>2, <2>1 DEF TypedPerforming
  <2> QED
    BY <2>2 DEF RunTyped
<1>8. \A e \in Ext : [k.made EXCEPT ![e] = o.node] \in MapType
  BY <1>2, <1>4 DEF MapType
<1>9. UNCHANGED <<log, bound, ack, disk, steady, edits>>
  BY DEF LocalStep
<1>10. Rooted(tree) /\ origin \in [Ext -> Node \cup {None, "user"}]
  BY DEF Typed
<1> HIDE DEF New, rest
<1>11. /\ \E q : Continue(r, q) /\ RunTyped(q, Len(log))
       /\ Rooted(tree') /\ origin' \in [Ext -> Node \cup {None, "user"}]
  <2>1. ASSUME NEW e \in Ext, o.parent # None,
               tree' = [tree EXCEPT ![e] = [parent |-> o.parent, title |-> o.title]],
               origin' = [origin EXCEPT ![e] = o.node],
               Continue(r, [rest EXCEPT !.made[e] = o.node])
        PROVE  /\ \E q : Continue(r, q) /\ RunTyped(q, Len(log))
               /\ Rooted(tree') /\ origin' \in [Ext -> Node \cup {None, "user"}]
    <3>1. Rooted(tree')
      BY <1>4, <1>10, <2>1, RootedSteps
    <3>2. origin' \in [Ext -> Node \cup {None, "user"}]
      BY <1>4, <1>10, <2>1
    <3> QED
      BY <1>6, <1>7, <1>8, <2>1, <3>1, <3>2
  <2>2. ASSUME Continue(r, rest), UNCHANGED origin, Rooted(tree')
        PROVE  /\ \E q : Continue(r, q) /\ RunTyped(q, Len(log))
               /\ Rooted(tree') /\ origin' \in [Ext -> Node \cup {None, "user"}]
    BY <1>2, <1>5, <1>7, <1>10, <2>2
  <2>3. CASE o.ext # None /\ tree[o.ext] # None /\ tree' = [tree EXCEPT ![o.ext].title = o.title]
             /\ Continue(r, rest) /\ UNCHANGED origin
    BY <1>4, <1>10, <2>2, <2>3, RootedSteps
  <2>4. CASE o.ext # None /\ tree[o.ext] # None /\ o.parent # None
             /\ tree' = [tree EXCEPT ![o.ext].parent = o.parent]
             /\ Continue(r, rest) /\ UNCHANGED origin
    BY <1>4, <1>10, <2>2, <2>4, RootedSteps
  <2>5. CASE o.ext # None
             /\ tree' = [e \in Ext |-> IF e \in Subtree(tree, o.ext) THEN None ELSE tree[e]]
             /\ Continue(r, rest) /\ UNCHANGED origin
    BY <1>4, <1>10, <2>2, <2>5, RootedSteps
  <2> QED
    BY <1>3, <2>1, <2>3, <2>4, <2>5 DEF rest
<1>12. have' \subseteq 1 .. Len(log')
  BY <1>3, <1>4, <1>9 DEF Typed
<1>13. /\ log' = log /\ log' \in Seq(Revision) /\ Len(log') \in Len(log) .. MaxClock
       /\ bound' \in MapType /\ ack' \in Nat \cup {None}
       /\ disk' \in StateType /\ steady' \in BOOLEAN /\ edits' \in 0 .. MaxEdits
  BY <1>9 DEF Typed
<1> QED
  BY <1>11, <1>12, <1>13, TypedStep

LEMMA TypedRecover ==
  ASSUME Typed, NEW r \in Run, Recover(r)
  PROVE  Typed'
<1>1. run[r].state \in StateType /\ run[r].map \in MapType
  BY RunIsTyped DEF Recover, At, TypedPerforming
<1>2. "recovery-required" \in Status
  BY DEF Status
<1> DEFINE s == run[r].state
           k == Ending(r, [cursor |-> s.cursor, map |-> run[r].map, known |-> s.known,
                           status |-> "recovery-required"])
<1>3. RunTyped(k, Len(log))
  BY <1>1, <1>2, EndingType
<1> HIDE DEF k
<1>4. Continue(r, k)
  BY DEF Recover, k
<1> QED
  BY <1>3, <1>4, TypedQuiet DEF Recover, Typed

LEMMA TypedReload ==
  ASSUME Typed, NEW r \in Run, Reload(r)
  PROVE  Typed'
<1> DEFINE k   == run[r]
           map == [e \in Ext |-> IF k.made[e] # None THEN k.made[e] ELSE k.map[e]]
           new == [pc |-> "ack", state |-> k.state, clock |-> k.clock, known |-> tree, map |-> map]
<1>1. k.clock \in Nat /\ k.map \in MapType /\ k.made \in MapType
  BY RunIsTyped DEF Reload, At, TypedPerforming
<1>2. map \in MapType
  BY <1>1 DEF MapType
<1> HIDE DEF map
<1>3. RunTyped(new, Len(log))
  BY <1>1, <1>2 DEF RunTyped, TypedEnding, Typed, Rooted
<1>4. Continue(r, new)
  BY DEF Reload, map
<1> QED
  BY <1>3, <1>4, TypedQuiet DEF Reload, Typed

LEMMA TypedAck ==
  ASSUME Typed, NEW r \in Run, Ack(r)
  PROVE  Typed'
<1> DEFINE k    == run[r]
           kept == IF ack # None /\ k.clock < ack THEN ack ELSE k.clock
           s    == [cursor |-> kept, map |-> k.map, known |-> k.known, status |-> "synced"]
           new  == [pc |-> "save", state |-> s, clock |-> k.clock]
<1>1. k.clock \in Nat /\ k.map \in MapType /\ k.known \in TreeType
  BY RunIsTyped DEF Ack, At, TypedEnding
<1>2. kept \in Nat
  BY <1>1 DEF Typed
<1> HIDE DEF kept
<1>3. s \in StateType
  BY <1>1, <1>2 DEF StateType, Status
<1> HIDE DEF s
<1>4. RunTyped(new, Len(log))
  BY <1>3 DEF RunTyped, TypedEnding
<1>5. Continue(r, new) /\ ack' = kept
  BY DEF Ack, Ending, s, kept
<1> QED
  BY <1>2, <1>4, <1>5, TypedQuiet DEF Ack, Typed

LEMMA TypedSave ==
  ASSUME Typed, NEW r \in Run, Save(r)
  PROVE  Typed'
<1>1. run[r].state \in StateType
  BY RunIsTyped DEF Save, At, TypedEnding
<1> QED
  BY <1>1, TypedQuiet DEF Save, Typed

LEMMA TypedDashboard ==
  ASSUME Typed, Dashboard
  PROVE  Typed'
<1>1. PICK op \in DashboardOps, n \in Node, p \in Node, title \in Title :
        Written(log, op, n, p, title) # <<>> /\ log' = Written(log, op, n, p, title)
  BY DEF Dashboard
<1>2. log \in Seq(Revision) /\ Len(log) \in Nat /\ Len(log) < MaxClock
  BY DEF Typed, Dashboard
<1>3. log' \in Seq(Revision) /\ Len(log') = Len(log) + 1
  BY <1>1, <1>2, WrittenType, ManualSyncAssumption
<1>4. UNCHANGED <<bound, ack, tree, disk, run, origin, have, steady, edits>>
  BY DEF Dashboard
<1>5. Len(log') \in Len(log) .. MaxClock /\ have' \subseteq 1 .. Len(log')
  BY <1>2, <1>3, <1>4, ManualSyncAssumption DEF Typed
<1>6. /\ bound' \in MapType /\ ack' \in Nat \cup {None} /\ Rooted(tree') /\ disk' \in StateType
      /\ origin' \in [Ext -> Node \cup {None, "user"}] /\ steady' \in BOOLEAN /\ edits' \in 0 .. MaxEdits
  BY <1>4 DEF Typed
<1> QED
  BY <1>3, <1>4, <1>5, <1>6, TypedStep

LEMMA TypedUserEdit ==
  ASSUME Typed, UserEdit
  PROVE  Typed'
<1>0. /\ Rooted(tree) /\ origin \in [Ext -> Node \cup {None, "user"}] /\ OneTitle \in Title
      /\ There(tree) \subseteq Ext
  BY ManualSyncAssumption DEF Typed, OneTitle, There
<1>1. Rooted(tree') /\ origin' \in [Ext -> Node \cup {None, "user"}]
  <2>1. ASSUME NEW e \in Ext, NEW p \in There(tree),
               tree' = [tree EXCEPT ![e] = [parent |-> p, title |-> OneTitle]],
               origin' = [origin EXCEPT ![e] = "user"]
        PROVE  Rooted(tree') /\ origin' \in [Ext -> Node \cup {None, "user"}]
    BY <1>0, <2>1, RootedSteps
  <2>2. ASSUME NEW e \in There(tree) \ {Bar}, UNCHANGED origin,
               \/ \E title \in Title \ {tree[e].title} : tree' = [tree EXCEPT ![e].title = title]
               \/ \E p \in There(tree) \ Subtree(tree, e) :
                    p # tree[e].parent /\ tree' = [tree EXCEPT ![e].parent = p]
               \/ tree' = [d \in Ext |-> IF d \in Subtree(tree, e) THEN None ELSE tree[d]]
        PROVE  Rooted(tree') /\ origin' \in [Ext -> Node \cup {None, "user"}]
    <3>1. e \in Ext /\ tree[e] # None
      BY DEF There
    <3>0. /\ \A title \in Title : Rooted([tree EXCEPT ![e].title = title])
          /\ \A p \in Ext : Rooted([tree EXCEPT ![e].parent = p])
          /\ \A D : Rooted([d \in Ext |-> IF d \in D THEN None ELSE tree[d]])
      BY <1>0, <3>1, RootedSteps
    <3>2. ASSUME \E title \in Title : tree' = [tree EXCEPT ![e].title = title]
          PROVE  Rooted(tree')
      <4>1. PICK title \in Title : tree' = [tree EXCEPT ![e].title = title]
        BY <3>2
      <4>2. Rooted([tree EXCEPT ![e].title = title])
        BY <3>0
      <4> QED
        BY <4>1, <4>2, Zenon
    <3>3. ASSUME \E p \in There(tree) : tree' = [tree EXCEPT ![e].parent = p]
          PROVE  Rooted(tree')
      <4>1. PICK p \in There(tree) : tree' = [tree EXCEPT ![e].parent = p]
        BY <3>3
      <4>2. Rooted([tree EXCEPT ![e].parent = p])
        BY <1>0, <3>0
      <4> QED
        BY <4>1, <4>2, Zenon
    <3>4. ASSUME tree' = [d \in Ext |-> IF d \in Subtree(tree, e) THEN None ELSE tree[d]]
          PROVE  Rooted(tree')
      <4>1. Rooted([d \in Ext |-> IF d \in Subtree(tree, e) THEN None ELSE tree[d]])
        BY <3>0
      <4> QED
        BY <3>4, <4>1, Zenon
    <3>5. Rooted(tree')
      BY <2>2, <3>2, <3>3, <3>4
    <3> QED
      BY <1>0, <2>2, <3>5
  <2> QED
    BY <2>1, <2>2 DEF UserEdit
<1>2. /\ UNCHANGED <<log, bound, ack, disk, run, have>> /\ steady' \in BOOLEAN
      /\ edits' \in 0 .. MaxEdits
  BY ManualSyncAssumption DEF UserEdit, Typed
<1>3. /\ log' \in Seq(Revision) /\ Len(log') \in Len(log) .. MaxClock
      /\ bound' \in MapType /\ ack' \in Nat \cup {None} /\ disk' \in StateType /\ have' \subseteq 1 .. Len(log')
  BY <1>2 DEF Typed
<1> QED
  BY <1>1, <1>2, <1>3, TypedStep

LEMMA TypedNext == Typed /\ [Next]_vars => Typed'
<1> SUFFICES ASSUME Typed, [Next]_vars PROVE Typed'
  OBVIOUS
<1>1. CASE UNCHANGED vars
  BY <1>1 DEF vars, Typed
<1>2. ASSUME NEW r \in Run, Abort(r) PROVE Typed'
  BY <1>2, TypedQuiet DEF Abort, Typed
<1> QED
  BY <1>1, <1>2, TypedDashboard, TypedUserEdit, TypedBegin, TypedReadTree, TypedPreview,
     TypedConfirm, TypedApply, TypedLocalStep, TypedRecover, TypedReload, TypedAck, TypedSave DEF Next

(* Every reachable state of the client, the server's tables and the browser *)
(* is well typed: whatever a plan or an upload is built from exists.       *)
THEOREM SyncClientTypes == Spec => []TypeOK
<1>1. Typed => TypeOK
  <2> SUFFICES ASSUME Typed PROVE TypeOK
    OBVIOUS
  <2>1. \A c \in DOMAIN log : log[c].node \in Node /\ log[c].row \in Row
    <3>1. \A c \in DOMAIN log : log[c] \in Revision
      BY DEF Typed
    <3> QED
      BY <3>1 DEF Revision
  <2>2. have \subseteq DOMAIN log
    BY DEF Typed
  <2> QED
    BY <2>1, <2>2 DEF Typed, TypeOK, MapType, StateType, TreeType, Rooted
<1> QED
  BY <1>1, TypedInit, TypedNext, PTL DEF Spec

-----------------------------------------------------------------------------
(* The cursor. *)

(* h are the clocks the browser has, n is the library's head.              *)
IsLog(s) == \E S : s \in Seq(S)
Covered(c, h, n) == c \in 0 .. n /\ 1 .. c \subseteq h

(* A stored state whose cursor the browser covers. *)
Sound(s, h, n) ==
  /\ s = [cursor |-> s.cursor, map |-> s.map, known |-> s.known, status |-> s.status]
  /\ s.cursor = None \/ Covered(s.cursor, h, n)

(* What a run relies on, by the await it stands at: its base is covered, its *)
(* preview carries everything after the base, and whatever is not yet in   *)
(* the browser when it performs the plan is still in the plan.             *)
Beginning(k, h, n) ==
  k.pc \in {"read", "preview"} /\ Sound(k.state, h, n) /\ Covered(k.base, h, n)
Previewed(k, h, n) ==
  /\ k.pc \in {"confirm", "apply"}
  /\ k = [pc |-> k.pc, state |-> k.state, base |-> k.base, to |-> k.to,
          mutations |-> k.mutations, ops |-> k.ops]
  /\ Sound(k.state, h, n) /\ Covered(k.base, h, n)
  /\ k.to \in k.base .. n /\ DOMAIN k.ops = 1 .. k.to - k.base
Performing(k, h, n) ==
  /\ k.pc = "local"
  /\ k = [pc |-> k.pc, state |-> k.state, clock |-> k.clock, map |-> k.map,
          plan |-> k.plan, made |-> k.made]
  /\ Sound(k.state, h, n)
  /\ k.clock \in 0 .. n
  /\ \A o \in k.plan : o.clock \in 1 .. n
  /\ \A c \in 1 .. k.clock : c \in h \/ \E o \in k.plan : o.clock = c
Finishing(k, h, n) ==
  \/ k.pc = "ack" /\ Covered(k.clock, h, n)
  \/ k.pc = "save" /\ Sound(k.state, h, n)
  \/ k.pc = "thrown"

RunSound(k, h, n) ==
  Beginning(k, h, n) \/ Previewed(k, h, n) \/ Performing(k, h, n) \/ Finishing(k, h, n)

PositionInv ==
  /\ IsLog(log) /\ Len(log) \in 0 .. MaxClock
  /\ have \subseteq 1 .. Len(log)
  /\ ack = None \/ Covered(ack, have, Len(log))
  /\ Sound(disk, have, Len(log))
  /\ run = [r \in Run |-> run[r]]
  /\ \A r \in Run : run[r] = None \/ RunSound(run[r], have, Len(log))

(* A log grows by one with each operation that is allowed. *)
LEMMA WrittenGrows ==
  ASSUME NEW lg, IsLog(lg), NEW op, NEW n, NEW p, NEW title, Written(lg, op, n, p, title) # <<>>
  PROVE  IsLog(Written(lg, op, n, p, title)) /\ Len(Written(lg, op, n, p, title)) = Len(lg) + 1
<1>1. PICK e : Written(lg, op, n, p, title) = Append(lg, e)
  BY DEF Written
<1>2. PICK S : lg \in Seq(S)
  BY DEF IsLog
<1>3. lg \in Seq(S \cup {e})
  BY <1>2
<1>4. Append(lg, e) \in Seq(S \cup {e}) /\ Len(Append(lg, e)) = Len(lg) + 1
  BY <1>3
<1> QED
  BY <1>1, <1>4 DEF IsLog

(* Nothing a client relies on is lost when the log and the browser grow.   *)
LEMMA SoundGrows ==
  ASSUME NEW h, NEW h2, NEW n \in Nat, NEW n2 \in Nat, h \subseteq h2, n <= n2
  PROVE  /\ \A c : Covered(c, h, n) => Covered(c, h2, n2)
         /\ \A s : Sound(s, h, n) => Sound(s, h2, n2)
         /\ \A k : RunSound(k, h, n) => RunSound(k, h2, n2)
<1>1. ASSUME NEW c, Covered(c, h, n) PROVE Covered(c, h2, n2)
  BY <1>1 DEF Covered
<1>2. ASSUME NEW s, Sound(s, h, n) PROVE Sound(s, h2, n2)
  BY <1>1, <1>2 DEF Sound
<1>3. ASSUME NEW k, RunSound(k, h, n) PROVE RunSound(k, h2, n2)
  <2>1. CASE Beginning(k, h, n)
    BY <1>1, <1>2, <2>1 DEF RunSound, Beginning
  <2>2. CASE Previewed(k, h, n)
    <3>1. k.to \in k.base .. n2
      BY <2>2 DEF Previewed, Covered
    <3> QED
      BY <1>1, <1>2, <2>2, <3>1 DEF RunSound, Previewed
  <2>3. CASE Performing(k, h, n)
    <3>1. k.clock \in 0 .. n2 /\ \A o \in k.plan : o.clock \in 1 .. n2
      BY <2>3 DEF Performing
    <3> QED
      BY <1>2, <2>3, <3>1 DEF RunSound, Performing
  <2>4. CASE Finishing(k, h, n)
    BY <1>1, <1>2, <2>4 DEF RunSound, Finishing
  <2> QED
    BY <1>3, <2>1, <2>2, <2>3, <2>4 DEF RunSound
<1> QED
  BY <1>1, <1>2, <1>3

LEMMA PositionInvInit == Init => PositionInv
<1> SUFFICES ASSUME Init PROVE PositionInv
  OBVIOUS
<1>1. IsLog(log) /\ Len(log) = 1
  <2>1. PICK e : log = <<e>>
    BY DEF Init
  <2>2. <<e>> \in Seq({e}) /\ Len(<<e>>) = 1
    OBVIOUS
  <2> QED
    BY <2>1, <2>2 DEF IsLog
<1>2. Covered(Start, have, Len(log)) /\ have \subseteq 1 .. Len(log)
  BY <1>1, ManualSyncAssumption DEF Init, Covered
<1>3. Sound(disk, have, Len(log))
  BY <1>2, ManualSyncAssumption DEF Init, Sound
<1> QED
  BY <1>1, <1>2, <1>3, ManualSyncAssumption DEF Init, PositionInv

(* A step of one run that touches neither the library nor the browser.     *)
LEMMA QuietStep ==
  ASSUME PositionInv, NEW r \in Run, NEW k, Continue(r, k),
         k = None \/ RunSound(k, have, Len(log)),
         UNCHANGED <<log, ack, disk, have>>
  PROVE  PositionInv'
<1>1. \A q \in Run : run'[q] = None \/ RunSound(run'[q], have, Len(log))
  BY DEF PositionInv, Continue
<1>2. run' = [q \in Run |-> run'[q]]
  BY DEF PositionInv, Continue
<1> QED
  BY <1>1, <1>2 DEF PositionInv

(* A step that adds to the library, or to the browser what the library has. *)
LEMMA GrowingStep ==
  ASSUME PositionInv,
         run' = run \/ \E r \in Run : \E k : Continue(r, k) /\ RunSound(k, have', Len(log')),
         IsLog(log'), Len(log') \in Len(log) .. MaxClock,
         have \subseteq have', have' \subseteq 1 .. Len(log'),
         UNCHANGED <<ack, disk>>
  PROVE  PositionInv'
<1>1. Len(log) \in Nat /\ Len(log') \in Nat /\ Len(log) <= Len(log')
  BY ManualSyncAssumption DEF PositionInv
<1>2. ack' = None \/ Covered(ack', have', Len(log'))
  BY <1>1, SoundGrows DEF PositionInv
<1>3. Sound(disk', have', Len(log'))
  BY <1>1, SoundGrows DEF PositionInv
<1>4. \A q \in Run : run[q] = None \/ RunSound(run[q], have', Len(log'))
  BY <1>1, SoundGrows DEF PositionInv
<1>5. \A q \in Run : run'[q] = None \/ RunSound(run'[q], have', Len(log'))
  BY <1>4 DEF PositionInv, Continue
<1>6. run' = [q \in Run |-> run'[q]]
  BY DEF PositionInv, Continue
<1>7. Len(log') \in 0 .. MaxClock
  BY <1>1, ManualSyncAssumption
<1> QED
  BY <1>2, <1>3, <1>5, <1>6, <1>7 DEF PositionInv

(* Each action of a run leaves that run with what it relies on.            *)
LEMMA BeginKeeps ==
  ASSUME PositionInv, NEW r \in Run, Begin(r)
  PROVE  PositionInv'
<1> DEFINE b == IF disk.cursor # None THEN disk.cursor ELSE IF ack # None THEN ack ELSE 0
           k == [pc |-> "read", state |-> disk, base |-> b]
<1>1. Covered(0, have, Len(log))
  BY DEF PositionInv, Covered
<1>2. Covered(b, have, Len(log))
  BY <1>1 DEF PositionInv, Sound
<1>3. Beginning(k, have, Len(log))
  BY <1>2 DEF PositionInv, Beginning
<1> QED
  BY <1>3, QuietStep DEF Begin, RunSound

LEMMA ReadTreeKeeps ==
  ASSUME PositionInv, NEW r \in Run, ReadTree(r)
  PROVE  PositionInv'
<1>0. PICK list : Continue(r, [pc |-> "preview", state |-> run[r].state, base |-> run[r].base,
                               mutations |-> list])
  BY DEF ReadTree
<1> DEFINE k == [pc |-> "preview", state |-> run[r].state, base |-> run[r].base,
                 mutations |-> list]
<1>1. Beginning(run[r], have, Len(log))
  BY DEF PositionInv, RunSound, Beginning, Previewed, Performing, Finishing, ReadTree, At
<1>2. Beginning(k, have, Len(log))
  BY <1>1 DEF Beginning
<1> QED
  BY <1>0, <1>2, QuietStep DEF ReadTree, RunSound

(* A run ends with its state as it was loaded but for mapping and status.  *)
LEMMA EndingSound ==
  ASSUME NEW s, NEW h, NEW n, NEW r, Sound(s, h, n), NEW m, NEW x
  PROVE  /\ RunSound(Ending(r, [s EXCEPT !.status = x]), h, n)
         /\ RunSound(Ending(r, [cursor |-> s.cursor, map |-> m, known |-> s.known, status |-> x]), h, n)
<1>1. Sound([s EXCEPT !.status = x], h, n)
  BY DEF Sound
<1>2. Sound([cursor |-> s.cursor, map |-> m, known |-> s.known, status |-> x], h, n)
  BY DEF Sound
<1> QED
  BY <1>1, <1>2 DEF RunSound, Finishing, Ending

LEMMA PreviewKeeps ==
  ASSUME PositionInv, OpsLimit >= MaxClock, NEW r \in Run, Preview(r)
  PROVE  PositionInv'
<1> DEFINE k    == run[r]
           last == IF k.base + OpsLimit < Len(log) THEN k.base + OpsLimit ELSE Len(log)
           got  == [pc |-> "confirm", state |-> k.state, base |-> k.base, to |-> Len(log),
                    mutations |-> k.mutations, ops |-> SubSeq(log, k.base + 1, last)]
           bad  == Ending(r, [k.state EXCEPT !.status = "needs-user-resolution"])
<1>1. Beginning(k, have, Len(log))
  BY DEF PositionInv, RunSound, Beginning, Previewed, Performing, Finishing, Preview, At
<1>2. CASE Continue(r, bad)
  <2>1. RunSound(bad, have, Len(log))
    BY <1>1, EndingSound DEF Beginning
  <2> QED
    BY <1>2, <2>1, QuietStep DEF Preview
<1>3. CASE Continue(r, got)
  <2>1. last = Len(log) /\ k.base \in 0 .. Len(log)
    BY <1>1, ManualSyncAssumption DEF Beginning, Covered, PositionInv
  <2>2. DOMAIN SubSeq(log, k.base + 1, last) = 1 .. Len(log) - k.base
    <3>1. PICK S : log \in Seq(S)
      BY DEF PositionInv, IsLog
    <3> QED
      BY <2>1, <3>1
  <2>3. Previewed(got, have, Len(log))
    BY <1>1, <2>1, <2>2 DEF Previewed, Beginning, PositionInv
  <2> QED
    BY <1>3, <2>3, QuietStep DEF Preview, RunSound
<1> QED
  BY <1>2, <1>3 DEF Preview

LEMMA ConfirmKeeps ==
  ASSUME PositionInv, NEW r \in Run, Confirm(r)
  PROVE  PositionInv'
<1> DEFINE yes == [run[r] EXCEPT !.pc = "apply"]
           no  == Ending(r, [run[r].state EXCEPT !.status = "awaiting-confirmation"])
<1>1. Previewed(run[r], have, Len(log))
  BY DEF PositionInv, RunSound, Beginning, Previewed, Performing, Finishing, Confirm, At
<1>2. RunSound(no, have, Len(log))
  BY <1>1, EndingSound DEF Previewed
<1>3. Previewed(yes, have, Len(log))
  BY <1>1 DEF Previewed
<1> QED
  BY <1>2, <1>3, QuietStep DEF Confirm, RunSound

(* Up to the clock the server answers with, a revision is one below the     *)
(* base, one of the plan, or one of the client's own.                      *)
LEMMA ApplyKeeps ==
  ASSUME PositionInv, NEW r \in Run, Apply(r), log' \in Seq(Revision)
  PROVE  PositionInv' /\ Len(log') >= Len(log) /\ have \subseteq have' /\ have' \subseteq 1 .. Len(log')
<1> DEFINE k    == run[r]
           own  == Len(log) + 1 .. Len(log')
<1>1. /\ Previewed(k, have, Len(log)) /\ k.to = Len(log)
      /\ log' \in Seq(Revision) /\ Len(log') \in Len(log) .. MaxClock
      /\ have' = have \cup own
      /\ UNCHANGED <<ack, disk>>
  BY DEF PositionInv, RunSound, Beginning, Previewed, Performing, Finishing, Apply, At
<1>2. Len(log) \in Nat /\ Len(log') \in Nat /\ Len(log') >= Len(log)
  BY <1>1, ManualSyncAssumption DEF PositionInv
<1>3. have \subseteq have' /\ have' \subseteq 1 .. Len(log')
  BY <1>1, <1>2 DEF PositionInv
<1>4. PICK map, made, after :
        /\ after = log'
        /\ Continue(r, IF Plannable(k.ops)
             THEN [pc |-> "local", state |-> k.state, clock |-> Len(after), map |-> map,
                   plan |-> Plan(k.ops, k.base, map), made |-> made]
             ELSE [pc |-> "thrown"])
  BY DEF Apply
<1> DEFINE new == [pc |-> "local", state |-> k.state, clock |-> Len(log'), map |-> map,
                   plan |-> Plan(k.ops, k.base, map), made |-> made]
<1>5. Performing(new, have', Len(log'))
  <2>0. Sound(k.state, have, Len(log)) /\ Covered(k.base, have, Len(log))
    BY <1>1 DEF Previewed
  <2>1. Sound(k.state, have', Len(log'))
    <3>1. \A s : Sound(s, have, Len(log)) => Sound(s, have', Len(log'))
      BY <1>2, <1>3, SoundGrows
    <3> QED
      BY <2>0, <3>1
  <2>2. k.base \in 0 .. Len(log) /\ DOMAIN k.ops = 1 .. Len(log) - k.base
    BY <1>1 DEF Previewed, Covered
  <2>3. \A o \in new.plan : o.clock \in 1 .. Len(log')
    BY <1>2, <2>2 DEF Plan
  <2>4. ASSUME NEW c \in 1 .. Len(log') PROVE c \in have' \/ \E o \in new.plan : o.clock = c
    <3>1. CASE c \in 1 .. k.base
      BY <2>0, <1>3, <3>1 DEF Covered
    <3>2. CASE c \in k.base + 1 .. Len(log)
      <4>1. c - k.base \in DOMAIN k.ops /\ k.base + (c - k.base) = c
        BY <1>2, <2>2, <3>2
      <4> DEFINE i == c - k.base
                 o == [phase |-> PhaseOf(k.ops[i].op), ext |-> BrowserIdOf(map, k.ops[i].node),
                       parent |-> BrowserIdOf(map, k.ops[i].row.parent), node |-> k.ops[i].node,
                       title |-> k.ops[i].row.title, clock |-> k.base + i]
      <4>2. o \in new.plan
        BY <4>1 DEF Plan
      <4> QED
        BY <4>1, <4>2
    <3>3. CASE c \in own
      BY <1>1, <3>3
    <3> QED
      BY <1>2, <2>2, <3>1, <3>2, <3>3
  <2> QED
    BY <1>2, <2>1, <2>3, <2>4 DEF Performing
<1>6. \E k2 : Continue(r, k2) /\ RunSound(k2, have', Len(log'))
  <2>1. RunSound([pc |-> "thrown"], have', Len(log'))
    BY DEF RunSound, Finishing
  <2> QED
    BY <1>4, <1>5, <2>1 DEF RunSound
<1>7. IsLog(log')
  BY <1>1 DEF IsLog
<1> QED
  BY <1>1, <1>2, <1>3, <1>6, <1>7, GrowingStep

LEMMA LocalStepKeeps ==
  ASSUME PositionInv, NEW r \in Run, LocalStep(r)
  PROVE  PositionInv' /\ have \subseteq have' /\ have' \subseteq 1 .. Len(log')
<1> DEFINE k == run[r]
<1>1. Performing(k, have, Len(log))
  BY DEF PositionInv, RunSound, Beginning, Previewed, Performing, Finishing, LocalStep, At
<1>2. PICK o \in k.plan :
        /\ \/ Continue(r, [k EXCEPT !.plan = @ \ {o}])
           \/ \E e \in Ext : Continue(r, [[k EXCEPT !.plan = @ \ {o}] EXCEPT !.made[e] = o.node])
        /\ have' = have \cup {o.clock}
  BY DEF LocalStep
<1>3. PICK made : Continue(r, [pc |-> k.pc, state |-> k.state, clock |-> k.clock, map |-> k.map,
                               plan |-> k.plan \ {o}, made |-> made])
  <2>1. k = [pc |-> k.pc, state |-> k.state, clock |-> k.clock, map |-> k.map,
             plan |-> k.plan, made |-> k.made]
    BY <1>1 DEF Performing
  <2> QED
    <3>1. CASE Continue(r, [k EXCEPT !.plan = @ \ {o}])
      <4>1. [k EXCEPT !.plan = @ \ {o}] =
              [pc |-> k.pc, state |-> k.state, clock |-> k.clock, map |-> k.map,
               plan |-> k.plan \ {o}, made |-> k.made]
        BY <2>1, PlanShrinks
      <4> QED
        BY <3>1, <4>1
    <3>2. ASSUME NEW e \in Ext, Continue(r, [[k EXCEPT !.plan = @ \ {o}] EXCEPT !.made[e] = o.node])
          PROVE  \E made : Continue(r, [pc |-> k.pc, state |-> k.state, clock |-> k.clock, map |-> k.map,
                                        plan |-> k.plan \ {o}, made |-> made])
      <4>1. [[k EXCEPT !.plan = @ \ {o}] EXCEPT !.made[e] = o.node] =
              [pc |-> k.pc, state |-> k.state, clock |-> k.clock, map |-> k.map,
               plan |-> k.plan \ {o}, made |-> [k.made EXCEPT ![e] = o.node]]
        <5> DEFINE less == [k EXCEPT !.plan = @ \ {o}]
        <5>1. less = [pc |-> k.pc, state |-> k.state, clock |-> k.clock, map |-> k.map,
                      plan |-> k.plan \ {o}, made |-> k.made]
          BY <2>1, PlanShrinks
        <5> HIDE DEF less
        <5>2. [less EXCEPT !.made[e] = o.node] =
                [pc |-> k.pc, state |-> k.state, clock |-> k.clock, map |-> k.map,
                 plan |-> k.plan \ {o}, made |-> [k.made EXCEPT ![e] = o.node]]
          BY <5>1
        <5> QED
          BY <5>2 DEF less
      <4> QED
        BY <3>2, <4>1
    <3> QED
      BY <1>2, <3>1, <3>2
<1> DEFINE new == [pc |-> k.pc, state |-> k.state, clock |-> k.clock, map |-> k.map,
                   plan |-> k.plan \ {o}, made |-> made]
<1>4. UNCHANGED <<log, ack, disk>> /\ Len(log) \in Nat
  <2>1. UNCHANGED <<log, ack, disk>>
    BY DEF LocalStep
  <2> QED
    BY <2>1, ManualSyncAssumption DEF PositionInv
<1>5. Len(log') = Len(log) /\ have \subseteq have' /\ have' \subseteq 1 .. Len(log')
  BY <1>1, <1>2, <1>4 DEF Performing, PositionInv
<1>6. Performing(new, have', Len(log'))
  <2>0. Sound(k.state, have, Len(log))
    BY <1>1 DEF Performing
  <2>1. Sound(k.state, have', Len(log'))
    <3>1. \A s : Sound(s, have, Len(log)) => Sound(s, have', Len(log'))
      <4>1. Len(log) \in Nat /\ Len(log') \in Nat /\ Len(log) <= Len(log')
        BY <1>4, <1>5
      <4> QED
        BY <1>5, <4>1, SoundGrows
    <3> QED
      BY <2>0, <3>1
  <2> QED
    BY <1>1, <1>2, <1>4, <2>1 DEF Performing
<1>7. IsLog(log') /\ Len(log') \in Len(log) .. MaxClock
  BY <1>4, ManualSyncAssumption DEF PositionInv
<1> QED
  BY <1>3, <1>4, <1>5, <1>6, <1>7, GrowingStep DEF RunSound

LEMMA RecoverKeeps ==
  ASSUME PositionInv, NEW r \in Run, Recover(r)
  PROVE  PositionInv'
<1>1. Performing(run[r], have, Len(log))
  BY DEF PositionInv, RunSound, Beginning, Previewed, Performing, Finishing, Recover, At
<1>2. Sound(run[r].state, have, Len(log))
  BY <1>1 DEF Performing
<1>3. \A m, x : RunSound(Ending(r, [cursor |-> run[r].state.cursor, map |-> m,
                                   known |-> run[r].state.known, status |-> x]), have, Len(log))
  BY <1>2, EndingSound
<1> QED
  BY <1>3, QuietStep DEF Recover

(* The plan is empty: everything up to the clock is in the browser.        *)
LEMMA ReloadKeeps ==
  ASSUME PositionInv, NEW r \in Run, Reload(r)
  PROVE  PositionInv'
<1>1. Performing(run[r], have, Len(log)) /\ run[r].plan = {}
  BY DEF PositionInv, RunSound, Beginning, Previewed, Performing, Finishing, Reload, At
<1>2. Covered(run[r].clock, have, Len(log))
  BY <1>1 DEF Performing, Covered
<1>3. PICK map, known, state : Continue(r, [pc |-> "ack", state |-> state, clock |-> run[r].clock,
                                            known |-> known, map |-> map])
  BY DEF Reload
<1>4. RunSound([pc |-> "ack", state |-> state, clock |-> run[r].clock,
                known |-> known, map |-> map], have, Len(log))
  BY <1>2 DEF RunSound, Finishing
<1> QED
  BY <1>3, <1>4, QuietStep DEF Reload

(* The acknowledgement, and the cursor the run will store, are covered.     *)
LEMMA AckKeeps ==
  ASSUME PositionInv, NEW r \in Run, Ack(r)
  PROVE  /\ PositionInv'
         /\ ack' \in 0 .. Len(log) /\ 1 .. ack' \subseteq have
         /\ ack # None => ack' >= ack
         /\ UNCHANGED <<log, have>>
<1> DEFINE kept == IF ack # None /\ run[r].clock < ack THEN ack ELSE run[r].clock
<1>1. Covered(run[r].clock, have, Len(log))
  BY DEF PositionInv, RunSound, Beginning, Previewed, Performing, Finishing, Ack, At
<1>2. UNCHANGED <<log, disk, have>> /\ ack' = kept
  BY DEF Ack
<1>3. Covered(kept, have, Len(log)) /\ (ack # None => kept >= ack)
  BY <1>1 DEF PositionInv, Covered
<1>4. PICK map, known : Continue(r, [Ending(r, [cursor |-> kept, map |-> map, known |-> known,
                                                status |-> "synced"]) EXCEPT !.clock = run[r].clock])
  BY DEF Ack
<1>5. [Ending(r, [cursor |-> kept, map |-> map, known |-> known, status |-> "synced"])
         EXCEPT !.clock = run[r].clock]
      = [pc |-> "save", clock |-> run[r].clock,
         state |-> [cursor |-> kept, map |-> map, known |-> known, status |-> "synced"]]
  BY DEF Ending
<1>6. RunSound([pc |-> "save", clock |-> run[r].clock,
         state |-> [cursor |-> kept, map |-> map, known |-> known, status |-> "synced"]], have, Len(log))
  BY <1>3 DEF RunSound, Finishing, Sound
<1>7. \A q \in Run : run'[q] = None \/ RunSound(run'[q], have, Len(log))
  BY <1>4, <1>5, <1>6 DEF PositionInv, Continue
<1>8. run' = [q \in Run |-> run'[q]]
  BY <1>4 DEF PositionInv, Continue
<1>9. PositionInv'
  BY <1>2, <1>3, <1>7, <1>8 DEF PositionInv
<1> QED
  BY <1>2, <1>3, <1>9 DEF Covered

LEMMA SaveKeeps ==
  ASSUME PositionInv, NEW r \in Run, Save(r)
  PROVE  PositionInv'
<1>1. Sound(run[r].state, have, Len(log))
  BY DEF PositionInv, RunSound, Beginning, Previewed, Performing, Finishing, Save, At
<1>2. disk' = run[r].state /\ Continue(r, None) /\ UNCHANGED <<log, ack, have>>
  BY DEF Save
<1>3. \A q \in Run : run'[q] = None \/ RunSound(run'[q], have, Len(log))
  BY <1>2 DEF PositionInv, Continue
<1>4. run' = [q \in Run |-> run'[q]]
  BY <1>2 DEF PositionInv, Continue
<1> QED
  BY <1>1, <1>2, <1>3, <1>4 DEF PositionInv

LEMMA DashboardKeeps ==
  ASSUME PositionInv, Dashboard
  PROVE  PositionInv' /\ Len(log') >= Len(log) /\ have' = have /\ have' \subseteq 1 .. Len(log')
<1>1. IsLog(log) /\ Len(log) \in Nat /\ Len(log) < MaxClock
  BY ManualSyncAssumption DEF PositionInv, Dashboard
<1>2. PICK op, n, p, title : Written(log, op, n, p, title) # <<>> /\ log' = Written(log, op, n, p, title)
  BY DEF Dashboard
<1>3. IsLog(log') /\ Len(log') = Len(log) + 1
  BY <1>1, <1>2, WrittenGrows
<1>4. UNCHANGED <<ack, disk, run, have>>
  BY DEF Dashboard
<1>5. have' \subseteq 1 .. Len(log') /\ Len(log') \in Len(log) .. MaxClock
  BY <1>1, <1>3, <1>4, ManualSyncAssumption DEF PositionInv
<1> QED
  BY <1>1, <1>3, <1>4, <1>5, GrowingStep

LEMMA UserEditKeeps ==
  ASSUME PositionInv, UserEdit \/ UNCHANGED vars
  PROVE  PositionInv' /\ UNCHANGED <<log, have, ack>>
  BY DEF UserEdit, vars, PositionInv

(* Each step grows the library or the browser, acknowledges, or is silent.  *)
LEMMA StepRefines ==
  ASSUME OpsLimit >= MaxClock, Typed, PositionInv, [Next]_vars
  PROVE  PositionInv' /\ [Position!Grow \/ Position!Acknowledge]_(Position!posVars)
<1> USE DEF Position!Grow, Position!Acknowledge, Position!posVars
<1>0. Len(log) \in Nat
  BY ManualSyncAssumption DEF PositionInv
<1>1. CASE Dashboard
  BY <1>1, DashboardKeeps DEF Dashboard
<1>2. CASE UserEdit \/ UNCHANGED vars
  BY <1>2, UserEditKeeps
<1>3. ASSUME NEW r \in Run, Begin(r) \/ ReadTree(r) \/ Preview(r) \/ Confirm(r) \/ Recover(r)
                            \/ Reload(r) \/ Save(r) \/ Abort(r)
      PROVE  PositionInv' /\ UNCHANGED <<log, have, ack>>
  <2>1. UNCHANGED <<log, have, ack>>
    BY <1>3 DEF Begin, ReadTree, Preview, Confirm, Recover, Reload, Save, Abort
  <2>2. ASSUME Abort(r) PROVE PositionInv'
    BY <2>2, QuietStep DEF Abort
  <2> QED
    BY <1>3, <2>1, <2>2, BeginKeeps, ReadTreeKeeps, PreviewKeeps, ConfirmKeeps, RecoverKeeps,
       ReloadKeeps, SaveKeeps
<1>4. ASSUME NEW r \in Run, Apply(r) PROVE PositionInv' /\ Position!Grow
  BY <1>4, TypedApply, ApplyKeeps DEF Apply
<1>5. ASSUME NEW r \in Run, LocalStep(r) PROVE PositionInv' /\ Position!Grow
  <2>1. log' = log /\ ack' = ack
    BY <1>5 DEF LocalStep
  <2> QED
    BY <1>0, <1>5, <2>1, LocalStepKeeps
<1>6. ASSUME NEW r \in Run, Ack(r) PROVE PositionInv' /\ Position!Acknowledge
  BY <1>6, AckKeeps
<1> QED
  BY <1>1, <1>2, <1>3, <1>4, <1>5, <1>6 DEF Next

(* The client's cursor implements SyncPosition for every library, browser,  *)
(* plan and number of runs, when no preview is cut off by OpsLimit.        *)
THEOREM PositionRefined ==
  ASSUME OpsLimit >= MaxClock
  PROVE  Spec => ImplementsPosition
<1>1. Init => Position!PositionInit
  <2> SUFFICES ASSUME Init PROVE Position!PositionInit
    OBVIOUS
  <2>1. PositionInv
    BY PositionInvInit
  <2> QED
    BY <2>1, ManualSyncAssumption DEF PositionInv, Covered, Position!PositionInit
<1>2. Typed /\ PositionInv /\ [Next]_vars =>
        PositionInv' /\ [Position!Grow \/ Position!Acknowledge]_(Position!posVars)
  BY StepRefines
<1> QED
  BY <1>1, <1>2, PositionInvInit, TypedInit, TypedNext, PTL DEF Spec, ImplementsPosition, Position!PositionSpec

-----------------------------------------------------------------------------
(* Nothing is echoed: what a run created in the browser for a server node   *)
(* is not uploaded as new.  The argument is for one run at a time and a    *)
(* stored cursor: with two, the state that the later one saves forgets the *)
(* bookmarks that the earlier one created.                                 *)

OneRun == \A r, q \in Run : r = q

(* A map never gives a browser id that a run created for one node to       *)
(* another, and never one that was not yet used.                           *)
Maps(map, org) == \A e \in Ext : map[e] # None => org[e] \in {"user", map[e]}

(* A bookmark that a run created and that this map does not know. *)
Stray(e, t, map, org) == e \in There(t) \ {Bar} /\ org[e] # "user" /\ map[e] = None

(* Strays lie only in the browser of a client that is behind. *)
BehindAt(s, t, org, n) == \A e \in Ext : Stray(e, t, s.map, org) => s.cursor < n

OwnCreates(list, org) ==
  \A i \in DOMAIN list : list[i].op = "create" => org[list[i].ext] = "user"

(* What a run relies on, when d is the stored state, t the browser's tree,  *)
(* org where its ids came from and n the library's head.                   *)
EchoLoaded(k, d) ==
  /\ k.pc \in {"read", "preview", "confirm", "apply", "local"} => k.state = d
  /\ k.pc \in {"read", "preview", "confirm", "apply"} => k.base = d.cursor
EchoDiff(k, d, t, org, n) ==
  k.pc = "preview" => /\ k.base < n \/ OwnCreates(k.mutations, org)
                      /\ \A e \in Ext : Stray(e, t, d.map, org) => k.mutations # <<>>
EchoPreviewed(k, d, t, org) ==
  k.pc \in {"confirm", "apply"} =>
    OwnCreates(k.mutations, org) /\ \A e \in Ext : ~Stray(e, t, d.map, org)
EchoPerforming(k, d, t, org, n) ==
  k.pc = "local" => /\ Maps(k.map, org)
                    /\ \A e \in Ext : k.made[e] # None => org[e] = k.made[e]
                    /\ \A e \in Ext : Stray(e, t, k.map, org) => k.made[e] # None
                    /\ k.plan # {} => d.cursor < n
EchoEnding(k, t, org, n) ==
  /\ k.pc = "ack" => Maps(k.map, org) /\ \A e \in Ext : ~Stray(e, t, k.map, org)
  /\ k.pc = "save" => Maps(k.state.map, org) /\ k.state.cursor # None /\ BehindAt(k.state, t, org, n)

EchoRun(k, d, t, org, n) ==
  /\ EchoLoaded(k, d) /\ EchoDiff(k, d, t, org, n) /\ EchoPreviewed(k, d, t, org)
  /\ EchoPerforming(k, d, t, org, n) /\ EchoEnding(k, t, org, n)

EchoInv ==
  /\ Maps(bound, origin) /\ Maps(disk.map, origin) /\ disk.cursor # None
  /\ \A e \in There(tree) : origin[e] # None
  /\ BehindAt(disk, tree, origin, Len(log))
  /\ \A r \in Run : run[r] # None => EchoRun(run[r], disk, tree, origin, Len(log))

LEMMA EchoInit ==
  ASSUME Init, FirstCursor # None
  PROVE  EchoInv
<1>1. \A e \in Ext : bound[e] # None => e = Bar /\ origin[e] = bound[e]
  BY DEF Init
<1>2. \A e \in There(tree) : e = Bar /\ origin[e] # None
  BY ManualSyncAssumption DEF Init, There
<1>3. disk.cursor # None /\ disk.map = bound
  BY ManualSyncAssumption DEF Init
<1>4. \A r \in Run : run[r] = None
  BY DEF Init
<1> QED
  BY <1>1, <1>2, <1>3, <1>4, ManualSyncAssumption DEF Init, EchoInv, Maps, BehindAt, Stray

LEMMA OnlyRun ==
  ASSUME Typed, OneRun, NEW r \in Run, NEW k, Continue(r, k)
  PROVE  \A q \in Run : run'[q] = k
BY DEF Typed, OneRun, Continue

(* A step of the run that changes nothing but the run. *)
LEMMA EchoQuiet ==
  ASSUME Typed, EchoInv, OneRun, NEW r \in Run, NEW k, Continue(r, k),
         k # None => EchoRun(k, disk, tree, origin, Len(log)),
         UNCHANGED <<log, bound, tree, disk, origin>>
  PROVE  EchoInv'
<1>1. \A q \in Run : run'[q] # None => EchoRun(run'[q], disk, tree, origin, Len(log))
  BY OnlyRun
<1>2. /\ log' = log /\ bound' = bound /\ tree' = tree /\ disk' = disk /\ origin' = origin
  OBVIOUS
<1> QED
  BY <1>1, <1>2 DEF EchoInv

(* A run at some await does not rely on what one at another does. *)
LEMMA EchoAt ==
  ASSUME NEW k, NEW d, NEW t, NEW org, NEW n
  PROVE  /\ k.pc = "read" /\ EchoLoaded(k, d) => EchoRun(k, d, t, org, n)
         /\ k.pc = "preview" /\ EchoLoaded(k, d) /\ EchoDiff(k, d, t, org, n) => EchoRun(k, d, t, org, n)
         /\ k.pc \in {"confirm", "apply"} /\ EchoLoaded(k, d) /\ EchoPreviewed(k, d, t, org)
              => EchoRun(k, d, t, org, n)
         /\ k.pc = "local" /\ EchoLoaded(k, d) /\ EchoPerforming(k, d, t, org, n)
              => EchoRun(k, d, t, org, n)
         /\ k.pc \in {"ack", "save"} /\ EchoEnding(k, t, org, n) => EchoRun(k, d, t, org, n)
         /\ k.pc = "thrown" => EchoRun(k, d, t, org, n)
BY DEF EchoRun, EchoLoaded, EchoDiff, EchoPreviewed, EchoPerforming, EchoEnding

LEMMA EchoBegin ==
  ASSUME Typed, EchoInv, OneRun, NEW r \in Run, Begin(r)
  PROVE  EchoInv'
<1> DEFINE k == [pc |-> "read", state |-> disk, base |-> disk.cursor]
<1>1. Continue(r, k) /\ UNCHANGED <<log, bound, tree, disk, origin>>
  BY DEF Begin, EchoInv
<1>2. EchoRun(k, disk, tree, origin, Len(log))
  BY EchoAt DEF EchoLoaded
<1> QED
  BY <1>1, <1>2, EchoQuiet

(* A create is uploaded for a bookmark that is not mapped. *)
LEMMA CreatesAreUnmapped ==
  ASSUME NEW t, Rooted(t), NEW state \in StateType, NEW list \in Mutations(t, state)
  PROVE  /\ list \in Seq(Mutation)
         /\ \A i \in DOMAIN list : list[i].op = "create" =>
              list[i].ext \in There(t) \ {Bar} /\ state.map[list[i].ext] = None
         /\ \A e \in There(t) \ {Bar} : state.map[e] = None => list # <<>>
<1> DEFINE map == state.map
           old == state.known
           all == Changes(t, map, old)
           now == There(t) \ {Bar}
           both == {e \in now : map[e] # None /\ old[e] # None}
           C == {Placed(t, map, "create", e) : e \in {d \in now : map[d] = None}}
           U == {Fill(t, map, "update", e) : e \in {d \in both : t[d].title # old[d].title}}
           M == {Placed(t, map, "move", e) : e \in {d \in both : t[d].parent # old[d].parent}}
           D == {Fill(t, map, "delete", e) : e \in {d \in There(old) \ There(t) : map[d] # None}}
<1>1. list \in Seq(Mutation) /\ ToSet(list) = all
  BY MutationsType
<1>2. all = C \cup U \cup M \cup D
  BY DEF Changes
<1>3. \A op, e : /\ Fill(t, map, op, e).op = op /\ Fill(t, map, op, e).ext = e
                 /\ Placed(t, map, op, e).op = op /\ Placed(t, map, op, e).ext = e
  <2> SUFFICES ASSUME NEW op, NEW e
               PROVE  /\ Fill(t, map, op, e).op = op /\ Fill(t, map, op, e).ext = e
                      /\ Placed(t, map, op, e).op = op /\ Placed(t, map, op, e).ext = e
    OBVIOUS
  <2> DEFINE f == Fill(t, map, op, e)
             p == map[t[e].parent]
             x == IF p = None THEN t[e].parent ELSE None
             node == map[e]
             title == IF t[e] = None THEN None ELSE t[e].title
  <2>1. f = [op |-> op, ext |-> e, node |-> node, parent |-> None, parentExt |-> None, title |-> title]
    BY DEF Fill
  <2>2. Placed(t, map, op, e) = [f EXCEPT !.parent = p, !.parentExt = x]
    BY DEF Placed
  <2> HIDE DEF f, p, x, title, node
  <2>3. f.op = op /\ f.ext = e
    BY <2>1
  <2>4. [f EXCEPT !.parent = p, !.parentExt = x].op = op /\ [f EXCEPT !.parent = p, !.parentExt = x].ext = e
    BY <2>1
  <2> QED
    BY <2>2, <2>3, <2>4 DEF f
<1>4. \A m \in C : m.op = "create" /\ m.ext \in now /\ map[m.ext] = None
  BY <1>3
<1>5. \A m \in U : m.op = "update"
  BY <1>3
<1>6. \A m \in M : m.op = "move"
  BY <1>3
<1>7. \A m \in D : m.op = "delete"
  BY <1>3
<1> HIDE DEF C, U, M, D, all, map, old
<1>8. \A m \in all : m.op = "create" => m.ext \in now /\ map[m.ext] = None
  BY <1>2, <1>4, <1>5, <1>6, <1>7
<1>9. \A i \in DOMAIN list : list[i] \in all
  BY <1>1 DEF ToSet
<1>10. ASSUME NEW e \in now, map[e] = None PROVE list # <<>>
  <2>1. Placed(t, map, "create", e) \in all
    BY <1>2, <1>10 DEF C
  <2>2. \E i \in DOMAIN list : TRUE
    BY <1>1, <2>1 DEF ToSet
  <2> QED
    BY <2>2
<1> QED
  BY <1>1, <1>8, <1>9, <1>10 DEF map

LEMMA EchoReadTree ==
  ASSUME Typed, EchoInv, OneRun, NEW r \in Run, ReadTree(r)
  PROVE  EchoInv'
<1>1. PICK list \in Mutations(tree, run[r].state) :
        Continue(r, [pc |-> "preview", state |-> run[r].state, base |-> run[r].base,
                     mutations |-> list])
  BY DEF ReadTree
<1>2. run[r].state = disk /\ run[r].base = disk.cursor
  BY DEF ReadTree, At, EchoInv, EchoRun, EchoLoaded
<1>3. Rooted(tree) /\ disk \in StateType
  BY DEF Typed
<1> DEFINE k == [pc |-> "preview", state |-> run[r].state, base |-> run[r].base, mutations |-> list]
<1>4. /\ list \in Seq(Mutation)
      /\ \A i \in DOMAIN list : list[i].op = "create" =>
           list[i].ext \in There(tree) \ {Bar} /\ disk.map[list[i].ext] = None
      /\ \A e \in There(tree) \ {Bar} : disk.map[e] = None => list # <<>>
  BY <1>1, <1>2, <1>3, CreatesAreUnmapped
<1>5. disk.cursor < Len(log) \/ OwnCreates(list, origin)
  <2>1. ASSUME NEW i \in DOMAIN list, list[i].op = "create", origin[list[i].ext] # "user"
        PROVE  disk.cursor < Len(log)
    <3>1. Stray(list[i].ext, tree, disk.map, origin) /\ list[i].ext \in Ext
      BY <1>4, <2>1 DEF Stray, There
    <3> QED
      BY <3>1 DEF EchoInv, BehindAt
  <2> QED
    BY <2>1 DEF OwnCreates
<1>6. \A e \in Ext : Stray(e, tree, disk.map, origin) => list # <<>>
  BY <1>4 DEF Stray
<1>7. EchoRun(k, disk, tree, origin, Len(log))
  <2>1. EchoLoaded(k, disk)
    BY <1>2 DEF EchoLoaded
  <2>2. EchoDiff(k, disk, tree, origin, Len(log))
    BY <1>2, <1>5, <1>6 DEF EchoDiff
  <2> QED
    BY <2>1, <2>2, EchoAt
<1> QED
  BY <1>1, <1>7, EchoQuiet DEF ReadTree

(* Saving the state as it was loaded keeps what is known of it. *)
LEMMA EchoSaveOld ==
  ASSUME Typed, EchoInv, NEW r, NEW x
  PROVE  EchoRun(Ending(r, [disk EXCEPT !.status = x]), disk, tree, origin, Len(log))
<1> DEFINE s == [disk EXCEPT !.status = x]
<1>1. disk \in StateType
  BY DEF Typed
<1>2. s.map = disk.map /\ s.cursor = disk.cursor
  BY <1>1 DEF StateType
<1> HIDE DEF s
<1>3. BehindAt(s, tree, origin, Len(log)) /\ Maps(s.map, origin) /\ s.cursor # None
  BY <1>2 DEF EchoInv, BehindAt
<1>4. EchoEnding(Ending(r, s), tree, origin, Len(log)) /\ Ending(r, s).pc = "save"
  BY <1>3 DEF EchoEnding, Ending
<1> QED
  BY <1>4, EchoAt DEF s

LEMMA EchoPreview ==
  ASSUME Typed, EchoInv, OneRun, NEW r \in Run, Preview(r)
  PROVE  EchoInv'
<1> DEFINE k     == run[r]
           found == ToSet(k.mutations)
           stale == k.base < Len(log) /\ found # {}
           last  == IF k.base + OpsLimit < Len(log) THEN k.base + OpsLimit ELSE Len(log)
           bad   == Ending(r, [k.state EXCEPT !.status = "needs-user-resolution"])
           got   == [pc |-> "confirm", state |-> k.state, base |-> k.base, to |-> Len(log),
                     mutations |-> k.mutations, ops |-> SubSeq(log, k.base + 1, last)]
<1>1. /\ k.pc = "preview" /\ k.state = disk /\ k.base = disk.cursor
      /\ k.base < Len(log) \/ OwnCreates(k.mutations, origin)
      /\ \A e \in Ext : Stray(e, tree, disk.map, origin) => k.mutations # <<>>
  BY DEF Preview, At, EchoInv, EchoRun, EchoLoaded, EchoDiff
<1>2. k.mutations \in Seq(Mutation)
  BY RunIsTyped DEF Preview, At, TypedDiff
<1>3. CASE Continue(r, bad)
  BY <1>1, <1>3, EchoSaveOld, EchoQuiet DEF Preview
<1>4. CASE ~stale /\ Continue(r, got)
  <2>1. k.mutations # <<>> => found # {}
    <3>1. \A list \in Seq(Mutation) : list # <<>> => 1 \in DOMAIN list
      OBVIOUS
    <3> QED
      BY <1>2, <3>1 DEF ToSet
  <2>2. k.mutations = <<>> \/ ~(k.base < Len(log))
    BY <1>4, <2>1
  <2>3. OwnCreates(k.mutations, origin)
    BY <1>1, <2>2 DEF OwnCreates
  <2>4. \A e \in Ext : ~Stray(e, tree, disk.map, origin)
    BY <1>1, <2>2 DEF EchoInv, BehindAt
  <2>5. EchoLoaded(got, disk) /\ EchoPreviewed(got, disk, tree, origin)
    BY <1>1, <2>3, <2>4 DEF EchoLoaded, EchoPreviewed
  <2>6. EchoRun(got, disk, tree, origin, Len(log))
    BY <2>5, EchoAt
  <2> QED
    BY <1>4, <2>6, EchoQuiet DEF Preview
<1>5. Continue(r, bad) \/ (~stale /\ Continue(r, got))
  BY DEF Preview
<1> QED
  BY <1>3, <1>4, <1>5

LEMMA EchoConfirm ==
  ASSUME Typed, EchoInv, OneRun, NEW r \in Run, Confirm(r)
  PROVE  EchoInv'
<1> DEFINE k   == run[r]
           yes == [k EXCEPT !.pc = "apply"]
           no  == Ending(r, [k.state EXCEPT !.status = "awaiting-confirmation"])
<1>1. /\ k.state = disk /\ k.base = disk.cursor
      /\ EchoPreviewed(k, disk, tree, origin) /\ k.pc = "confirm"
  BY DEF Confirm, At, EchoInv, EchoRun, EchoLoaded
<1>2. TypedPreviewed(k, Len(log))
  BY RunIsTyped DEF Confirm, At
<1>3. yes.pc = "apply" /\ yes.state = k.state /\ yes.base = k.base /\ yes.mutations = k.mutations
  BY <1>2 DEF TypedPreviewed
<1> HIDE DEF yes
<1>4. EchoRun(yes, disk, tree, origin, Len(log))
  <2>1. EchoLoaded(yes, disk) /\ EchoPreviewed(yes, disk, tree, origin)
    BY <1>1, <1>3 DEF EchoLoaded, EchoPreviewed
  <2> QED
    BY <1>3, <2>1, EchoAt
<1>5. EchoRun(no, disk, tree, origin, Len(log))
  BY <1>1, EchoSaveOld
<1> QED
  BY <1>4, <1>5, EchoQuiet DEF Confirm, yes

(* An apply binds only bookmarks that the user made. *)
LEMMA EchoApply ==
  ASSUME Typed, EchoInv, OneRun, NEW r \in Run, Apply(r)
  PROVE  EchoInv'
<1> DEFINE k     == run[r]
           Mine(e) == \E i \in DOMAIN k.mutations : k.mutations[i].op = "create" /\ k.mutations[i].ext = e
<1>1. /\ k.state = disk /\ k.base = disk.cursor
      /\ OwnCreates(k.mutations, origin) /\ \A e \in Ext : ~Stray(e, tree, disk.map, origin)
  BY DEF Apply, At, EchoInv, EchoRun, EchoLoaded, EchoPreviewed
<1>2. \A e : Mine(e) => origin[e] = "user"
  BY <1>1 DEF OwnCreates
<1>3. /\ UNCHANGED <<tree, disk, origin>>
      /\ \A e \in Ext : ~Mine(e) => bound'[e] = bound[e]
      /\ Len(log') \in Len(log) .. MaxClock
  BY DEF Apply
<1>4. PICK map :
        /\ \A e \in Ext : ~Mine(e) => map[e] = k.state.map[e]
        /\ Continue(r, IF Plannable(k.ops)
             THEN [pc |-> "local", state |-> k.state, clock |-> Len(log'), map |-> map,
                   plan |-> Plan(k.ops, k.base, map), made |-> [e \in Ext |-> None]]
             ELSE [pc |-> "thrown"])
  BY DEF Apply
<1> DEFINE plan == Plan(k.ops, k.base, map)
           new == [pc |-> "local", state |-> k.state, clock |-> Len(log'), map |-> map,
                   plan |-> plan, made |-> [e \in Ext |-> None]]
<1> HIDE DEF Mine
<1>5. Maps(bound', origin) /\ Maps(map, origin)
  BY <1>1, <1>2, <1>3, <1>4 DEF EchoInv, Maps
<1>6. \A e \in Ext : ~Stray(e, tree, map, origin)
  <2> SUFFICES ASSUME NEW e \in Ext, Stray(e, tree, map, origin) PROVE FALSE
    OBVIOUS
  <2>1. ~Mine(e) /\ map[e] = None
    BY <1>2 DEF Stray
  <2>2. disk.map[e] = None
    BY <1>1, <1>4, <2>1
  <2>3. Stray(e, tree, disk.map, origin)
    BY <2>2 DEF Stray
  <2> QED
    BY <1>1, <2>3
<1>7. TypedPreviewed(k, Len(log)) /\ disk \in StateType /\ Len(log) \in Nat
  <2>1. TypedPreviewed(k, Len(log))
    BY RunIsTyped DEF Apply, At
  <2>2. disk \in StateType /\ Len(log) \in Nat
    BY DEF Typed
  <2> QED
    BY <2>1, <2>2
<1>8. Len(log') \in Nat /\ Len(log) <= Len(log')
  BY <1>3, <1>7, ManualSyncAssumption
<1>9. plan # {} => disk.cursor < Len(log')
  <2>1. plan # {} => \E i : i \in DOMAIN k.ops
    BY DEF Plan
  <2>2. \A i \in DOMAIN k.ops : i >= 1 /\ i \in Nat /\ k.base + i \in 1 .. Len(log)
    BY <1>7 DEF TypedPreviewed
  <2>3. k.base \in Nat
    BY <1>7 DEF TypedPreviewed, Loaded
  <2> HIDE DEF plan
  <2>4. \A i \in DOMAIN k.ops : k.base < Len(log')
    BY <1>7, <1>8, <2>2, <2>3
  <2> QED
    BY <1>1, <2>1, <2>4
<1> HIDE DEF plan
<1>10. EchoRun(new, disk, tree, origin, Len(log'))
  <2>1. EchoLoaded(new, disk)
    BY <1>1 DEF EchoLoaded
  <2>2. EchoPerforming(new, disk, tree, origin, Len(log'))
    BY <1>5, <1>6, <1>9 DEF EchoPerforming
  <2> QED
    BY <2>1, <2>2, EchoAt
<1>11. EchoRun([pc |-> "thrown"], disk, tree, origin, Len(log'))
  BY EchoAt
<1>12. \A q \in Run : run'[q] # None => EchoRun(run'[q], disk, tree, origin, Len(log'))
  <2>1. PICK q : Continue(r, q) /\ EchoRun(q, disk, tree, origin, Len(log'))
    BY <1>4, <1>10, <1>11 DEF plan
  <2> QED
    BY <2>1, OnlyRun
<1>13. BehindAt(disk, tree, origin, Len(log'))
  BY <1>1 DEF BehindAt
<1> QED
  BY <1>3, <1>5, <1>12, <1>13 DEF EchoInv

(* An id that was not yet used is in no map; once it is used, what was true *)
(* of the maps remains so.                                                 *)
LEMMA FreshIsUnmapped ==
  ASSUME NEW org \in [Ext -> Node \cup {None, "user"}], NEW e \in Ext, org[e] = None, NEW x,
         NEW map, Maps(map, org)
  PROVE  map[e] = None /\ Maps(map, [org EXCEPT ![e] = x])
BY ManualSyncAssumption DEF Maps

(* A bookmark that the run creates is behind the stored cursor, and in what *)
(* the run made.                                                           *)
LEMMA EchoLocalCreate ==
  ASSUME Typed, EchoInv, OneRun, NEW r \in Run, LocalStep(r),
         NEW o \in run[r].plan, NEW e \in Ext, Fresh(e), NEW leaf,
         tree' = [tree EXCEPT ![e] = leaf],
         origin' = [origin EXCEPT ![e] = o.node],
         Continue(r, [[run[r] EXCEPT !.plan = @ \ {o}] EXCEPT !.made[e] = o.node])
  PROVE  EchoInv'
<1> DEFINE k == run[r]
<1>1. TypedPerforming(k, Len(log)) /\ k.pc = "local"
  BY RunIsTyped DEF LocalStep, At
<1>2. /\ k.state = disk /\ Maps(k.map, origin)
      /\ \A d \in Ext : k.made[d] # None => origin[d] = k.made[d]
      /\ \A d \in Ext : Stray(d, tree, k.map, origin) => k.made[d] # None
      /\ disk.cursor < Len(log)
  BY <1>1 DEF EchoInv, EchoRun, EchoLoaded, EchoPerforming, LocalStep, At
<1>3. /\ o.node \in Node /\ o.node # None /\ origin[e] = None
      /\ origin \in [Ext -> Node \cup {None, "user"}] /\ tree \in [Ext -> Leaf \cup {None}]
      /\ k.made \in MapType
  BY <1>1, ManualSyncAssumption DEF TypedPerforming, PlanOp, Fresh, Typed, Rooted, TreeType
<1>4. UNCHANGED <<log, bound, disk>>
  BY DEF LocalStep
<1> DEFINE new == [pc |-> k.pc, state |-> k.state, clock |-> k.clock, map |-> k.map,
                   plan |-> k.plan \ {o}, made |-> [k.made EXCEPT ![e] = o.node]]
<1>5. Continue(r, new)
  <2>1. k = [pc |-> k.pc, state |-> k.state, clock |-> k.clock, map |-> k.map,
             plan |-> k.plan, made |-> k.made]
    BY <1>1 DEF TypedPerforming
  <2> DEFINE less == [k EXCEPT !.plan = @ \ {o}]
  <2>2. less = [pc |-> k.pc, state |-> k.state, clock |-> k.clock, map |-> k.map,
                plan |-> k.plan \ {o}, made |-> k.made]
    BY <2>1, PlanShrinks
  <2> HIDE DEF less
  <2>3. [less EXCEPT !.made[e] = o.node] = new
    BY <2>2
  <2> QED
    BY <2>3 DEF less
<1>6. Maps(bound, origin') /\ Maps(disk.map, origin') /\ Maps(k.map, origin')
  BY <1>2, <1>3, FreshIsUnmapped DEF EchoInv
<1>7. \A d \in Ext : new.made[d] # None => origin'[d] = new.made[d]
  BY <1>2, <1>3
<1>8. \A d \in Ext : Stray(d, tree', k.map, origin') => new.made[d] # None
  <2> SUFFICES ASSUME NEW d \in Ext, Stray(d, tree', k.map, origin') PROVE new.made[d] # None
    OBVIOUS
  <2>1. CASE d = e
    BY <1>3, <2>1 DEF MapType
  <2>2. CASE d # e
    <3>1. tree'[d] = tree[d] /\ origin'[d] = origin[d] /\ new.made[d] = k.made[d]
      BY <1>3, <2>2 DEF MapType
    <3>2. Stray(d, tree, k.map, origin)
      BY <3>1 DEF Stray, There
    <3> QED
      BY <1>2, <3>1, <3>2
  <2> QED
    BY <2>1, <2>2
<1>9. \A d \in There(tree') : origin'[d] # None
  BY <1>3 DEF EchoInv, There
<1>10. EchoRun(new, disk, tree', origin', Len(log))
  <2>1. EchoLoaded(new, disk)
    BY <1>1, <1>2 DEF EchoLoaded
  <2>2. EchoPerforming(new, disk, tree', origin', Len(log))
    BY <1>1, <1>2, <1>6, <1>7, <1>8 DEF EchoPerforming
  <2> QED
    BY <1>1, <2>1, <2>2, EchoAt
<1>11. \A q \in Run : run'[q] = new
  BY <1>5, OnlyRun
<1>12. BehindAt(disk, tree', origin', Len(log))
  BY <1>2 DEF BehindAt
<1> QED
  BY <1>4, <1>6, <1>9, <1>10, <1>11, <1>12 DEF EchoInv

(* The other operations of a plan create nothing. *)
LEMMA EchoLocalOther ==
  ASSUME Typed, EchoInv, OneRun, NEW r \in Run, LocalStep(r),
         NEW o \in run[r].plan,
         \A d \in Ext : tree'[d] # None => tree[d] # None,
         UNCHANGED origin,
         Continue(r, [run[r] EXCEPT !.plan = @ \ {o}])
  PROVE  EchoInv'
<1> DEFINE k == run[r]
<1>1. TypedPerforming(k, Len(log)) /\ k.pc = "local"
  BY RunIsTyped DEF LocalStep, At
<1>2. /\ k.state = disk /\ Maps(k.map, origin)
      /\ \A d \in Ext : k.made[d] # None => origin[d] = k.made[d]
      /\ \A d \in Ext : Stray(d, tree, k.map, origin) => k.made[d] # None
      /\ disk.cursor < Len(log)
  BY <1>1 DEF EchoInv, EchoRun, EchoLoaded, EchoPerforming, LocalStep, At
<1>3. UNCHANGED <<log, bound, disk, origin>>
  BY DEF LocalStep
<1> DEFINE new == [pc |-> k.pc, state |-> k.state, clock |-> k.clock, map |-> k.map,
                   plan |-> k.plan \ {o}, made |-> k.made]
<1>4. Continue(r, new)
  <2>1. k = [pc |-> k.pc, state |-> k.state, clock |-> k.clock, map |-> k.map,
             plan |-> k.plan, made |-> k.made]
    BY <1>1 DEF TypedPerforming
  <2> QED
    BY <2>1, PlanShrinks
<1>5. \A d \in Ext : Stray(d, tree', k.map, origin) => k.made[d] # None
  BY <1>2 DEF Stray, There
<1>6. EchoRun(new, disk, tree', origin, Len(log))
  <2>1. EchoLoaded(new, disk)
    BY <1>1, <1>2 DEF EchoLoaded
  <2>2. EchoPerforming(new, disk, tree', origin, Len(log))
    BY <1>1, <1>2, <1>5 DEF EchoPerforming
  <2> QED
    BY <1>1, <2>1, <2>2, EchoAt
<1>7. \A q \in Run : run'[q] = new
  BY <1>4, OnlyRun
<1>8. \A d \in There(tree') : origin[d] # None
  BY DEF EchoInv, There
<1>9. BehindAt(disk, tree', origin, Len(log))
  BY <1>2 DEF BehindAt
<1> QED
  BY <1>3, <1>6, <1>7, <1>8, <1>9 DEF EchoInv

LEMMA EchoLocalStep ==
  ASSUME Typed, EchoInv, OneRun, NEW r \in Run, LocalStep(r)
  PROVE  EchoInv'
<1>1. tree \in [Ext -> Leaf \cup {None}]
  BY DEF Typed, Rooted, TreeType
<1>2. ASSUME NEW o \in run[r].plan, NEW e \in Ext, Fresh(e),
             tree' = [tree EXCEPT ![e] = [parent |-> o.parent, title |-> o.title]],
             origin' = [origin EXCEPT ![e] = o.node],
             Continue(r, [[run[r] EXCEPT !.plan = @ \ {o}] EXCEPT !.made[e] = o.node])
      PROVE  EchoInv'
  BY <1>2, EchoLocalCreate
<1>3. ASSUME NEW o \in run[r].plan, o.ext # None, tree[o.ext] # None, UNCHANGED origin,
             \/ tree' = [tree EXCEPT ![o.ext].title = o.title]
             \/ tree' = [tree EXCEPT ![o.ext].parent = o.parent]
             \/ tree' = [e \in Ext |-> IF e \in Subtree(tree, o.ext) THEN None ELSE tree[e]],
             Continue(r, [run[r] EXCEPT !.plan = @ \ {o}])
      PROVE  EchoInv'
  <2>1. \A d \in Ext : tree'[d] # None => tree[d] # None
    BY <1>1, <1>3
  <2> QED
    BY <1>3, <2>1, EchoLocalOther
<1> QED
  BY <1>2, <1>3 DEF LocalStep

(* What is saved of a plan that failed stays behind. *)
LEMMA EchoRecover ==
  ASSUME Typed, EchoInv, OneRun, NEW r \in Run, Recover(r)
  PROVE  EchoInv'
<1> DEFINE k == run[r]
           s == [cursor |-> k.state.cursor, map |-> k.map, known |-> k.state.known,
                 status |-> "recovery-required"]
<1>1. k.state = disk /\ Maps(k.map, origin) /\ disk.cursor < Len(log)
  BY DEF Recover, At, EchoInv, EchoRun, EchoLoaded, EchoPerforming
<1>2. s.cursor # None /\ BehindAt(s, tree, origin, Len(log)) /\ Maps(s.map, origin)
  BY <1>1 DEF EchoInv, BehindAt
<1> HIDE DEF s
<1>3. EchoEnding(Ending(r, s), tree, origin, Len(log)) /\ Ending(r, s).pc = "save"
  BY <1>2 DEF EchoEnding, Ending
<1>4. EchoRun(Ending(r, s), disk, tree, origin, Len(log))
  BY <1>3, EchoAt
<1>5. Continue(r, Ending(r, s)) /\ UNCHANGED <<log, bound, tree, disk, origin>>
  BY DEF Recover, s
<1> QED
  BY <1>4, <1>5, EchoQuiet

(* With what the adapter created merged, every bookmark is mapped. *)
LEMMA EchoReload ==
  ASSUME Typed, EchoInv, OneRun, NEW r \in Run, Reload(r)
  PROVE  EchoInv'
<1> DEFINE k   == run[r]
           map == [e \in Ext |-> IF k.made[e] # None THEN k.made[e] ELSE k.map[e]]
           new == [pc |-> "ack", state |-> k.state, clock |-> k.clock, known |-> tree, map |-> map]
<1>1. /\ Maps(k.map, origin)
      /\ \A e \in Ext : k.made[e] # None => origin[e] = k.made[e]
      /\ \A e \in Ext : Stray(e, tree, k.map, origin) => k.made[e] # None
  BY DEF Reload, At, EchoInv, EchoRun, EchoPerforming
<1>2. Maps(map, origin)
  BY <1>1 DEF Maps
<1>3. \A e \in Ext : ~Stray(e, tree, map, origin)
  BY <1>1 DEF Stray
<1>4. Continue(r, new) /\ UNCHANGED <<log, bound, tree, disk, origin>>
  BY DEF Reload
<1> HIDE DEF map
<1>5. EchoRun(new, disk, tree, origin, Len(log))
  <2>1. EchoEnding(new, tree, origin, Len(log))
    BY <1>2, <1>3 DEF EchoEnding
  <2> QED
    BY <2>1, EchoAt
<1> QED
  BY <1>4, <1>5, EchoQuiet

LEMMA EchoAck ==
  ASSUME Typed, EchoInv, OneRun, NEW r \in Run, Ack(r)
  PROVE  EchoInv'
<1> DEFINE k    == run[r]
           kept == IF ack # None /\ k.clock < ack THEN ack ELSE k.clock
           s    == [cursor |-> kept, map |-> k.map, known |-> k.known, status |-> "synced"]
           new  == [pc |-> "save", state |-> s, clock |-> k.clock]
<1>1. Maps(k.map, origin) /\ \A e \in Ext : ~Stray(e, tree, k.map, origin)
  BY DEF Ack, At, EchoInv, EchoRun, EchoEnding
<1>2. kept \in Nat
  BY RunIsTyped DEF Ack, At, TypedEnding, Typed
<1>3. kept # None
  BY <1>2, ManualSyncAssumption
<1> HIDE DEF kept
<1>4. s.cursor # None /\ Maps(s.map, origin) /\ BehindAt(s, tree, origin, Len(log))
  BY <1>1, <1>3 DEF BehindAt
<1> HIDE DEF s
<1>5. EchoRun(new, disk, tree, origin, Len(log))
  <2>1. EchoEnding(new, tree, origin, Len(log))
    BY <1>4 DEF EchoEnding
  <2> QED
    BY <2>1, EchoAt
<1>6. Continue(r, new) /\ UNCHANGED <<log, bound, tree, disk, origin>>
  BY DEF Ack, Ending, s, kept
<1> QED
  BY <1>5, <1>6, EchoQuiet

LEMMA EchoSave ==
  ASSUME Typed, EchoInv, OneRun, NEW r \in Run, Save(r)
  PROVE  EchoInv'
<1>1. /\ Maps(run[r].state.map, origin) /\ run[r].state.cursor # None
      /\ BehindAt(run[r].state, tree, origin, Len(log))
  BY DEF Save, At, EchoInv, EchoRun, EchoEnding
<1>2. \A q \in Run : run'[q] = None
  BY OnlyRun DEF Save
<1>3. UNCHANGED <<log, bound, tree, origin>> /\ disk' = run[r].state
  BY DEF Save
<1> QED
  BY <1>1, <1>2, <1>3 DEF EchoInv

(* The library grows beside the client. *)
LEMMA EchoDashboard ==
  ASSUME Typed, EchoInv, Dashboard
  PROVE  EchoInv'
<1>1. /\ UNCHANGED <<bound, tree, disk, run, origin>>
  BY DEF Dashboard
<1>2. Len(log) \in Nat /\ Len(log') = Len(log) + 1
  <2>1. PICK op \in DashboardOps, n \in Node, p \in Node, title \in Title :
          Written(log, op, n, p, title) # <<>> /\ log' = Written(log, op, n, p, title)
    BY DEF Dashboard
  <2>2. log \in Seq(Revision)
    BY DEF Typed
  <2> QED
    BY <2>1, <2>2, WrittenType, ManualSyncAssumption
<1>3. disk \in StateType
  BY DEF Typed
<1>4. \A s \in StateType : s.cursor # None /\ s.cursor < Len(log) => s.cursor < Len(log')
  BY <1>2 DEF StateType
<1>5. \A s \in StateType : s.cursor # None /\ BehindAt(s, tree, origin, Len(log)) =>
                             BehindAt(s, tree, origin, Len(log'))
  BY <1>4 DEF BehindAt
<1>6. ASSUME NEW r \in Run, run[r] # None
      PROVE  EchoRun(run[r], disk, tree, origin, Len(log'))
  <2> DEFINE k == run[r]
  <2>1. EchoRun(k, disk, tree, origin, Len(log))
    BY <1>6 DEF EchoInv
  <2>2. EchoDiff(k, disk, tree, origin, Len(log'))
    <3>1. k.pc = "preview" => k.base \in Nat
      BY <1>6, RunIsTyped DEF TypedDiff, Loaded
    <3> QED
      BY <1>2, <2>1, <3>1 DEF EchoRun, EchoDiff
  <2>3. EchoPerforming(k, disk, tree, origin, Len(log'))
    BY <1>3, <1>4, <2>1 DEF EchoRun, EchoPerforming, EchoInv
  <2>4. EchoEnding(k, tree, origin, Len(log'))
    <3>1. k.pc = "save" => k.state \in StateType
      BY <1>6, RunIsTyped DEF TypedEnding
    <3> QED
      BY <1>5, <2>1, <3>1 DEF EchoRun, EchoEnding
  <2> QED
    BY <2>1, <2>2, <2>3, <2>4 DEF EchoRun
<1> QED
  BY <1>1, <1>3, <1>5, <1>6 DEF EchoInv

(* The user's edits create no bookmark but the user's. *)
LEMMA EchoUserEdit ==
  ASSUME Typed, EchoInv, UserEdit
  PROVE  EchoInv'
<1>0. /\ tree \in [Ext -> Leaf \cup {None}] /\ origin \in [Ext -> Node \cup {None, "user"}]
      /\ UNCHANGED <<log, bound, disk, run>>
  BY DEF Typed, Rooted, TreeType, UserEdit
<1>1. /\ \A e \in Ext : origin'[e] = origin[e] \/ (origin[e] = None /\ origin'[e] = "user")
      /\ \A e \in Ext : tree'[e] # None => tree[e] # None \/ origin'[e] = "user"
  <2>1. ASSUME NEW e \in Ext, NEW p \in There(tree), Fresh(e),
               tree' = [tree EXCEPT ![e] = [parent |-> p, title |-> OneTitle]],
               origin' = [origin EXCEPT ![e] = "user"]
        PROVE  /\ \A d \in Ext : origin'[d] = origin[d] \/ (origin[d] = None /\ origin'[d] = "user")
               /\ \A d \in Ext : tree'[d] # None => tree[d] # None \/ origin'[d] = "user"
    BY <1>0, <2>1 DEF Fresh
  <2>2. ASSUME NEW e \in There(tree) \ {Bar}, UNCHANGED origin,
               \/ \E title \in Title \ {tree[e].title} : tree' = [tree EXCEPT ![e].title = title]
               \/ \E p \in There(tree) \ Subtree(tree, e) :
                    p # tree[e].parent /\ tree' = [tree EXCEPT ![e].parent = p]
               \/ tree' = [d \in Ext |-> IF d \in Subtree(tree, e) THEN None ELSE tree[d]]
        PROVE  /\ \A d \in Ext : origin'[d] = origin[d] \/ (origin[d] = None /\ origin'[d] = "user")
               /\ \A d \in Ext : tree'[d] # None => tree[d] # None \/ origin'[d] = "user"
    <3>1. e \in Ext /\ tree[e] # None
      BY DEF There
    <3>2. \A d \in Ext : tree'[d] # None => tree[d] # None
      BY <1>0, <2>2, <3>1
    <3> QED
      BY <2>2, <3>2
  <2> QED
    BY <2>1, <2>2 DEF UserEdit
<1>2. \A map : Maps(map, origin) => Maps(map, origin')
  BY <1>1, ManualSyncAssumption DEF Maps
<1>3. \A map : \A e \in Ext : Stray(e, tree', map, origin') => Stray(e, tree, map, origin)
  BY <1>1 DEF Stray, There
<1>4. \A e \in There(tree') : origin'[e] # None
  BY <1>1, ManualSyncAssumption DEF EchoInv, There
<1>5. \A s, n : BehindAt(s, tree, origin, n) => BehindAt(s, tree', origin', n)
  BY <1>3 DEF BehindAt
<1>6. ASSUME NEW r \in Run, run[r] # None
      PROVE  EchoRun(run[r], disk, tree', origin', Len(log))
  <2> DEFINE k == run[r]
  <2>1. EchoRun(k, disk, tree, origin, Len(log))
    BY <1>6 DEF EchoInv
  <2>2. ASSUME NEW list \in Seq(Mutation), OwnCreates(list, origin) PROVE OwnCreates(list, origin')
    <3>1. \A i \in DOMAIN list : list[i] \in Mutation
      OBVIOUS
    <3>2. \A i \in DOMAIN list : list[i].ext \in Ext
      BY <3>1 DEF Mutation
    <3> QED
      BY <1>1, <2>2, <3>2, ManualSyncAssumption DEF OwnCreates
  <2>3. EchoDiff(k, disk, tree', origin', Len(log))
    <3>1. k.pc = "preview" => k.mutations \in Seq(Mutation)
      BY <1>6, RunIsTyped DEF TypedDiff
    <3> QED
      BY <1>3, <2>1, <2>2, <3>1 DEF EchoRun, EchoDiff
  <2>4. EchoPreviewed(k, disk, tree', origin')
    <3>1. k.pc \in {"confirm", "apply"} => k.mutations \in Seq(Mutation)
      BY <1>6, RunIsTyped DEF TypedPreviewed
    <3> QED
      BY <1>3, <2>1, <2>2, <3>1 DEF EchoRun, EchoPreviewed
  <2>5. EchoPerforming(k, disk, tree', origin', Len(log))
    BY <1>1, <1>2, <1>3, <2>1 DEF EchoRun, EchoPerforming
  <2>6. EchoEnding(k, tree', origin', Len(log))
    BY <1>2, <1>3, <1>5, <2>1 DEF EchoRun, EchoEnding
  <2> QED
    BY <2>1, <2>3, <2>4, <2>5, <2>6 DEF EchoRun
<1> QED
  BY <1>0, <1>2, <1>4, <1>5, <1>6 DEF EchoInv

LEMMA EchoNext ==
  ASSUME OneRun, Typed, EchoInv, [Next]_vars
  PROVE  EchoInv'
<1>1. CASE UNCHANGED vars
  BY <1>1 DEF vars, EchoInv
<1>2. ASSUME NEW r \in Run, Abort(r) PROVE EchoInv'
  BY <1>2, EchoQuiet DEF Abort
<1> QED
  BY <1>1, <1>2, EchoDashboard, EchoUserEdit, EchoBegin, EchoReadTree, EchoPreview, EchoConfirm,
     EchoApply, EchoLocalStep, EchoRecover, EchoReload, EchoAck, EchoSave DEF Next

(* A client that runs one sync at a time and has a stored cursor never      *)
(* uploads as new what a run created in its browser for the server.        *)
THEOREM SerialRunsEchoNothing ==
  ASSUME OneRun, FirstCursor # None
  PROVE  Spec => []NothingEchoed
<1>1. Init => EchoInv
  BY EchoInit
<1>2. Typed /\ EchoInv /\ [Next]_vars => EchoInv'
  BY EchoNext
<1>3. EchoInv => NothingEchoed
  BY DEF EchoInv, Maps, NothingEchoed
<1> QED
  BY <1>1, <1>2, <1>3, TypedInit, TypedNext, PTL DEF Spec

-----------------------------------------------------------------------------
(* Trees that agree.  First, what lies above a member of a finite set: the  *)
(* steps of a walk upwards are closed under the next one, as the walk is    *)
(* longer than the set is large, and no smaller closed set contains them.   *)

IsWalk(w, N, x, f) ==
  w = [i \in 0 .. N |-> IF i = 0 THEN x ELSE IF w[i - 1] = None THEN None ELSE f[w[i - 1]]]

(* Every start has a walk of every length. *)
LEMMA WalkExists ==
  ASSUME NEW f, NEW x, NEW N \in Nat
  PROVE  \E w : IsWalk(w, N, x, f)
<1> DEFINE Walk(w, k) ==
             w = [i \in 0 .. k |-> IF i = 0 THEN x ELSE IF w[i - 1] = None THEN None ELSE f[w[i - 1]]]
           Stuck == {k \in Nat : ~\E w : Walk(w, k)}
<1>1. \E w : Walk(w, 0)
  <2>1. Walk([i \in 0 .. 0 |-> x], 0)
    OBVIOUS
  <2> QED
    BY <2>1
<1>2. ASSUME NEW k \in Nat, NEW w, Walk(w, k)
      PROVE  \E v : Walk(v, k + 1)
  <2> DEFINE v == [i \in 0 .. k + 1 |->
                     IF i = k + 1 THEN IF w[k] = None THEN None ELSE f[w[k]] ELSE w[i]]
  <2>1. ASSUME NEW i \in 0 .. k + 1
        PROVE  v[i] = IF i = 0 THEN x ELSE IF v[i - 1] = None THEN None ELSE f[v[i - 1]]
    <3>1. CASE i = k + 1
      BY <3>1
    <3>2. CASE i # k + 1
      <4>1. i \in 0 .. k /\ v[i] = w[i]
        BY <3>2
      <4>2. CASE i = 0
        BY <1>2, <4>1, <4>2
      <4>3. CASE i # 0
        <5>1. i - 1 \in 0 .. k + 1 /\ i - 1 # k + 1
          BY <4>1, <4>3
        <5>2. v[i - 1] = w[i - 1]
          BY <5>1
        <5> HIDE DEF v
        <5>3. w[i] = IF w[i - 1] = None THEN None ELSE f[w[i - 1]]
          BY <1>2, <4>1, <4>3
        <5> QED
          BY <4>1, <4>3, <5>2, <5>3
      <4> QED
        BY <4>2, <4>3
    <3> QED
      BY <3>1, <3>2
  <2>2. Walk(v, k + 1)
    BY <2>1
  <2> QED
    BY <2>2
<1> HIDE DEF Walk
<1>3. Stuck = {}
  <2> SUFFICES ASSUME Stuck # {} PROVE FALSE
    OBVIOUS
  <2>1. PICK m \in Stuck : \A k \in Stuck : m <= k
    BY LeastNat
  <2>2. m \in Nat /\ m # 0
    BY <1>1
  <2>3. m - 1 \in Nat /\ m - 1 \notin Stuck
    BY <2>1, <2>2
  <2>4. PICK w : Walk(w, m - 1)
    BY <2>3
  <2>5. \E v : Walk(v, m - 1 + 1)
    BY <1>2, <2>3, <2>4
  <2> QED
    BY <2>2, <2>5
<1>4. \E w : Walk(w, N)
  BY <1>3
<1> QED
  BY <1>4 DEF Walk, IsWalk

(* w walks from its start along f, which leads from S to S or out of it.   *)
Steps(w, N, S, f) ==
  /\ w[0] \in S
  /\ \A i \in 1 .. N : /\ w[i - 1] = None => w[i] = None
                       /\ w[i - 1] \in S => w[i] = f[w[i - 1]]
Passes(w, N) == {w[i] : i \in 0 .. N} \ {None}

(* A walk leaves S only for good. *)
LEMMA WalkStays ==
  ASSUME NEW S, None \notin S, NEW f \in [S -> S \cup {None}], NEW N \in Nat, NEW w, Steps(w, N, S, f)
  PROVE  \A i \in 0 .. N : w[i] \in S \cup {None}
<1> DEFINE Bad == {i \in 0 .. N : w[i] \notin S \cup {None}}
<1>1. SUFFICES ASSUME Bad # {} PROVE FALSE
  OBVIOUS
<1>2. PICK i \in Bad : \A j \in Bad : i <= j
  <2>1. Bad \in SUBSET Nat
    OBVIOUS
  <2> QED
    BY <1>1, <2>1, LeastNat
<1>3. i # 0 /\ i \in 1 .. N /\ i - 1 \in 0 .. N /\ ~(i <= i - 1)
  BY <1>2 DEF Steps
<1>4. w[i - 1] \in S \cup {None}
  BY <1>2, <1>3
<1> QED
  BY <1>2, <1>3, <1>4 DEF Steps

(* The least closed set. *)
LEMMA WalkWithin ==
  ASSUME NEW S, None \notin S, NEW f \in [S -> S \cup {None}], NEW N \in Nat, NEW w, Steps(w, N, S, f),
         NEW X, w[0] \in X, \A m \in X \cap S : f[m] = None \/ f[m] \in X
  PROVE  Passes(w, N) \subseteq X
<1> DEFINE Bad == {i \in 0 .. N : w[i] # None /\ w[i] \notin X}
<1>1. SUFFICES ASSUME Bad # {} PROVE FALSE
  BY DEF Passes
<1>2. PICK i \in Bad : \A j \in Bad : i <= j
  <2>1. Bad \in SUBSET Nat
    OBVIOUS
  <2> QED
    BY <1>1, <2>1, LeastNat
<1>3. i \in 1 .. N /\ i - 1 \in 0 .. N /\ ~(i <= i - 1)
  BY <1>2
<1>4. w[i - 1] = None \/ w[i - 1] \in X
  BY <1>2, <1>3
<1>5. w[i - 1] \in S \cup {None}
  BY <1>3, WalkStays
<1> QED
  BY <1>2, <1>3, <1>4, <1>5 DEF Steps

(* As many steps as S has members and the walk has come to its end, or      *)
(* round.                                                                   *)
LEMMA WalkClosed ==
  ASSUME NEW S, IsFiniteSet(S), None \notin S, NEW f \in [S -> S \cup {None}],
         NEW N \in Nat, Cardinality(S) <= N, NEW w, Steps(w, N, S, f), NEW m \in Passes(w, N)
  PROVE  m \in S /\ (f[m] = None \/ f[m] \in Passes(w, N))
<1>1. PICK i \in 0 .. N : m = w[i] /\ w[i] # None
  BY DEF Passes
<1>2. \A j \in 0 .. N : w[j] \in S \cup {None}
  BY WalkStays
<1>3. m \in S
  BY <1>1, <1>2
<1>4. ASSUME NEW j \in 0 .. N, j < N, w[j] \in S
      PROVE  f[w[j]] = None \/ f[w[j]] \in Passes(w, N)
  <2>1. j + 1 \in 1 .. N /\ j + 1 \in 0 .. N /\ (j + 1) - 1 = j
    BY <1>4
  <2>2. w[j + 1] = f[w[j]]
    BY <1>4, <2>1 DEF Steps
  <2> QED
    BY <2>1, <2>2 DEF Passes
<1>5. CASE i < N
  BY <1>1, <1>3, <1>4, <1>5
<1>6. CASE i = N
  <2>1. \A j \in 0 .. N : w[j] \in S
    <3> DEFINE Out == {j \in 0 .. N : w[N - j] = None}
    <3>1. SUFFICES Out = {}
      <4>1. \A j \in 0 .. N : N - j \in 0 .. N /\ N - (N - j) = j
        OBVIOUS
      <4> QED
        BY <1>2, <3>1, <4>1
    <3>2. SUFFICES ASSUME Out # {} PROVE FALSE
      OBVIOUS
    <3>3. PICK j \in Out : \A h \in Out : j <= h
      <4>1. Out \in SUBSET Nat
        OBVIOUS
      <4> QED
        BY <3>2, <4>1, LeastNat
    <3>4. j # 0
      BY <1>1, <1>6, <3>3
    <3>5. j - 1 \in 0 .. N /\ ~(j <= j - 1) /\ N - (j - 1) \in 1 .. N /\ (N - (j - 1)) - 1 = N - j
      BY <3>3, <3>4
    <3>6. w[N - (j - 1)] = None
      BY <3>3, <3>5 DEF Steps
    <3> QED
      BY <3>3, <3>5, <3>6
  <2> DEFINE g == [j \in 0 .. N |-> w[j]]
  <2>2. g \in [0 .. N -> S]
    BY <2>1
  <2>3. IsFiniteSet(0 .. N) /\ Cardinality(0 .. N) = N + 1
    BY FS_Interval
  <2>4. Cardinality(S) \in Nat
    BY FS_CardinalityType
  <2>5. PICK a, b \in 0 .. N : a # b /\ g[a] = g[b]
    <3> HIDE DEF g
    <3> QED
      BY <2>2, <2>3, <2>4, FS_PigeonHole
  <2>6. PICK c, d \in 0 .. N : c < d /\ w[c] = w[d]
    <3>1. CASE a < b
      BY <2>5, <3>1
    <3>2. CASE b < a
      BY <2>5, <3>2
    <3> QED
      BY <2>5, <3>1, <3>2
  <2> DEFINE Early == {w[h] : h \in 0 .. d - 1}
             New == {h \in d .. N : w[h] \notin Early}
  <2>7. New = {}
    <3>1. SUFFICES ASSUME New # {} PROVE FALSE
      OBVIOUS
    <3>2. PICK h \in New : \A j \in New : h <= j
      <4>1. New \in SUBSET Nat
        BY <2>6
      <4> QED
        BY <3>1, <4>1, LeastNat
    <3>3. h # d
      <4>1. c \in 0 .. d - 1
        BY <2>6
      <4> QED
        BY <2>6, <3>2, <4>1
    <3>4. h - 1 \in d .. N /\ ~(h <= h - 1) /\ h \in 1 .. N
      BY <3>2, <3>3
    <3>5. PICK l \in 0 .. d - 1 : w[h - 1] = w[l]
      BY <3>2, <3>4
    <3>6. l + 1 \in 1 .. N /\ (l + 1) - 1 = l /\ l \in 0 .. N
      BY <3>5
    <3>7. w[h] = w[l + 1]
      BY <2>1, <3>4, <3>5, <3>6 DEF Steps
    <3>8. CASE l + 1 = d
      <4>1. c \in 0 .. d - 1
        BY <2>6
      <4> QED
        BY <2>6, <3>2, <3>7, <3>8, <4>1
    <3>9. CASE l + 1 # d
      <4>1. l + 1 \in 0 .. d - 1
        BY <3>5, <3>9
      <4> QED
        BY <3>2, <3>7, <4>1
    <3> QED
      BY <3>8, <3>9
  <2>8. PICK l \in 0 .. d - 1 : w[N] = w[l]
    <3>1. N \in d .. N
      BY <2>6
    <3> QED
      BY <2>7, <3>1
  <2>9. l \in 0 .. N /\ l < N
    BY <2>6, <2>8
  <2> QED
    BY <1>1, <1>3, <1>4, <1>6, <2>8, <2>9
<1> QED
  BY <1>3, <1>5, <1>6

Nested(t) ==
  /\ Rooted(t) /\ t[Bar] # None /\ t[Bar].parent = None
  /\ \A e \in There(t) \ {Bar} : t[e].parent \in There(t)

(* The browser ids are finitely many. *)
LEMMA ExtFinite == IsFiniteSet(Ext) /\ Cardinality(Ext) = MaxExt + 1 /\ Bar \in Ext /\ None \notin Ext
<1>1. MaxExt \in Nat /\ None \notin Nat
  BY ManualSyncAssumption
<1>2. IsFiniteSet(0 .. MaxExt) /\ Cardinality(0 .. MaxExt) = MaxExt + 1
  BY <1>1, FS_Interval
<1> QED
  BY <1>1, <1>2 DEF Ext, Bar

(* A set is closed under f if f leads from its members to members, or nowhere. *)
Closed(X, S, f) == \A m \in X \cap S : f[m] = None \/ f[m] \in X

(* What a walk passes is the least closed set that holds its start. *)
LEMMA WalkIsLeast ==
  ASSUME NEW S, IsFiniteSet(S), None \notin S, NEW f \in [S -> S \cup {None}],
         NEW N \in Nat, Cardinality(S) <= N, NEW x \in S, NEW w,
         IsWalk(w, N, x, f)
  PROVE  /\ x \in Passes(w, N) /\ Passes(w, N) \subseteq S /\ Closed(Passes(w, N), S, f)
         /\ \A X : x \in X /\ Closed(X, S, f) => Passes(w, N) \subseteq X
<1>1. w[0] = x
  BY DEF IsWalk
<1>2. Steps(w, N, S, f)
  <2>1. ASSUME NEW i \in 1 .. N
        PROVE  w[i] = IF w[i - 1] = None THEN None ELSE f[w[i - 1]]
    <3>1. i \in 0 .. N /\ i # 0
      OBVIOUS
    <3> QED
      BY <3>1 DEF IsWalk
  <2> QED
    BY <1>1, <2>1 DEF Steps
<1>3. x \in Passes(w, N)
  <2>1. 0 \in 0 .. N /\ x # None
    OBVIOUS
  <2> QED
    BY <1>1, <2>1 DEF Passes
<1>4. \A m \in Passes(w, N) : m \in S /\ (f[m] = None \/ f[m] \in Passes(w, N))
  BY <1>2, WalkClosed
<1>5. ASSUME NEW X, x \in X, Closed(X, S, f)
      PROVE  Passes(w, N) \subseteq X
  <2>1. \A m \in X \cap S : f[m] = None \/ f[m] \in X
    BY <1>5 DEF Closed
  <2>2. w[0] \in X
    BY <1>1, <1>5
  <2> QED
    BY <1>2, <2>1, <2>2, WalkWithin
<1> QED
  BY <1>3, <1>4, <1>5 DEF Closed

(* What is above e in a tree: there, closed upwards, and the least such set. *)
Upward(X, t) == \A m \in X : t[m].parent = None \/ t[m].parent \in X

(* What is above a bookmark: there, closed upwards, and within every such   *)
(* set.                                                                     *)
LEMMA ChainFacts ==
  ASSUME NEW t, Nested(t), NEW e \in There(t)
  PROVE  /\ e \in Chain(t, e) /\ Chain(t, e) \subseteq There(t) /\ Upward(Chain(t, e), t)
         /\ \A X : e \in X /\ X \subseteq There(t) /\ Upward(X, t) => Chain(t, e) \subseteq X
<1> DEFINE S == There(t)
           N == MaxExt + 1
           f == [d \in S |-> t[d].parent]
           Up(w) == w = [i \in 0 .. N |->
                      IF i = 0 THEN e ELSE IF w[i - 1] = None THEN None ELSE t[w[i - 1]].parent]
           Along(w) == IsWalk(w, N, e, f)
<1>1. N \in Nat /\ IsFiniteSet(S) /\ Cardinality(S) <= N /\ None \notin S
  <2>1. S \subseteq Ext /\ N \in Nat
    BY ManualSyncAssumption DEF There
  <2> QED
    BY <2>1, ExtFinite, FS_Subset
<1>2. f \in [S -> S \cup {None}]
  <2>1. \A d \in S : t[d].parent \in S \cup {None}
    BY DEF Nested
  <2> QED
    BY <2>1
<1>3. \E w : Along(w)
  <2> HIDE DEF f, N
  <2> QED
    BY <1>1, WalkExists
<1>4. ASSUME NEW w, Along(w)
      PROVE  Up(w)
  <2>1. Steps(w, N, S, f)
    <3>1. ASSUME NEW i \in 1 .. N
          PROVE  w[i] = IF w[i - 1] = None THEN None ELSE f[w[i - 1]]
      <4>1. i \in 0 .. N /\ i # 0
        BY <1>1
      <4> QED
        BY <1>4, <4>1 DEF IsWalk
    <3>2. w[0] = e
      BY <1>1, <1>4 DEF IsWalk
    <3> QED
      BY <1>1, <3>1, <3>2 DEF Steps
  <2>2. \A i \in 0 .. N : w[i] \in S \cup {None}
    <3> HIDE DEF f, N, S
    <3> QED
      BY <1>1, <1>2, <2>1, WalkStays
  <2>3. ASSUME NEW i \in 0 .. N, i # 0, w[i - 1] # None
        PROVE  f[w[i - 1]] = t[w[i - 1]].parent
    <3>1. i - 1 \in 0 .. N
      BY <1>1, <2>3
    <3>2. w[i - 1] \in S
      BY <2>2, <2>3, <3>1
    <3> QED
      BY <3>2
  <2> QED
    BY <1>4, <2>3 DEF IsWalk
<1>5. ASSUME NEW w, Up(w)
      PROVE  Along(w)
  <2> DEFINE Bad == {i \in 0 .. N : w[i] \notin S \cup {None}}
  <2>0. w[0] = e
    BY <1>1, <1>5
  <2>1. Bad = {}
    <3> SUFFICES ASSUME Bad # {} PROVE FALSE
      OBVIOUS
    <3>1. Bad \in SUBSET Nat
      BY <1>1
    <3>2. PICK i \in Bad : \A j \in Bad : i <= j
      <4> HIDE DEF Bad
      <4> QED
        BY <3>1, LeastNat
    <3>3. i # 0 /\ i \in 0 .. N
      BY <2>0, <3>2
    <3>4. i - 1 \in 0 .. N /\ i - 1 \notin Bad
      BY <1>1, <3>2, <3>3
    <3>5. w[i] = IF w[i - 1] = None THEN None ELSE t[w[i - 1]].parent
      BY <1>5, <3>3
    <3>6. w[i] \in S \cup {None}
      BY <3>4, <3>5 DEF Nested
    <3> QED
      BY <3>2, <3>6
  <2>2. ASSUME NEW i \in 0 .. N, i # 0, w[i - 1] # None
        PROVE  f[w[i - 1]] = t[w[i - 1]].parent
    <3>1. i - 1 \in 0 .. N
      BY <1>1, <2>2
    <3>2. w[i - 1] \in S
      BY <2>1, <2>2, <3>1
    <3> QED
      BY <3>2
  <2> QED
    BY <1>5, <2>2 DEF IsWalk
<1> DEFINE up == CHOOSE w : Up(w)
<1>6. Up(up)
  BY <1>3, <1>4
<1>7. Chain(t, e) = Passes(up, N)
  BY DEF Chain, Passes
<1> HIDE DEF up
<1>8. Along(up)
  BY <1>5, <1>6
<1> HIDE DEF Up
<1>9. /\ e \in Passes(up, N) /\ Passes(up, N) \subseteq S /\ Closed(Passes(up, N), S, f)
      /\ \A X : e \in X /\ Closed(X, S, f) => Passes(up, N) \subseteq X
  <2> HIDE DEF f, N
  <2> QED
    BY <1>1, <1>2, <1>8, WalkIsLeast
<1>10. \A X : X \subseteq S => (Closed(X, S, f) <=> Upward(X, t))
  BY DEF Closed, Upward
<1> QED
  BY <1>7, <1>9, <1>10

(* The subtree of e: what is in it stays in it, a set that is closed upwards *)
(* and does not hold e has nothing of it.                                  *)
LEMMA SubtreeFacts ==
  ASSUME NEW t, Nested(t), NEW e \in There(t)
  PROVE  /\ e \in Subtree(t, e) /\ Subtree(t, e) \subseteq There(t)
         /\ e # Bar => Bar \notin Subtree(t, e)
         /\ \A d \in There(t) \ {Bar} : t[d].parent \in Subtree(t, e) => d \in Subtree(t, e)
         /\ \A X : X \subseteq There(t) /\ Upward(X, t) /\ e \notin X => X \cap Subtree(t, e) = {}
<1>1. e \in Subtree(t, e) /\ Subtree(t, e) \subseteq There(t)
  BY ChainFacts DEF Subtree
<1>2. ASSUME NEW X, X \subseteq There(t), Upward(X, t), e \notin X
      PROVE  X \cap Subtree(t, e) = {}
  <2>1. \A d \in X : Chain(t, d) \subseteq X
    BY <1>2, ChainFacts
  <2> QED
    BY <1>2, <2>1 DEF Subtree
<1>3. ASSUME e # Bar
      PROVE  Bar \notin Subtree(t, e)
  <2>1. {Bar} \subseteq There(t) /\ Upward({Bar}, t)
    BY ExtFinite DEF Nested, There, Upward
  <2> QED
    BY <1>2, <1>3, <2>1
<1>4. ASSUME NEW d \in There(t) \ {Bar}, t[d].parent \in Subtree(t, e)
      PROVE  d \in Subtree(t, e)
  <2>1. t[d].parent \in Chain(t, d) /\ Chain(t, d) \subseteq There(t) /\ Upward(Chain(t, d), t)
    <3>1. t[d].parent # None
      <4>1. t[d].parent \in There(t)
        BY DEF Nested
      <4> QED
        BY <4>1, ExtFinite DEF There
    <3>2. d \in Chain(t, d) /\ Chain(t, d) \subseteq There(t) /\ Upward(Chain(t, d), t)
      BY ChainFacts
    <3> QED
      BY <3>1, <3>2 DEF Upward
  <2>2. Chain(t, t[d].parent) \subseteq Chain(t, d)
    BY <2>1, ChainFacts
  <2> QED
    BY <1>4, <2>2 DEF Subtree
<1> QED
  BY <1>1, <1>2, <1>3, <1>4

-----------------------------------------------------------------------------
(* The library: its log, its rows, and what of them is shown. *)

(* The log when its last revision was c. *)
UpTo(lg, c) == SubSeq(lg, 1, c)

(* The first c revisions of a log. *)
LEMMA UpToFacts ==
  ASSUME NEW lg \in Seq(Revision), NEW c \in 0 .. Len(lg)
  PROVE  /\ UpTo(lg, c) \in Seq(Revision) /\ Len(UpTo(lg, c)) = c
         /\ \A i \in 1 .. c : UpTo(lg, c)[i] = lg[i]
         /\ \A d \in 0 .. c : UpTo(UpTo(lg, c), d) = UpTo(lg, d)
         /\ UpTo(lg, Len(lg)) = lg
         /\ \A s \in Seq(Revision) : Len(s) >= Len(lg) /\ (\A i \in 1 .. Len(lg) : s[i] = lg[i])
              => UpTo(s, c) = UpTo(lg, c)
<1>1. UpTo(lg, c) = [i \in 1 .. c |-> lg[i]] /\ Len(lg) \in Nat
  BY DEF UpTo
<1>2. UpTo(lg, c) \in Seq(Revision) /\ Len(UpTo(lg, c)) = c
  BY DEF UpTo
<1>3. \A i \in 1 .. c : UpTo(lg, c)[i] = lg[i]
  BY <1>1
<1>4. ASSUME NEW d \in 0 .. c
      PROVE  UpTo(UpTo(lg, c), d) = UpTo(lg, d)
  <2>1. UpTo(UpTo(lg, c), d) = [i \in 1 .. d |-> UpTo(lg, c)[i]]
    BY <1>2 DEF UpTo
  <2>2. UpTo(lg, d) = [i \in 1 .. d |-> lg[i]]
    BY DEF UpTo
  <2>3. \A i \in 1 .. d : UpTo(lg, c)[i] = lg[i]
    BY <1>3
  <2> QED
    BY <2>1, <2>2, <2>3
<1>5. UpTo(lg, Len(lg)) = lg
  <2>1. UpTo(lg, Len(lg)) = [i \in 1 .. Len(lg) |-> lg[i]]
    BY DEF UpTo
  <2> QED
    BY <2>1
<1>6. ASSUME NEW s \in Seq(Revision), Len(s) >= Len(lg), \A i \in 1 .. Len(lg) : s[i] = lg[i]
      PROVE  UpTo(s, c) = UpTo(lg, c)
  <2>1. UpTo(s, c) = [i \in 1 .. c |-> s[i]]
    BY <1>6 DEF UpTo
  <2>2. \A i \in 1 .. c : s[i] = lg[i]
    BY <1>6
  <2> QED
    BY <1>1, <2>1, <2>2
<1> QED
  BY <1>2, <1>3, <1>4, <1>5, <1>6

(* The row of a node is that of its last revision. *)
LEMMA RowIsLast ==
  ASSUME NEW lg \in Seq(Revision), NEW n
  PROVE  /\ \A c \in 1 .. Len(lg) :
              lg[c].node = n /\ (\A d \in c + 1 .. Len(lg) : lg[d].node # n) => RowAt(lg, n) = lg[c].row
         /\ RowAt(lg, n) = None <=> \A c \in 1 .. Len(lg) : lg[c].node # n
         /\ RowAt(lg, n) # None => \E c \in 1 .. Len(lg) : lg[c].node = n /\ RowAt(lg, n) = lg[c].row
                                      /\ \A d \in c + 1 .. Len(lg) : lg[d].node # n
<1> DEFINE at == {c \in DOMAIN lg : lg[c].node = n}
           last == CHOOSE c \in at : \A d \in at : d <= c
<1>1. DOMAIN lg = 1 .. Len(lg) /\ Len(lg) \in Nat
  OBVIOUS
<1>2. at = {} => RowAt(lg, n) = None
  BY DEF RowAt
<1>3. ASSUME at # {}
      PROVE  last \in at /\ (\A d \in at : d <= last) /\ RowAt(lg, n) = lg[last].row
  <2>1. at \in SUBSET (1 .. Len(lg))
    BY <1>1
  <2>2. \E c \in at : \A d \in at : d <= c
    <3> HIDE DEF at
    <3> QED
      BY <1>1, <1>3, <2>1, GreatestBelow
  <2>3. RowAt(lg, n) = lg[last].row
    BY <1>3 DEF RowAt
  <2> QED
    BY <2>2, <2>3
<1> HIDE DEF last
<1>4. \A c \in 1 .. Len(lg) : lg[c].row # None
  <2>1. \A c \in 1 .. Len(lg) : lg[c] \in Revision
    OBVIOUS
  <2> QED
    BY <2>1, RecordAssumption DEF Revision
<1>5. ASSUME NEW c \in 1 .. Len(lg), lg[c].node = n, \A d \in c + 1 .. Len(lg) : lg[d].node # n
      PROVE  RowAt(lg, n) = lg[c].row
  <2>1. c \in at
    BY <1>1, <1>5
  <2>2. last \in at /\ c <= last /\ RowAt(lg, n) = lg[last].row
    BY <1>3, <2>1
  <2>3. last = c
    <3>1. last \in 1 .. Len(lg) /\ lg[last].node = n
      BY <1>1, <2>2
    <3>2. last \notin c + 1 .. Len(lg)
      BY <1>5, <3>1
    <3> QED
      BY <2>2, <3>1, <3>2
  <2> QED
    BY <2>2, <2>3
<1>6. RowAt(lg, n) # None => \E c \in 1 .. Len(lg) : lg[c].node = n /\ RowAt(lg, n) = lg[c].row
                                      /\ \A d \in c + 1 .. Len(lg) : lg[d].node # n
  <2> SUFFICES ASSUME RowAt(lg, n) # None
               PROVE  \E c \in 1 .. Len(lg) : lg[c].node = n /\ RowAt(lg, n) = lg[c].row
                                      /\ \A d \in c + 1 .. Len(lg) : lg[d].node # n
    OBVIOUS
  <2>1. last \in at /\ (\A d \in at : d <= last) /\ RowAt(lg, n) = lg[last].row
    BY <1>2, <1>3
  <2>2. last \in 1 .. Len(lg) /\ lg[last].node = n
    BY <1>1, <2>1
  <2>3. \A d \in last + 1 .. Len(lg) : lg[d].node # n
    <3> SUFFICES ASSUME NEW d \in last + 1 .. Len(lg), lg[d].node = n PROVE FALSE
      OBVIOUS
    <3>1. d \in at
      BY <1>1, <2>2
    <3> QED
      BY <2>1, <2>2, <3>1
  <2> QED
    BY <2>1, <2>2, <2>3
<1>7. RowAt(lg, n) = None <=> \A c \in 1 .. Len(lg) : lg[c].node # n
  <2>1. (\A c \in 1 .. Len(lg) : lg[c].node # n) => at = {}
    BY <1>1
  <2>2. at # {} => RowAt(lg, n) # None
    BY <1>1, <1>3, <1>4
  <2>3. at = {} => \A c \in 1 .. Len(lg) : lg[c].node # n
    BY <1>1
  <2> QED
    BY <1>2, <2>1, <2>2, <2>3
<1> QED
  BY <1>5, <1>6, <1>7

(* The rows after one more revision. *)
LEMMA RowAfter ==
  ASSUME NEW lg \in Seq(Revision), NEW c \in 1 .. Len(lg), NEW n
  PROVE  RowAt(UpTo(lg, c), n) = IF lg[c].node = n THEN lg[c].row ELSE RowAt(UpTo(lg, c - 1), n)
<1> DEFINE long == UpTo(lg, c)
           short == UpTo(lg, c - 1)
<1>1. /\ long \in Seq(Revision) /\ Len(long) = c /\ \A i \in 1 .. c : long[i] = lg[i]
      /\ c - 1 \in 0 .. Len(lg)
  BY UpToFacts
<1>2. short \in Seq(Revision) /\ Len(short) = c - 1 /\ \A i \in 1 .. c - 1 : short[i] = lg[i]
  BY <1>1, UpToFacts
<1> HIDE DEF long, short
<1>3. CASE lg[c].node = n
  <2>1. c \in 1 .. Len(long) /\ long[c].node = n /\ \A d \in c + 1 .. Len(long) : long[d].node # n
    BY <1>1, <1>3
  <2>2. RowAt(long, n) = long[c].row
    BY <1>1, <2>1, RowIsLast
  <2> QED
    BY <1>1, <1>3, <2>2 DEF long
<1>4. CASE lg[c].node # n
  <2>1. CASE RowAt(short, n) = None
    <3>1. \A i \in 1 .. c - 1 : lg[i].node # n
      BY <1>2, <2>1, RowIsLast
    <3>2. \A i \in 1 .. Len(long) : long[i].node # n
      BY <1>1, <1>4, <3>1
    <3>3. RowAt(long, n) = None
      BY <1>1, <3>2, RowIsLast
    <3> QED
      BY <1>4, <2>1, <3>3 DEF long, short
  <2>2. CASE RowAt(short, n) # None
    <3>1. PICK b \in 1 .. c - 1 : /\ short[b].node = n /\ RowAt(short, n) = short[b].row
                                  /\ \A d \in b + 1 .. c - 1 : short[d].node # n
      <4>1. \E b \in 1 .. Len(short) : /\ short[b].node = n /\ RowAt(short, n) = short[b].row
                                       /\ \A d \in b + 1 .. Len(short) : short[d].node # n
        BY <1>2, <2>2, RowIsLast
      <4> QED
        BY <1>2, <4>1
    <3>2. b \in 1 .. Len(long) /\ long[b] = short[b]
      BY <1>1, <1>2
    <3>3. ASSUME NEW d \in b + 1 .. Len(long) PROVE long[d].node # n
      <4>1. CASE d = c
        BY <1>1, <1>4, <4>1
      <4>2. CASE d # c
        <5>1. d \in b + 1 .. c - 1
          BY <1>1, <4>2
        <5>2. d \in 1 .. c /\ d \in 1 .. c - 1
          BY <5>1
        <5>3. long[d] = short[d]
          BY <1>1, <1>2, <5>2
        <5> QED
          BY <3>1, <5>1, <5>3
      <4> QED
        BY <4>1, <4>2
    <3>4. RowAt(long, n) = long[b].row
      BY <1>1, <3>1, <3>2, <3>3, RowIsLast
    <3> QED
      BY <1>4, <3>1, <3>2, <3>4 DEF long, short
  <2> QED
    BY <2>1, <2>2
<1> QED
  BY <1>3, <1>4

(* An empty log has no rows. *)
LEMMA RowAtNothing == \A lg, n : RowAt(UpTo(lg, 0), n) = None
<1>1. \A lg : DOMAIN UpTo(lg, 0) = {}
  BY DEF UpTo
<1> QED
  BY <1>1 DEF RowAt

(* The library's log as dashboards and clients write it: it begins with the *)
(* root, and every revision left the row its operation makes of the last.  *)
Follows(lg, r) ==
  LET old == RowAt(lg, r.node) IN
  /\ r.op \in {"node.create", "node.update", "node.move", "node.delete"}
  /\ r.op = "node.create" <=> old = None
  /\ r.op # "node.create" => r.node # Root
  /\ r.op \in {"node.create", "node.move"} => r.row.parent \in Node /\ RowAt(lg, r.row.parent) # None
  /\ r.op \notin {"node.create", "node.update"} => r.row.title = old.title
  /\ r.op \notin {"node.create", "node.move"} => r.row.parent = old.parent
  /\ r.op \in {"node.create"} => ~r.row.deleted
  /\ r.op = "node.delete" => r.row.deleted
  /\ r.op \in {"node.update", "node.move"} => r.row.deleted = old.deleted

Grown(lg) ==
  /\ lg \in Seq(Revision) /\ Len(lg) >= 1
  /\ lg[1].op = "library.create" /\ lg[1].node = Root
  /\ lg[1].row.parent = None /\ ~lg[1].row.deleted
  /\ \A c \in 2 .. Len(lg) : Follows(UpTo(lg, c - 1), lg[c])

(* What holds at a and passes from each clock to the next holds up to b. *)
LEMMA Onward ==
  ASSUME NEW a \in Nat, NEW b \in Nat, NEW S, a \in S,
         \A c \in a .. b : c < b /\ c \in S => c + 1 \in S
  PROVE  \A c \in a .. b : c \in S
<1> DEFINE Out == {c \in a .. b : c \notin S}
<1>1. SUFFICES ASSUME Out # {} PROVE FALSE
  OBVIOUS
<1>2. PICK m \in Out : \A k \in Out : m <= k
  <2>1. Out \in SUBSET Nat
    OBVIOUS
  <2> HIDE DEF Out
  <2> QED
    BY <1>1, <2>1, LeastNat
<1>3. m # a /\ m - 1 \in a .. b /\ m - 1 < b /\ ~(m <= m - 1) /\ (m - 1) + 1 = m
  BY <1>2
<1>4. m - 1 \in S
  BY <1>2, <1>3
<1> QED
  BY <1>2, <1>3, <1>4

(* A row stays, and keeps each field that no revision was about. *)
LEMMA RowPersists ==
  ASSUME NEW lg, Grown(lg), NEW a \in 1 .. Len(lg), NEW b \in a .. Len(lg), NEW n,
         RowAt(UpTo(lg, a), n) # None
  PROVE  /\ RowAt(UpTo(lg, b), n) # None
         /\ \A x \in a + 1 .. b : lg[x].node = n => lg[x].op # "node.create"
         /\ (\A x \in a + 1 .. b : lg[x].node = n => lg[x].op # "node.update")
              => RowAt(UpTo(lg, b), n).title = RowAt(UpTo(lg, a), n).title
         /\ (\A x \in a + 1 .. b : lg[x].node = n => lg[x].op # "node.move")
              => RowAt(UpTo(lg, b), n).parent = RowAt(UpTo(lg, a), n).parent
         /\ (\A x \in a + 1 .. b : lg[x].node = n => lg[x].op # "node.delete")
              => RowAt(UpTo(lg, b), n).deleted = RowAt(UpTo(lg, a), n).deleted
         /\ RowAt(UpTo(lg, a), n).deleted => RowAt(UpTo(lg, b), n).deleted
<1> DEFINE R(c) == RowAt(UpTo(lg, c), n)
           Without(op, c) == \A x \in a + 1 .. c : lg[x].node = n => lg[x].op # op
           Good(c) == /\ R(c) # None
                      /\ Without("node.create", c)
                      /\ Without("node.update", c) => R(c).title = R(a).title
                      /\ Without("node.move", c) => R(c).parent = R(a).parent
                      /\ Without("node.delete", c) => R(c).deleted = R(a).deleted
                      /\ R(a).deleted => R(c).deleted
           S == {c \in a .. b : Good(c)}
<1>1. a \in Nat /\ b \in Nat /\ Len(lg) \in Nat /\ lg \in Seq(Revision) /\ a <= b /\ b <= Len(lg)
  BY DEF Grown
<1>2. a \in S
  BY <1>1
<1>3. ASSUME NEW c \in a .. b, c < b, c \in S
      PROVE  c + 1 \in S
  <2>1. c + 1 \in 2 .. Len(lg) /\ c + 1 \in 1 .. Len(lg) /\ (c + 1) - 1 = c /\ c + 1 \in a .. b
    BY <1>1, <1>3
  <2>2. R(c + 1) = IF lg[c + 1].node = n THEN lg[c + 1].row ELSE R(c)
    <3>1. RowAt(UpTo(lg, c + 1), n)
            = IF lg[c + 1].node = n THEN lg[c + 1].row ELSE RowAt(UpTo(lg, (c + 1) - 1), n)
      BY <1>1, <2>1, RowAfter
    <3> QED
      BY <2>1, <3>1
  <2>3. Follows(UpTo(lg, c), lg[c + 1])
    <3>1. Follows(UpTo(lg, (c + 1) - 1), lg[c + 1])
      BY <2>1 DEF Grown
    <3> QED
      BY <2>1, <3>1
  <2>4. Good(c)
    BY <1>3
  <2> HIDE DEF R
  <2>5. \A op : Without(op, c + 1) <=> Without(op, c) /\ (lg[c + 1].node = n => lg[c + 1].op # op)
    <3>1. a + 1 .. c + 1 = (a + 1 .. c) \cup {c + 1}
      BY <1>1, <2>1
    <3> QED
      BY <3>1
  <2> HIDE DEF Without
  <2>6. lg[c + 1] \in Revision
    BY <1>1, <2>1
  <2>7. CASE lg[c + 1].node # n
    <3>1. R(c + 1) = R(c) /\ \A op : Without(op, c + 1) <=> Without(op, c)
      BY <2>2, <2>5, <2>7
    <3> QED
      BY <2>1, <2>4, <3>1
  <2>8. CASE lg[c + 1].node = n
    <3>1. R(c + 1) = lg[c + 1].row /\ R(c + 1) # None
      BY <2>2, <2>6, <2>8, RecordAssumption DEF Revision
    <3> DEFINE r == lg[c + 1]
    <3>2. /\ r.op \in {"node.create", "node.update", "node.move", "node.delete"}
          /\ r.op # "node.create"
          /\ r.op \notin {"node.create", "node.update"} => r.row.title = R(c).title
          /\ r.op \notin {"node.create", "node.move"} => r.row.parent = R(c).parent
          /\ r.op = "node.delete" => r.row.deleted
          /\ r.op \in {"node.update", "node.move"} => r.row.deleted = R(c).deleted
      BY <2>3, <2>4, <2>8 DEF Follows, R
    <3>3. \A op : Without(op, c + 1) => Without(op, c) /\ r.op # op
      BY <2>5, <2>8
    <3>4. Without("node.create", c + 1)
      BY <2>4, <2>5, <3>2
    <3> HIDE DEF r
    <3>5. r.row = R(c + 1)
      BY <3>1 DEF r
    <3>6. Without("node.update", c + 1) => R(c + 1).title = R(a).title
      BY <2>4, <3>2, <3>3, <3>5
    <3>7. Without("node.move", c + 1) => R(c + 1).parent = R(a).parent
      BY <2>4, <3>2, <3>3, <3>5
    <3>8. Without("node.delete", c + 1) => R(c + 1).deleted = R(a).deleted
      BY <2>4, <3>2, <3>3, <3>5
    <3>9. R(a).deleted => R(c + 1).deleted
      BY <2>4, <3>2, <3>5
    <3> QED
      BY <2>1, <3>1, <3>4, <3>6, <3>7, <3>8, <3>9
  <2> QED
    BY <2>7, <2>8
<1> HIDE DEF S
<1>4. b \in S
  <2>1. \A c \in a .. b : c \in S
    BY <1>1, <1>2, <1>3, Onward
  <2> QED
    BY <1>1, <2>1
<1> QED
  BY <1>4 DEF S

(* A row that is new was created. *)
LEMMA RowCreated ==
  ASSUME NEW lg, Grown(lg), NEW a \in 1 .. Len(lg), NEW b \in a .. Len(lg), NEW n,
         RowAt(UpTo(lg, a), n) = None, RowAt(UpTo(lg, b), n) # None
  PROVE  \E x \in a + 1 .. b : lg[x].op = "node.create" /\ lg[x].node = n
<1> DEFINE S == {c \in a .. b : RowAt(UpTo(lg, c), n) = None}
<1>1. a \in Nat /\ b \in Nat /\ Len(lg) \in Nat /\ lg \in Seq(Revision) /\ a <= b /\ b <= Len(lg)
  BY DEF Grown
<1>2. SUFFICES ASSUME ~\E x \in a + 1 .. b : lg[x].op = "node.create" /\ lg[x].node = n PROVE FALSE
  OBVIOUS
<1>3. ASSUME NEW c \in a .. b, c < b, c \in S
      PROVE  c + 1 \in S
  <2>1. c + 1 \in 2 .. Len(lg) /\ c + 1 \in 1 .. Len(lg) /\ (c + 1) - 1 = c /\ c + 1 \in a + 1 .. b
    BY <1>1, <1>3
  <2>2. RowAt(UpTo(lg, c + 1), n)
          = IF lg[c + 1].node = n THEN lg[c + 1].row ELSE RowAt(UpTo(lg, (c + 1) - 1), n)
    BY <1>1, <2>1, RowAfter
  <2>3. Follows(UpTo(lg, (c + 1) - 1), lg[c + 1])
    BY <2>1 DEF Grown
  <2>4. lg[c + 1].node # n
    BY <1>2, <1>3, <2>1, <2>3 DEF Follows
  <2> QED
    BY <1>1, <1>3, <2>1, <2>2, <2>4
<1>4. b \in S
  <2>1. a \in S
    BY <1>1
  <2> HIDE DEF S
  <2>2. \A c \in a .. b : c \in S
    BY <1>1, <1>3, <2>1, Onward
  <2> QED
    BY <1>1, <2>2
<1> QED
  BY <1>4

(* A library had grown before, as it has now. *)
LEMMA GrownUpTo ==
  ASSUME NEW lg, Grown(lg), NEW c \in 1 .. Len(lg)
  PROVE  Grown(UpTo(lg, c))
<1>1. lg \in Seq(Revision) /\ Len(lg) \in Nat /\ c \in 0 .. Len(lg)
  BY DEF Grown
<1>2. /\ UpTo(lg, c) \in Seq(Revision) /\ Len(UpTo(lg, c)) = c
      /\ \A i \in 1 .. c : UpTo(lg, c)[i] = lg[i]
      /\ \A d \in 0 .. c : UpTo(UpTo(lg, c), d) = UpTo(lg, d)
  BY <1>1, UpToFacts
<1>3. \A d \in 2 .. c : Follows(UpTo(UpTo(lg, c), d - 1), UpTo(lg, c)[d])
  <2> SUFFICES ASSUME NEW d \in 2 .. c PROVE Follows(UpTo(UpTo(lg, c), d - 1), UpTo(lg, c)[d])
    OBVIOUS
  <2>1. d \in 1 .. c /\ d - 1 \in 0 .. c /\ d \in 2 .. Len(lg)
    BY <1>1
  <2>2. Follows(UpTo(lg, d - 1), lg[d])
    BY <2>1 DEF Grown
  <2> QED
    BY <1>2, <2>1, <2>2
<1>4. UpTo(lg, c)[1] = lg[1] /\ c >= 1
  BY <1>1, <1>2
<1> QED
  BY <1>2, <1>3, <1>4 DEF Grown

(* One more revision that its operation allows. *)
LEMMA GrownAppend ==
  ASSUME NEW lg, Grown(lg), NEW r \in Revision, Follows(lg, r)
  PROVE  Grown(Append(lg, r))
<1> DEFINE s == Append(lg, r)
<1>1. /\ lg \in Seq(Revision) /\ Len(lg) \in Nat /\ Len(lg) >= 1
      /\ s \in Seq(Revision) /\ Len(s) = Len(lg) + 1 /\ s[Len(lg) + 1] = r
      /\ \A i \in 1 .. Len(lg) : s[i] = lg[i]
  BY DEF Grown
<1>2. \A c \in 0 .. Len(lg) : UpTo(s, c) = UpTo(lg, c)
  <2> HIDE DEF s
  <2>1. Len(s) >= Len(lg)
    BY <1>1
  <2> QED
    BY <1>1, <2>1, UpToFacts
<1>3. UpTo(lg, Len(lg)) = lg
  BY <1>1, UpToFacts
<1> HIDE DEF s
<1>4. ASSUME NEW c \in 2 .. Len(s)
      PROVE  Follows(UpTo(s, c - 1), s[c])
  <2>1. CASE c = Len(lg) + 1
    BY <1>1, <1>2, <1>3, <2>1
  <2>2. CASE c # Len(lg) + 1
    <3>1. c \in 2 .. Len(lg) /\ c - 1 \in 0 .. Len(lg) /\ c \in 1 .. Len(lg)
      BY <1>1, <2>2
    <3>2. Follows(UpTo(lg, c - 1), lg[c])
      BY <3>1 DEF Grown
    <3> QED
      BY <1>1, <1>2, <3>1, <3>2
  <2> QED
    BY <2>1, <2>2
<1>5. s[1] = lg[1] /\ Len(s) >= 1
  BY <1>1
<1> QED
  BY <1>1, <1>4, <1>5 DEF Grown, s

(* The rows of a grown log: a child's parent has one, only the root has no parent. *)
LEMMA GrownRows ==
  ASSUME NEW lg, Grown(lg)
  PROVE  /\ RowAt(lg, Root) # None /\ RowAt(lg, Root).parent = None /\ ~RowAt(lg, Root).deleted
         /\ \A n : RowAt(lg, n) # None => n \in Node /\ RowAt(lg, n) \in Row
         /\ \A n : RowAt(lg, n) # None /\ n # Root
                     => RowAt(lg, n).parent \in Node /\ RowAt(lg, RowAt(lg, n).parent) # None
<1> DEFINE R(c, n) == RowAt(UpTo(lg, c), n)
           Good(c) == /\ R(c, Root) # None /\ R(c, Root).parent = None /\ ~R(c, Root).deleted
                      /\ \A n : R(c, n) # None /\ n # Root
                                  => R(c, n).parent \in Node /\ R(c, R(c, n).parent) # None
           S == {c \in 1 .. Len(lg) : Good(c)}
<1>1. lg \in Seq(Revision) /\ Len(lg) \in Nat /\ Len(lg) >= 1 /\ 1 \in 1 .. Len(lg)
  BY DEF Grown
<1>2. ASSUME NEW n, RowAt(lg, n) # None
      PROVE  n \in Node /\ RowAt(lg, n) \in Row
  <2>1. PICK c \in 1 .. Len(lg) : lg[c].node = n
    BY <1>1, <1>2, RowIsLast
  <2>2. lg[c] \in Revision
    BY <1>1
  <2> QED
    BY <1>1, <1>2, <2>1, <2>2, RowAtType DEF Revision
<1>3. 1 \in S
  <2>1. \A n : R(1, n) = IF lg[1].node = n THEN lg[1].row ELSE RowAt(UpTo(lg, 1 - 1), n)
    BY <1>1, RowAfter
  <2>2. \A n : R(1, n) = IF n = Root THEN lg[1].row ELSE None
    BY <2>1, RowAtNothing DEF Grown
  <2>3. lg[1] \in Revision
    BY <1>1
  <2>4. lg[1].row # None /\ lg[1].row.parent = None /\ ~lg[1].row.deleted
    BY <2>3, RecordAssumption DEF Grown, Revision
  <2> QED
    BY <1>1, <2>2, <2>4
<1>4. ASSUME NEW c \in 1 .. Len(lg), c < Len(lg), c \in S
      PROVE  c + 1 \in S
  <2>1. c + 1 \in 2 .. Len(lg) /\ c + 1 \in 1 .. Len(lg) /\ (c + 1) - 1 = c
    BY <1>1, <1>4
  <2> DEFINE r == lg[c + 1]
  <2>2. \A n : R(c + 1, n) = IF r.node = n THEN r.row ELSE R(c, n)
    <3>1. \A n : RowAt(UpTo(lg, c + 1), n)
                   = IF lg[c + 1].node = n THEN lg[c + 1].row ELSE RowAt(UpTo(lg, (c + 1) - 1), n)
      BY <1>1, <2>1, RowAfter
    <3> QED
      BY <2>1, <3>1
  <2>3. Follows(UpTo(lg, c), r)
    <3>1. Follows(UpTo(lg, (c + 1) - 1), lg[c + 1])
      BY <2>1 DEF Grown
    <3> QED
      BY <2>1, <3>1
  <2>4. r \in Revision
    BY <1>1, <2>1
  <2>5. r.row # None
    BY <2>4, RecordAssumption DEF Revision
  <2>6. Good(c)
    BY <1>4
  <2>7. r.node # Root
    BY <2>3, <2>6 DEF Follows
  <2>8. \A n : R(c, n) # None => R(c + 1, n) # None
    <3> HIDE DEF R, r
    <3> QED
      BY <2>2, <2>5
  <2>9. ASSUME NEW n, R(c + 1, n) # None, n # Root
        PROVE  R(c + 1, n).parent \in Node /\ R(c + 1, R(c + 1, n).parent) # None
    <3>1. CASE n = r.node
      <4>1. R(c + 1, n) = r.row
        BY <2>2, <3>1
      <4>2. r.op \in {"node.create", "node.move"} => r.row.parent \in Node /\ R(c, r.row.parent) # None
        BY <2>3 DEF Follows
      <4>3. r.op \notin {"node.create", "node.move"} => R(c, n) # None /\ r.row.parent = R(c, n).parent
        BY <2>3, <3>1 DEF Follows
      <4> HIDE DEF R, r
      <4>4. r.row.parent \in Node /\ R(c, r.row.parent) # None
        BY <2>6, <2>9, <4>2, <4>3
      <4> QED
        BY <2>8, <4>1, <4>4
    <3>2. CASE n # r.node
      <4> HIDE DEF R, r
      <4>1. R(c + 1, n) = R(c, n)
        BY <2>2, <3>2
      <4> QED
        BY <2>6, <2>8, <2>9, <4>1
    <3> QED
      BY <3>1, <3>2
  <2>10. R(c + 1, Root) = R(c, Root)
    BY <2>2, <2>7
  <2> HIDE DEF R
  <2> QED
    BY <2>1, <2>6, <2>9, <2>10
<1>5. Len(lg) \in S
  <2> HIDE DEF S
  <2>1. \A c \in 1 .. Len(lg) : c \in S
    BY <1>1, <1>3, <1>4, Onward
  <2> QED
    BY <1>1, <2>1
<1>6. UpTo(lg, Len(lg)) = lg
  BY <1>1, UpToFacts
<1>7. Good(Len(lg))
  BY <1>5
<1> QED
  BY <1>2, <1>6, <1>7

(* An operation that is allowed continues the log. *)
LEMMA WrittenFollows ==
  ASSUME NEW lg, Grown(lg), NEW op \in NodeOp \ {"node.restore"}, NEW n \in Node, NEW p, NEW title,
         op \in {"node.create", "node.move"} => p \in Node \cup {None},
         op \in {"node.create", "node.update"} => title \in Title,
         Written(lg, op, n, p, title) # <<>>
  PROVE  \E r \in Revision :
           /\ Written(lg, op, n, p, title) = Append(lg, r)
           /\ r.op = op /\ r.node = n /\ Follows(lg, r)
           /\ op \in {"node.create", "node.move"} => r.row.parent = p
           /\ op \in {"node.create", "node.update"} => r.row.title = title
<1> DEFINE old == RowAt(lg, n)
           new == CASE op = "node.create" -> [parent |-> p, title |-> title, deleted |-> FALSE]
                    [] op = "node.update" -> [old EXCEPT !.title = title]
                    [] op = "node.move"   -> [old EXCEPT !.parent = p]
                    [] OTHER              -> [old EXCEPT !.deleted = op = "node.delete"]
           r   == [op |-> op, node |-> n, row |-> new]
<1>1. /\ Written(lg, op, n, p, title) = Append(lg, r)
      /\ op = "node.create" => old = None
      /\ op # "node.create" => old # None /\ n # Root
      /\ op \in {"node.create", "node.move"} => RowAt(lg, p) # None
  BY DEF Written, Live
<1>2. lg \in Seq(Revision) /\ op \in {"node.create", "node.update", "node.move", "node.delete"}
  BY DEF Grown, NodeOp
<1>3. r \in Revision
  <2> HIDE DEF r
  <2>1. Append(lg, r) \in Seq(Revision) /\ Len(Append(lg, r)) = Len(lg) + 1
    BY <1>1, <1>2, WrittenType
  <2>2. Append(lg, r)[Len(lg) + 1] = r /\ Len(lg) \in Nat
    BY <1>2
  <2> QED
    BY <2>1, <2>2
<1>4. op # "node.create" => old \in Row
  BY <1>1, GrownRows
<1>5. op \in {"node.create", "node.move"} => p \in Node
  BY <1>1, GrownRows
<1> HIDE DEF old
<1>6. /\ op \in {"node.create", "node.move"} => new.parent = p
      /\ op \in {"node.create", "node.update"} => new.title = title
      /\ op \notin {"node.create", "node.update"} => new.title = old.title
      /\ op \notin {"node.create", "node.move"} => new.parent = old.parent
      /\ op = "node.create" => ~new.deleted
      /\ op = "node.delete" => new.deleted
      /\ op \in {"node.update", "node.move"} => new.deleted = old.deleted
  <2>1. CASE op = "node.create"
    BY <2>1
  <2>2. CASE op = "node.update"
    <3>1. new = [old EXCEPT !.title = title] /\ old \in Row
      BY <1>4, <2>2
    <3> HIDE DEF new
    <3> QED
      BY <2>2, <3>1 DEF Row
  <2>3. CASE op = "node.move"
    <3>1. new = [old EXCEPT !.parent = p] /\ old \in Row
      BY <1>4, <2>3
    <3> HIDE DEF new
    <3> QED
      BY <2>3, <3>1 DEF Row
  <2>4. CASE op = "node.delete"
    <3>1. new = [old EXCEPT !.deleted = TRUE] /\ old \in Row
      BY <1>4, <2>4
    <3> HIDE DEF new
    <3> QED
      BY <2>4, <3>1 DEF Row
  <2> QED
    BY <1>2, <2>1, <2>2, <2>3, <2>4
<1> HIDE DEF new
<1>7. r.op = op /\ r.node = n /\ r.row = new
  OBVIOUS
<1>8. Follows(lg, r)
  <2> HIDE DEF r
  <2> QED
    BY <1>1, <1>2, <1>5, <1>6, <1>7 DEF Follows, old
<1> HIDE DEF r
<1> QED
  BY <1>1, <1>3, <1>6, <1>7, <1>8

(* What a reader sees: nodes that are live and below the root through nodes *)
(* it sees, and every set of nodes that is so.                             *)
Visible(X, lg) == \A n \in X : Live(lg, n) /\ (RowAt(lg, n).parent = None \/ RowAt(lg, n).parent \in X)

(* What is above a node, and no more. *)
LEMMA LineageFacts ==
  ASSUME IsFiniteSet(Node), NEW lg, Grown(lg), NEW n \in Node, RowAt(lg, n) # None
  PROVE  /\ n \in Lineage(lg, n)
         /\ \A m \in Lineage(lg, n) :
              /\ m \in Node /\ RowAt(lg, m) # None
              /\ RowAt(lg, m).parent = None \/ RowAt(lg, m).parent \in Lineage(lg, n)
         /\ \A X : n \in X /\ (\A m \in X : RowAt(lg, m) # None
                                   /\ (RowAt(lg, m).parent = None \/ RowAt(lg, m).parent \in X))
                     => Lineage(lg, n) \subseteq X
<1> DEFINE S == {m \in Node : RowAt(lg, m) # None}
           N == Cardinality(Node)
           f == [m \in S |-> RowAt(lg, m).parent]
           Up(w) == w = [i \in 0 .. N |->
                      IF i = 0 THEN n ELSE IF w[i - 1] = None THEN None ELSE RowAt(lg, w[i - 1]).parent]
           Along(w) == IsWalk(w, N, n, f)
<1>1. N \in Nat /\ IsFiniteSet(S) /\ Cardinality(S) <= N /\ None \notin S
  <2>1. S \subseteq Node /\ None \notin Node
    BY ManualSyncAssumption
  <2> QED
    BY <2>1, FS_Subset, FS_CardinalityType
<1>2. f \in [S -> S \cup {None}] /\ n \in S
  <2>1. \A d \in S : RowAt(lg, d).parent \in S \cup {None}
    <3> TAKE d \in S
    <3>1. CASE d = Root
      BY <3>1, GrownRows
    <3>2. CASE d # Root
      BY <3>2, GrownRows
    <3> QED
      BY <3>1, <3>2
  <2> QED
    BY <2>1
<1>3. \E w : Along(w)
  <2> HIDE DEF f, N
  <2> QED
    BY <1>1, WalkExists
<1>4. ASSUME NEW w, Along(w)
      PROVE  Up(w)
  <2>1. Steps(w, N, S, f)
    <3>1. ASSUME NEW i \in 1 .. N
          PROVE  w[i] = IF w[i - 1] = None THEN None ELSE f[w[i - 1]]
      <4>1. i \in 0 .. N /\ i # 0
        BY <1>1
      <4> HIDE DEF N
      <4> QED
        BY <1>4, <4>1 DEF IsWalk
    <3>2. w[0] = n
      <4> HIDE DEF N
      <4> QED
        BY <1>1, <1>4 DEF IsWalk
    <3> QED
      BY <1>1, <1>2, <3>1, <3>2 DEF Steps
  <2>2. \A i \in 0 .. N : w[i] \in S \cup {None}
    <3> HIDE DEF f, N, S
    <3> QED
      BY <1>1, <1>2, <2>1, WalkStays
  <2> HIDE DEF N
  <2>3. ASSUME NEW i \in 0 .. N, i # 0, w[i - 1] # None
        PROVE  f[w[i - 1]] = RowAt(lg, w[i - 1]).parent
    <3>1. i - 1 \in 0 .. N
      BY <1>1, <2>3
    <3>2. w[i - 1] \in S
      BY <2>2, <2>3, <3>1
    <3> QED
      BY <3>2
  <2> QED
    BY <1>4, <2>3 DEF IsWalk
<1>5. ASSUME NEW w, Up(w)
      PROVE  Along(w)
  <2> DEFINE Bad == {i \in 0 .. N : w[i] \notin S \cup {None}}
  <2> HIDE DEF N
  <2>0. w[0] = n
    BY <1>1, <1>5
  <2>1. Bad = {}
    <3> SUFFICES ASSUME Bad # {} PROVE FALSE
      OBVIOUS
    <3>1. Bad \in SUBSET Nat
      BY <1>1
    <3>2. PICK i \in Bad : \A j \in Bad : i <= j
      <4> HIDE DEF Bad
      <4> QED
        BY <3>1, LeastNat
    <3>3. i # 0 /\ i \in 0 .. N
      BY <1>2, <2>0, <3>2
    <3>4. i - 1 \in 0 .. N /\ i - 1 \notin Bad
      BY <1>1, <3>2, <3>3
    <3>5. w[i] = IF w[i - 1] = None THEN None ELSE RowAt(lg, w[i - 1]).parent
      BY <1>5, <3>3
    <3>6. w[i] \in S \cup {None}
      <4>1. CASE w[i - 1] = None
        BY <3>5, <4>1
      <4>2. CASE w[i - 1] # None
        <5>1. w[i - 1] \in S
          BY <3>4, <4>2
        <5>2. f[w[i - 1]] = RowAt(lg, w[i - 1]).parent
          BY <5>1
        <5> HIDE DEF f, S
        <5> QED
          BY <1>2, <3>5, <4>2, <5>1, <5>2
      <4> QED
        BY <4>1, <4>2
    <3> QED
      BY <3>2, <3>6
  <2>2. ASSUME NEW i \in 0 .. N, i # 0, w[i - 1] # None
        PROVE  f[w[i - 1]] = RowAt(lg, w[i - 1]).parent
    <3>1. i - 1 \in 0 .. N
      BY <1>1, <2>2
    <3>2. w[i - 1] \in S
      BY <2>1, <2>2, <3>1
    <3> QED
      BY <3>2
  <2> QED
    BY <1>5, <2>2 DEF IsWalk
<1> DEFINE up == CHOOSE w : Up(w)
<1>6. Up(up)
  BY <1>3, <1>4
<1>7. Lineage(lg, n) = Passes(up, N)
  BY DEF Lineage, Passes
<1> HIDE DEF up
<1>8. Along(up)
  BY <1>5, <1>6
<1> HIDE DEF Up
<1>9. /\ n \in Passes(up, N) /\ Passes(up, N) \subseteq S /\ Closed(Passes(up, N), S, f)
      /\ \A X : n \in X /\ Closed(X, S, f) => Passes(up, N) \subseteq X
  <2> HIDE DEF f, N, S
  <2> QED
    BY <1>1, <1>2, <1>8, WalkIsLeast
<1>10. \A m \in Lineage(lg, n) :
              /\ m \in Node /\ RowAt(lg, m) # None
              /\ RowAt(lg, m).parent = None \/ RowAt(lg, m).parent \in Lineage(lg, n)
  BY <1>7, <1>9 DEF Closed
<1>11. ASSUME NEW X, n \in X,
              \A m \in X : RowAt(lg, m) # None /\ (RowAt(lg, m).parent = None \/ RowAt(lg, m).parent \in X)
       PROVE  Lineage(lg, n) \subseteq X
  <2>1. Closed(X, S, f)
    BY <1>11 DEF Closed
  <2> QED
    BY <1>7, <1>9, <1>11, <2>1
<1> QED
  BY <1>7, <1>9, <1>10, <1>11

(* What is shown is the greatest set of live nodes below the root. *)
LEMMA ShownFacts ==
  ASSUME IsFiniteSet(Node), NEW lg, Grown(lg)
  PROVE  /\ Shown(lg) \subseteq Node /\ Visible(Shown(lg), lg) /\ Root \in Shown(lg)
         /\ \A X \in SUBSET Node : Visible(X, lg) => X \subseteq Shown(lg)
<1>1. ASSUME NEW X \in SUBSET Node, Visible(X, lg)
      PROVE  X \subseteq Shown(lg)
  <2>1. ASSUME NEW n \in X
        PROVE  n \in Shown(lg)
    <3>1. RowAt(lg, n) # None /\ n \in Node
      BY <1>1, <2>1 DEF Visible, Live
    <3>2. \A m \in X : RowAt(lg, m) # None /\ (RowAt(lg, m).parent = None \/ RowAt(lg, m).parent \in X)
      BY <1>1 DEF Visible, Live
    <3>3. Lineage(lg, n) \subseteq X
      BY <2>1, <3>1, <3>2, LineageFacts
    <3> QED
      BY <1>1, <3>1, <3>3 DEF Visible, Shown
  <2> QED
    BY <2>1
<1>2. ASSUME NEW n \in Shown(lg)
      PROVE  Live(lg, n) /\ (RowAt(lg, n).parent = None \/ RowAt(lg, n).parent \in Shown(lg))
  <2> DEFINE X == Lineage(lg, n)
  <2>1. n \in Node /\ RowAt(lg, n) # None /\ \A m \in X : Live(lg, m)
    BY DEF Shown
  <2>2. n \in X /\ \A m \in X : m \in Node /\ (RowAt(lg, m).parent = None \/ RowAt(lg, m).parent \in X)
    BY <2>1, LineageFacts
  <2> HIDE DEF X
  <2>3. X \in SUBSET Node /\ Visible(X, lg)
    BY <2>1, <2>2 DEF Visible
  <2>4. X \subseteq Shown(lg)
    BY <1>1, <2>3
  <2> QED
    BY <2>1, <2>2, <2>4
<1>3. Root \in Shown(lg)
  <2>1. {Root} \in SUBSET Node /\ Visible({Root}, lg)
    BY GrownRows, ManualSyncAssumption DEF Visible, Live
  <2> QED
    BY <1>1, <2>1
<1> QED
  BY <1>1, <1>2, <1>3 DEF Shown, Visible

(* The row since one of its revisions. *)
LEMMA RowSince ==
  ASSUME NEW lg, Grown(lg), NEW x \in 1 .. Len(lg), NEW n, lg[x].node = n
  PROVE  /\ RowAt(UpTo(lg, x), n) = lg[x].row /\ RowAt(lg, n) # None /\ lg[x] \in Revision
         /\ \A y \in x + 1 .. Len(lg) : lg[y].node = n => lg[y].op # "node.create"
         /\ (\A y \in x + 1 .. Len(lg) : lg[y].node = n => lg[y].op # "node.update")
              => RowAt(lg, n).title = lg[x].row.title
         /\ (\A y \in x + 1 .. Len(lg) : lg[y].node = n => lg[y].op # "node.move")
              => RowAt(lg, n).parent = lg[x].row.parent
         /\ (\A y \in x + 1 .. Len(lg) : lg[y].node = n => lg[y].op # "node.delete")
              => RowAt(lg, n).deleted = lg[x].row.deleted
         /\ lg[x].row.deleted => RowAt(lg, n).deleted
<1>1. lg \in Seq(Revision) /\ Len(lg) \in Nat
  BY DEF Grown
<1>2. RowAt(UpTo(lg, x), n) = lg[x].row
  BY <1>1, RowAfter
<1>3. lg[x] \in Revision /\ lg[x].row # None
  <2>1. lg[x] \in Revision
    BY <1>1
  <2> QED
    BY <2>1, RecordAssumption DEF Revision
<1>4. UpTo(lg, Len(lg)) = lg /\ Len(lg) \in x .. Len(lg)
  BY <1>1, UpToFacts
<1> QED
  BY <1>2, <1>3, <1>4, RowPersists

(* Where a title and a parent come from. *)
LEMMA RowHistory ==
  ASSUME NEW lg, Grown(lg), NEW a \in 1 .. Len(lg), NEW n, RowAt(UpTo(lg, a), n) # None
  PROVE  /\ \/ /\ RowAt(lg, n).title = RowAt(UpTo(lg, a), n).title
               /\ \A x \in a + 1 .. Len(lg) : lg[x].node = n => lg[x].op # "node.update"
            \/ \E x \in a + 1 .. Len(lg) : /\ lg[x].node = n /\ lg[x].op = "node.update"
                                           /\ RowAt(lg, n).title = lg[x].row.title
         /\ \/ /\ RowAt(lg, n).parent = RowAt(UpTo(lg, a), n).parent
               /\ \A x \in a + 1 .. Len(lg) : lg[x].node = n => lg[x].op # "node.move"
            \/ \E x \in a + 1 .. Len(lg) : /\ lg[x].node = n /\ lg[x].op = "node.move"
                                           /\ RowAt(lg, n).parent = lg[x].row.parent
<1>1. lg \in Seq(Revision) /\ Len(lg) \in Nat /\ Len(lg) \in a .. Len(lg) /\ UpTo(lg, Len(lg)) = lg
  BY UpToFacts DEF Grown
<1> DEFINE Clocks(op) == {x \in a + 1 .. Len(lg) : lg[x].node = n /\ lg[x].op = op}
<1>2. ASSUME NEW op, Clocks(op) # {}
      PROVE  \E x \in Clocks(op) : \A y \in x + 1 .. Len(lg) : lg[y].node = n => lg[y].op # op
  <2>1. Clocks(op) \in SUBSET (1 .. Len(lg))
    OBVIOUS
  <2>2. PICK x \in Clocks(op) : \A y \in Clocks(op) : y <= x
    <3> HIDE DEF Clocks
    <3> QED
      BY <1>1, <1>2, <2>1, GreatestBelow
  <2>3. \A y \in x + 1 .. Len(lg) : lg[y].node = n => lg[y].op # op
    <3> SUFFICES ASSUME NEW y \in x + 1 .. Len(lg), lg[y].node = n, lg[y].op = op PROVE FALSE
      OBVIOUS
    <3>1. x \in Nat /\ x >= a + 1 /\ y \in a + 1 .. Len(lg) /\ ~(y <= x)
      BY <1>1
    <3>2. y \in Clocks(op)
      BY <3>1
    <3> QED
      BY <2>2, <3>1, <3>2
  <2> QED
    BY <2>3
<1>3. \/ /\ RowAt(lg, n).title = RowAt(UpTo(lg, a), n).title
         /\ \A x \in a + 1 .. Len(lg) : lg[x].node = n => lg[x].op # "node.update"
      \/ \E x \in a + 1 .. Len(lg) : /\ lg[x].node = n /\ lg[x].op = "node.update"
                                     /\ RowAt(lg, n).title = lg[x].row.title
  <2>1. CASE Clocks("node.update") = {}
    <3>1. \A x \in a + 1 .. Len(lg) : lg[x].node = n => lg[x].op # "node.update"
      BY <2>1
    <3> QED
      BY <1>1, <3>1, RowPersists
  <2>2. CASE Clocks("node.update") # {}
    <3>1. PICK x \in Clocks("node.update") :
            \A y \in x + 1 .. Len(lg) : lg[y].node = n => lg[y].op # "node.update"
      BY <1>2, <2>2
    <3>2. x \in 1 .. Len(lg) /\ x \in a + 1 .. Len(lg) /\ lg[x].node = n /\ lg[x].op = "node.update"
      OBVIOUS
    <3>3. RowAt(lg, n).title = lg[x].row.title
      BY <3>1, <3>2, RowSince
    <3> QED
      BY <3>2, <3>3
  <2> QED
    BY <2>1, <2>2
<1>4. \/ /\ RowAt(lg, n).parent = RowAt(UpTo(lg, a), n).parent
         /\ \A x \in a + 1 .. Len(lg) : lg[x].node = n => lg[x].op # "node.move"
      \/ \E x \in a + 1 .. Len(lg) : /\ lg[x].node = n /\ lg[x].op = "node.move"
                                     /\ RowAt(lg, n).parent = lg[x].row.parent
  <2>1. CASE Clocks("node.move") = {}
    <3>1. \A x \in a + 1 .. Len(lg) : lg[x].node = n => lg[x].op # "node.move"
      BY <2>1
    <3> QED
      BY <1>1, <3>1, RowPersists
  <2>2. CASE Clocks("node.move") # {}
    <3>1. PICK x \in Clocks("node.move") :
            \A y \in x + 1 .. Len(lg) : lg[y].node = n => lg[y].op # "node.move"
      BY <1>2, <2>2
    <3>2. x \in 1 .. Len(lg) /\ x \in a + 1 .. Len(lg) /\ lg[x].node = n /\ lg[x].op = "node.move"
      OBVIOUS
    <3>3. RowAt(lg, n).parent = lg[x].row.parent
      BY <3>1, <3>2, RowSince
    <3> QED
      BY <3>2, <3>3
  <2> QED
    BY <2>1, <2>2
<1> QED
  BY <1>3, <1>4

(* A node that was there but not shown comes into sight only through a      *)
(* revision of a node that was not shown.                                  *)
LEMMA NoneReturns ==
  ASSUME IsFiniteSet(Node), NEW lg, Grown(lg), NEW a \in 1 .. Len(lg),
         \A x \in a + 1 .. Len(lg) : RowAt(UpTo(lg, a), lg[x].node) # None /\ lg[x].node \in Shown(lg)
                                       => lg[x].node \in Shown(UpTo(lg, a)),
         NEW n \in Shown(lg), RowAt(UpTo(lg, a), n) # None
  PROVE  n \in Shown(UpTo(lg, a))
<1> DEFINE old == UpTo(lg, a)
           X == {m \in Shown(lg) : RowAt(old, m) # None /\ m \notin Shown(old)}
           Y == Shown(old) \cup X
<1>1. /\ Grown(old) /\ lg \in Seq(Revision) /\ Len(lg) \in Nat
      /\ Len(lg) \in a .. Len(lg) /\ UpTo(lg, Len(lg)) = lg
  BY GrownUpTo, UpToFacts DEF Grown
<1>2. /\ Shown(lg) \subseteq Node /\ Visible(Shown(lg), lg)
      /\ Shown(old) \subseteq Node /\ Visible(Shown(old), old) /\ Root \in Shown(old)
      /\ \A Z \in SUBSET Node : Visible(Z, old) => Z \subseteq Shown(old)
  <2> HIDE DEF old
  <2> QED
    BY <1>1, ShownFacts
<1>3. ASSUME NEW m \in X
      PROVE  Live(old, m) /\ RowAt(old, m).parent \in Y
  <2>1. m \in Shown(lg) /\ RowAt(old, m) # None /\ m \notin Shown(old)
    OBVIOUS
  <2>2. \A x \in a + 1 .. Len(lg) : lg[x].node # m
    BY <2>1
  <2>3. RowAt(lg, m) # None /\ RowAt(lg, m).parent = RowAt(old, m).parent /\ RowAt(lg, m).deleted = RowAt(old, m).deleted
    BY <1>1, <2>1, <2>2, RowPersists
  <2>4. Live(lg, m) /\ (RowAt(lg, m).parent = None \/ RowAt(lg, m).parent \in Shown(lg))
    BY <1>2, <2>1 DEF Visible
  <2>5. m # Root
    BY <1>2, <2>1
  <2>6. RowAt(old, m).parent \in Node /\ RowAt(old, RowAt(old, m).parent) # None
    <3> HIDE DEF old
    <3> QED
      BY <1>1, <2>1, <2>5, GrownRows
  <2>7. RowAt(old, m).parent # None
    BY <2>6, ManualSyncAssumption
  <2>8. RowAt(old, m).parent \in Y
    BY <2>3, <2>4, <2>6, <2>7
  <2> QED
    BY <2>1, <2>3, <2>4, <2>8 DEF Live
<1>4. Visible(Y, old) /\ Y \in SUBSET Node
  <2> HIDE DEF X, old
  <2>1. \A m \in Shown(old) : Live(old, m) /\ (RowAt(old, m).parent = None \/ RowAt(old, m).parent \in Y)
    BY <1>2 DEF Visible
  <2>2. Y \in SUBSET Node
    BY <1>2 DEF X
  <2> QED
    BY <1>3, <2>1, <2>2 DEF Visible
<1>5. Y \subseteq Shown(old)
  <2> HIDE DEF Y, old
  <2> QED
    BY <1>2, <1>4
<1>6. X = {}
  BY <1>5
<1> QED
  BY <1>6

-----------------------------------------------------------------------------
(* Plans: what a browser still has to do to show what the library shows. *)

(* A map that gives each server node one browser id, and only nodes that    *)
(* are in the log; a tree that shows the library's through it.             *)
OneToOne(map) == \A e, d \in Ext : map[e] = map[d] /\ map[e] # None => e = d
Named(map, lg) == map[Bar] = Root /\ \A e \in Ext : map[e] # None => RowAt(lg, map[e]) # None
Matched(t, map, lg) == Agrees(t, map, lg) /\ OneToOne(map) /\ Named(map, lg)

(* The map read backwards. *)
LEMMA BrowserIdFacts ==
  ASSUME NEW map \in MapType, NEW n \in Node
  PROVE  /\ BrowserIdOf(map, n) # None => BrowserIdOf(map, n) \in Ext /\ map[BrowserIdOf(map, n)] = n
         /\ BrowserIdOf(map, n) = None <=> \A e \in Ext : map[e] # n
<1> DEFINE es == {e \in Ext : map[e] = n}
           pick == CHOOSE e \in es : \A d \in es : d <= e
<1>1. CASE es = {}
  BY <1>1 DEF BrowserIdOf
<1>2. CASE es # {}
  <2>1. \E e \in es : \A d \in es : d <= e
    <3> DEFINE up == {e + 1 : e \in es}
    <3>1. MaxExt \in Nat /\ MaxExt + 1 \in Nat
      BY ManualSyncAssumption
    <3>2. \A e \in es : e \in Nat /\ e + 1 \in 1 .. MaxExt + 1
      BY <3>1 DEF Ext
    <3>3. up \in SUBSET (1 .. MaxExt + 1) /\ up # {}
      BY <1>2, <3>2
    <3>4. PICK m \in up : \A k \in up : k <= m
      <4> HIDE DEF up
      <4> QED
        BY <3>1, <3>3, GreatestBelow
    <3>5. PICK e \in es : m = e + 1
      OBVIOUS
    <3>6. \A d \in es : d + 1 <= e + 1
      BY <3>4, <3>5
    <3> QED
      BY <3>2, <3>6
  <2>2. pick \in es
    BY <2>1
  <2>3. BrowserIdOf(map, n) = pick
    BY <1>2 DEF BrowserIdOf
  <2> HIDE DEF pick
  <2>4. pick \in Ext /\ pick # None /\ map[pick] = n
    BY <2>2, ExtFinite
  <2> QED
    BY <2>3, <2>4
<1> QED
  BY <1>1, <1>2

(* What is left of a plan: a node's operation of a phase. *)
Left(Q, p, n) == \E q \in Q : q.phase = p /\ q.node = n

(* A plan is taken from the revisions of lg, translated with map; of those   *)
(* of a node, it still has the ones that come after one it has.            *)
Listed(Q, map, lg) ==
  /\ \A q \in Q :
       /\ q.clock \in 2 .. Len(lg) /\ q.node = lg[q.clock].node
       /\ q.phase = PhaseOf(lg[q.clock].op) /\ q.title = lg[q.clock].row.title
       /\ q.ext = BrowserIdOf(map, q.node) /\ q.parent = BrowserIdOf(map, lg[q.clock].row.parent)
  /\ \A q \in Q : \A c \in q.clock + 1 .. Len(lg) :
       lg[c].node = q.node /\ q.phase <= PhaseOf(lg[c].op) => \E p \in Q : p.clock = c

(* t shows through m what lg shows, but for what the plan Q has yet to do.  *)
Halfway(t, m, Q, lg) ==
  /\ OneToOne(m) /\ Named(m, lg)
  /\ \A e \in There(t) : m[e] # None
  /\ \A e \in There(t) \ {Bar} :
       /\ Left(Q, 2, m[e]) \/ t[e].title = RowAt(lg, m[e]).title
       /\ Left(Q, 3, m[e]) \/ m[t[e].parent] = RowAt(lg, m[e]).parent
  /\ \A e \in There(t) : Left(Q, 4, m[e]) \/ ~RowAt(lg, m[e]).deleted
  /\ \A n \in Shown(lg) : Left(Q, 1, n) \/ \E e \in There(t) : m[e] = n
  /\ \A e \in Ext : ~Left(Q, 1, m[e])

(* An operation on a bookmark that is gone, or never was: the plan will fail. *)
Doomed(t, org, Q) == \E q \in Q :
  q.phase > 1 /\ (q.ext = None \/ (t[q.ext] = None /\ org[q.ext] # None))

(* When nothing is left the trees agree. *)
LEMMA NothingLeft ==
  ASSUME IsFiniteSet(Node), NEW lg, Grown(lg), NEW t, Nested(t), NEW m \in MapType, Halfway(t, m, {}, lg)
  PROVE  Matched(t, m, lg)
<1> DEFINE V == {m[e] : e \in There(t)}
<1>1. \A p, n : ~Left({}, p, n)
  BY DEF Left
<1>2. /\ OneToOne(m) /\ Named(m, lg)
      /\ \A e \in There(t) : m[e] # None
      /\ \A e \in There(t) \ {Bar} :
           t[e].title = RowAt(lg, m[e]).title /\ m[t[e].parent] = RowAt(lg, m[e]).parent
      /\ \A e \in There(t) : ~RowAt(lg, m[e]).deleted
      /\ \A n \in Shown(lg) : \E e \in There(t) : m[e] = n
  BY <1>1 DEF Halfway
<1>3. /\ Shown(lg) \subseteq Node
      /\ \A X \in SUBSET Node : Visible(X, lg) => X \subseteq Shown(lg)
  BY ShownFacts
<1>4. There(t) \subseteq Ext
  BY DEF There
<1>5. V \in SUBSET Node
  BY <1>2, <1>4 DEF MapType
<1>6. Visible(V, lg)
  <2> SUFFICES ASSUME NEW e \in There(t)
               PROVE  Live(lg, m[e]) /\ (RowAt(lg, m[e]).parent = None \/ RowAt(lg, m[e]).parent \in V)
    BY DEF Visible
  <2>1. Live(lg, m[e])
    BY <1>2, <1>4 DEF Live, Named
  <2>2. CASE e = Bar
    BY <1>2, <2>1, <2>2, GrownRows DEF Named
  <2>3. CASE e # Bar
    BY <1>2, <2>1, <2>3 DEF Nested
  <2> QED
    BY <2>2, <2>3
<1>7. V \subseteq Shown(lg)
  <2> HIDE DEF V
  <2> QED
    BY <1>3, <1>5, <1>6
<1>8. V = Shown(lg)
  BY <1>2, <1>7
<1>9. \A e, d \in There(t) : m[e] = m[d] => e = d
  BY <1>2, <1>4 DEF OneToOne
<1> QED
  BY <1>2, <1>8, <1>9 DEF Matched, Agrees

(* An operation of a plan is a revision; the browser ids it carries stand    *)
(* for the nodes of that revision.                                         *)
LEMMA PlanOpFacts ==
  ASSUME NEW lg, Grown(lg), NEW map \in MapType, NEW Q, Listed(Q, map, lg), NEW o \in Q
  PROVE  /\ o.clock \in 2 .. Len(lg) /\ o.clock \in 1 .. Len(lg) /\ lg[o.clock].node = o.node
         /\ lg[o.clock] \in Revision /\ o.node \in Node /\ o.phase \in 1 .. 4
         /\ o.title = lg[o.clock].row.title
         /\ o.phase = 1 <=> lg[o.clock].op = "node.create"
         /\ o.phase = 2 <=> lg[o.clock].op = "node.update"
         /\ o.phase = 3 <=> lg[o.clock].op = "node.move"
         /\ o.phase = 4 <=> lg[o.clock].op = "node.delete"
         /\ o.phase = 1 <=> RowAt(UpTo(lg, o.clock - 1), o.node) = None
         /\ o.phase # 1 => o.node # Root
         /\ o.phase = 1 => ~lg[o.clock].row.deleted
         /\ o.phase = 4 => lg[o.clock].row.deleted
         /\ o.ext # None => o.ext \in Ext /\ map[o.ext] = o.node
         /\ o.ext = None => \A e \in Ext : map[e] # o.node
         /\ o.phase \in {1, 3} /\ o.parent # None =>
              /\ o.parent \in Ext /\ map[o.parent] = lg[o.clock].row.parent
              /\ lg[o.clock].row.parent \in Node
<1> DEFINE r == lg[o.clock]
<1>1. /\ o.clock \in 2 .. Len(lg) /\ o.node = r.node
      /\ o.phase = PhaseOf(r.op) /\ o.title = r.row.title
      /\ o.ext = BrowserIdOf(map, o.node) /\ o.parent = BrowserIdOf(map, r.row.parent)
  BY DEF Listed
<1>2. o.clock \in 1 .. Len(lg) /\ lg \in Seq(Revision) /\ Len(lg) \in Nat
  BY <1>1 DEF Grown
<1>3. r \in Revision
  BY <1>2
<1>4. Follows(UpTo(lg, o.clock - 1), r)
  BY <1>1 DEF Grown
<1>5. r.node \in Node
  BY <1>3 DEF Revision
<1> HIDE DEF r
<1>6. /\ r.op \in {"node.create", "node.update", "node.move", "node.delete"}
      /\ r.op = "node.create" <=> RowAt(UpTo(lg, o.clock - 1), r.node) = None
      /\ r.op # "node.create" => r.node # Root
      /\ r.op \in {"node.create", "node.move"} => r.row.parent \in Node
      /\ r.op = "node.create" => ~r.row.deleted
      /\ r.op = "node.delete" => r.row.deleted
  BY <1>4 DEF Follows
<1>7. /\ o.phase \in 1 .. 4
      /\ o.phase = 1 <=> r.op = "node.create"
      /\ o.phase = 2 <=> r.op = "node.update"
      /\ o.phase = 3 <=> r.op = "node.move"
      /\ o.phase = 4 <=> r.op = "node.delete"
  BY <1>1, <1>6 DEF PhaseOf
<1>8. o.ext # None => o.ext \in Ext /\ map[o.ext] = o.node
  BY <1>1, <1>5, BrowserIdFacts
<1>9. o.ext = None => \A e \in Ext : map[e] # o.node
  <2>1. BrowserIdOf(map, o.node) = None <=> \A e \in Ext : map[e] # o.node
    BY <1>1, <1>5, BrowserIdFacts
  <2> QED
    BY <1>1, <2>1
<1>10. o.phase \in {1, 3} /\ o.parent # None =>
              /\ o.parent \in Ext /\ map[o.parent] = r.row.parent
              /\ r.row.parent \in Node
  BY <1>1, <1>6, <1>7, BrowserIdFacts
<1> QED
  BY <1>1, <1>2, <1>3, <1>5, <1>6, <1>7, <1>8, <1>9, <1>10 DEF r

(* A plan without its first operation is still one of the same log. *)
LEMMA ListedShrinks ==
  ASSUME NEW lg, Grown(lg), NEW map \in MapType, NEW Q, Listed(Q, map, lg), NEW o \in Q, IsFirst(o, Q)
  PROVE  Listed(Q \ {o}, map, lg)
<1>1. ASSUME NEW q \in Q \ {o}, NEW c \in q.clock + 1 .. Len(lg),
             lg[c].node = q.node, q.phase <= PhaseOf(lg[c].op)
      PROVE  \E p \in Q \ {o} : p.clock = c
  <2>1. PICK p \in Q : p.clock = c
    BY <1>1 DEF Listed
  <2>2. p.phase = PhaseOf(lg[c].op)
    BY <2>1 DEF Listed
  <2>3. q.phase \in 1 .. 4 /\ q.clock \in 2 .. Len(lg) /\ o.phase \in 1 .. 4 /\ o.clock \in 2 .. Len(lg)
    BY PlanOpFacts
  <2>4. o.phase < q.phase \/ (o.phase = q.phase /\ o.clock <= q.clock)
    BY DEF IsFirst
  <2>5. p # o
    <3> SUFFICES ASSUME p = o PROVE FALSE
      OBVIOUS
    <3>1. q.phase <= o.phase /\ o.clock = c
      BY <1>1, <2>1, <2>2
    <3>2. ~(c <= q.clock)
      BY <2>3
    <3> QED
      BY <2>3, <2>4, <3>1, <3>2
  <2> QED
    BY <2>1, <2>5
<1> QED
  BY <1>1 DEF Listed

(* Performing an operation leaves the others. *)
LEMMA LeftShrinks ==
  ASSUME NEW Q, NEW o \in Q, NEW p, NEW n
  PROVE  /\ Left(Q \ {o}, p, n) => Left(Q, p, n)
         /\ Left(Q, p, n) /\ (p # o.phase \/ n # o.node) => Left(Q \ {o}, p, n)
BY DEF Left

(* After the last one of a phase, no revision of that phase follows. *)
NoneLater(lg, Q, o) ==
  \A p \in o.phase .. 4 : ~Left(Q \ {o}, p, o.node) =>
    \A y \in o.clock + 1 .. Len(lg) : lg[y].node = o.node => PhaseOf(lg[y].op) # p

(* Operations of a phase are performed in the order of their clocks. *)
LEMMA LastOfPhase ==
  ASSUME NEW lg, Grown(lg), NEW map \in MapType, NEW Q, Listed(Q, map, lg), NEW o \in Q
  PROVE  NoneLater(lg, Q, o)
<1>1. o.phase \in 1 .. 4 /\ o.clock \in 2 .. Len(lg)
  BY PlanOpFacts
<1> SUFFICES ASSUME NEW p \in o.phase .. 4, ~Left(Q \ {o}, p, o.node),
                    NEW y \in o.clock + 1 .. Len(lg), lg[y].node = o.node, PhaseOf(lg[y].op) = p
             PROVE  FALSE
  BY DEF NoneLater
<1>2. PICK q \in Q : q.clock = y
  BY <1>1 DEF Listed
<1>3. q.phase = p /\ q.node = o.node
  BY <1>2 DEF Listed
<1>4. q # o
  BY <1>1, <1>2
<1> QED
  BY <1>3, <1>4 DEF Left

(* The steps of a plan, first what does not depend on the operation.        *)
LEMMA DoomedStays ==
  ASSUME NEW t, NEW org, NEW Q, Doomed(t, org, Q), NEW o \in Q,
         o.phase = 1 \/ (o.ext # None /\ t[o.ext] # None),
         \A q \in Q : q.ext \in Ext \cup {None}, NEW t1, NEW org1,
         \A e \in Ext : t[e] = None /\ org[e] # None => t1[e] = None /\ org1[e] # None
  PROVE  Doomed(t1, org1, Q \ {o})
<1>1. PICK q \in Q : q.phase > 1 /\ (q.ext = None \/ (t[q.ext] = None /\ org[q.ext] # None))
  BY DEF Doomed
<1>2. q # o
  BY <1>1
<1> QED
  BY <1>1, <1>2 DEF Doomed

(* A plan that is under way: t shows through m what lg shows but for Q; o is *)
(* the next operation of Q, translated with map.                           *)
UnderWay(o, Q, map, t, m, lg) ==
  /\ Grown(lg) /\ map \in MapType /\ Listed(Q, map, lg) /\ o \in Q /\ IsFirst(o, Q)
  /\ \A q \in Q : q.clock = o.clock => q = o
  /\ Nested(t) /\ m \in MapType /\ Halfway(t, m, Q, lg)
  /\ \A e \in Ext : map[e] # None => m[e] = map[e]

Creates(o, e, t, m, t1, m1) ==
  /\ o.phase = 1 /\ e \in Ext /\ m[e] = None /\ o.parent # None /\ t[o.parent] # None
  /\ t1 = [t EXCEPT ![e] = [parent |-> o.parent, title |-> o.title]]
  /\ m1 = [m EXCEPT ![e] = o.node]

(* A create of the plan that is performed. *)
LEMMA HalfwayCreate ==
  ASSUME NEW lg, NEW map, NEW Q, NEW o, NEW t, NEW m, UnderWay(o, Q, map, t, m, lg),
         NEW e, NEW t1, NEW m1, Creates(o, e, t, m, t1, m1)
  PROVE  Halfway(t1, m1, Q \ {o}, lg)
<1> DEFINE leaf == [parent |-> o.parent, title |-> o.title]
<1>0. /\ Grown(lg) /\ map \in MapType /\ Listed(Q, map, lg) /\ o \in Q
      /\ \A q \in Q : q.clock = o.clock => q = o
      /\ Nested(t) /\ m \in MapType /\ Halfway(t, m, Q, lg)
      /\ \A d \in Ext : map[d] # None => m[d] = map[d]
      /\ o.phase = 1 /\ e \in Ext /\ m[e] = None /\ o.parent # None /\ t[o.parent] # None
      /\ t1 = [t EXCEPT ![e] = leaf]
      /\ m1 = [m EXCEPT ![e] = o.node]
  BY DEF UnderWay, Creates
<1> USE <1>0
<1> DEFINE n == o.node
           r == lg[o.clock]
           P == Q \ {o}
<1>1. /\ o.clock \in 1 .. Len(lg) /\ r.node = n /\ r \in Revision /\ n \in Node /\ o.title = r.row.title
      /\ ~r.row.deleted /\ r.op = "node.create"
      /\ o.parent \in Ext /\ map[o.parent] = r.row.parent /\ r.row.parent \in Node
  BY PlanOpFacts
<1>2. None \notin Node /\ None \notin Leaf /\ n # None /\ o.title \in Title
  BY <1>1, ManualSyncAssumption, RecordAssumption DEF Revision, Row
<1>3. /\ OneToOne(m) /\ Named(m, lg) /\ \A d \in There(t) : m[d] # None
      /\ \A d \in There(t) \ {Bar} :
           /\ Left(Q, 2, m[d]) \/ t[d].title = RowAt(lg, m[d]).title
           /\ Left(Q, 3, m[d]) \/ m[t[d].parent] = RowAt(lg, m[d]).parent
      /\ \A d \in There(t) : Left(Q, 4, m[d]) \/ ~RowAt(lg, m[d]).deleted
      /\ \A x \in Shown(lg) : Left(Q, 1, x) \/ \E d \in There(t) : m[d] = x
      /\ \A d \in Ext : ~Left(Q, 1, m[d])
  BY DEF Halfway
<1>4. Left(Q, 1, n)
  BY DEF Left
<1>5. \A d \in Ext : m[d] # n
  BY <1>3, <1>4
<1>6. m1 \in [Ext -> Node \cup {None}] /\ m1[e] = n /\ \A d \in Ext \ {e} : m1[d] = m[d]
  BY <1>1 DEF MapType
<1>7. t \in [Ext -> Leaf \cup {None}] /\ Rooted(t) /\ leaf \in Leaf /\ leaf # None /\ leaf.parent = o.parent /\ leaf.title = o.title
  BY <1>1, <1>2 DEF Nested, Rooted, TreeType, Leaf
<1>8. /\ e \notin There(t) /\ There(t) \subseteq Ext
  BY <1>3 DEF There
<1>9. /\ t1[e] = leaf /\ \A d \in Ext \ {e} : t1[d] = t[d]
      /\ There(t1) = There(t) \cup {e}
  <2> HIDE DEF n
  <2>1. t1[e] = leaf /\ \A d \in Ext \ {e} : t1[d] = t[d]
    BY <1>7
  <2> QED
    BY <1>7, <2>1 DEF There
<1>10. /\ o.parent \in There(t) /\ o.parent # e /\ e # Bar /\ m[o.parent] = r.row.parent
       /\ Bar \in There(t)
  BY <1>1, <1>2, <1>8, ExtFinite DEF There, Nested
<1>11. Nested(t1)
  <2>1. Rooted(t1)
    BY <1>1, <1>2, <1>7, RootedSteps
  <2>2. t1[Bar] = t[Bar]
    BY <1>9, <1>10, ExtFinite
  <2>3. ASSUME NEW d \in There(t1) \ {Bar} PROVE t1[d].parent \in There(t1)
    <3>1. CASE d = e
      BY <1>7, <1>9, <1>10, <3>1
    <3>2. CASE d # e
      <4>1. d \in There(t) \ {Bar} /\ t1[d] = t[d]
        BY <1>8, <1>9, <3>2
      <4> QED
        BY <1>9, <4>1 DEF Nested
    <3> QED
      BY <3>1, <3>2
  <2> QED
    BY <2>1, <2>2, <2>3 DEF Nested
<1>12. /\ RowAt(lg, n) # None
       /\ (\A y \in o.clock + 1 .. Len(lg) : lg[y].node = n => lg[y].op # "node.create")
       /\ (\A y \in o.clock + 1 .. Len(lg) : lg[y].node = n => lg[y].op # "node.update")
            => RowAt(lg, n).title = r.row.title
       /\ (\A y \in o.clock + 1 .. Len(lg) : lg[y].node = n => lg[y].op # "node.move")
            => RowAt(lg, n).parent = r.row.parent
       /\ (\A y \in o.clock + 1 .. Len(lg) : lg[y].node = n => lg[y].op # "node.delete")
            => ~RowAt(lg, n).deleted
  BY <1>1, RowSince
<1>13. \A p \in 2 .. 4 : ~Left(P, p, n) =>
         \A y \in o.clock + 1 .. Len(lg) : lg[y].node = n => PhaseOf(lg[y].op) # p
  <2>1. NoneLater(lg, Q, o)
    BY LastOfPhase
  <2>2. \A p \in 2 .. 4 : p \in o.phase .. 4
    OBVIOUS
  <2> QED
    BY <2>1, <2>2 DEF NoneLater
<1>14. \A p \in 2 .. 4 : \A x : Left(Q, p, x) => Left(P, p, x)
  BY LeftShrinks
<1>15. ASSUME NEW d \in Ext PROVE ~Left(P, 1, m1[d])
  <2>1. CASE d # e
    BY <1>3, <1>6, <2>1, LeftShrinks
  <2>2. CASE d = e
    <3> SUFFICES ASSUME Left(P, 1, n) PROVE FALSE
      BY <1>6, <2>2
    <3>1. PICK q \in P : q.phase = 1 /\ q.node = n
      BY DEF Left
    <3>2. q.clock \in 1 .. Len(lg) /\ lg[q.clock].node = n /\ lg[q.clock].op = "node.create"
      BY <3>1, PlanOpFacts
    <3>3. \A y \in q.clock + 1 .. Len(lg) : lg[y].node = n => lg[y].op # "node.create"
      BY <3>2, RowSince
    <3>4. q.clock # o.clock
      BY <3>1
    <3>5. Len(lg) \in Nat
      BY DEF Grown
    <3>6. o.clock \in q.clock + 1 .. Len(lg) \/ q.clock \in o.clock + 1 .. Len(lg)
      BY <1>1, <3>2, <3>4, <3>5
    <3> QED
      BY <1>1, <1>12, <3>2, <3>3, <3>6
  <2> QED
    BY <2>1, <2>2
<1> HIDE DEF n, r, P
<1>16. OneToOne(m1)
  BY <1>3, <1>5, <1>6 DEF OneToOne
<1>17. Named(m1, lg)
  BY <1>3, <1>6, <1>10, <1>12, ExtFinite DEF Named
<1>18. \A d \in There(t1) : m1[d] # None
  BY <1>2, <1>3, <1>6, <1>8, <1>9
<1>19. ASSUME NEW d \in There(t1) \ {Bar}
       PROVE  /\ Left(P, 2, m1[d]) \/ t1[d].title = RowAt(lg, m1[d]).title
              /\ Left(P, 3, m1[d]) \/ m1[t1[d].parent] = RowAt(lg, m1[d]).parent
  <2>1. CASE d = e
    <3>1. Left(P, 2, n) \/ RowAt(lg, n).title = r.row.title
      BY <1>12, <1>13 DEF PhaseOf
    <3>2. Left(P, 3, n) \/ RowAt(lg, n).parent = r.row.parent
      BY <1>12, <1>13 DEF PhaseOf
    <3>3. t1[d].title = r.row.title /\ t1[d].parent = o.parent /\ m1[o.parent] = r.row.parent
      BY <1>1, <1>6, <1>7, <1>9, <1>10, <2>1 DEF r
    <3> QED
      BY <1>6, <2>1, <3>1, <3>2, <3>3
  <2>2. CASE d # e
    <3>1. d \in There(t) \ {Bar} /\ t1[d] = t[d] /\ m1[d] = m[d]
      BY <1>6, <1>8, <1>9, <2>2
    <3>2. t[d].parent \in There(t)
      BY <3>1 DEF Nested
    <3>3. m1[t[d].parent] = m[t[d].parent]
      BY <1>6, <1>8, <3>2
    <3> QED
      BY <1>3, <1>14, <3>1, <3>3
  <2> QED
    BY <2>1, <2>2
<1>20. ASSUME NEW d \in There(t1)
       PROVE  Left(P, 4, m1[d]) \/ ~RowAt(lg, m1[d]).deleted
  <2>1. CASE d = e
    BY <1>6, <1>12, <1>13, <2>1 DEF PhaseOf
  <2>2. CASE d # e
    <3>1. d \in There(t) /\ m1[d] = m[d]
      BY <1>6, <1>8, <1>9, <2>2
    <3>2. Left(Q, 4, m[d]) => Left(P, 4, m[d])
      BY <1>14
    <3> QED
      BY <1>3, <3>1, <3>2
  <2> QED
    BY <2>1, <2>2
<1>21. ASSUME NEW x \in Shown(lg)
       PROVE  Left(P, 1, x) \/ \E d \in There(t1) : m1[d] = x
  <2>1. CASE x = n
    BY <1>6, <1>9, <2>1
  <2>2. CASE x # n
    <3>1. Left(Q, 1, x) => Left(P, 1, x)
      BY <2>2, LeftShrinks DEF n, P
    <3> QED
      BY <1>3, <1>6, <1>8, <1>9, <3>1
  <2> QED
    BY <2>1, <2>2
<1> QED
  BY <1>11, <1>15, <1>16, <1>17, <1>18, <1>19, <1>20, <1>21 DEF Halfway, P

(* An update or a move that is performed: one bookmark has another leaf.    *)
Alters(o, t, t1) ==
  /\ o.phase \in {2, 3} /\ o.ext # None /\ t[o.ext] # None
  /\ o.phase = 3 => o.parent # None /\ t[o.parent] # None
  /\ t1 = IF o.phase = 2 THEN [t EXCEPT ![o.ext].title = o.title] ELSE [t EXCEPT ![o.ext].parent = o.parent]

(* What is left to do after it is one operation less. *)
LEMMA HalfwayChange ==
  ASSUME NEW lg, NEW map, NEW Q, NEW o, NEW t, NEW m, UnderWay(o, Q, map, t, m, lg),
         NEW t1, Alters(o, t, t1)
  PROVE  Halfway(t1, m, Q \ {o}, lg)
<1>0. /\ Grown(lg) /\ map \in MapType /\ Listed(Q, map, lg) /\ o \in Q
      /\ Nested(t) /\ m \in MapType /\ Halfway(t, m, Q, lg)
      /\ \A d \in Ext : map[d] # None => m[d] = map[d]
      /\ o.phase \in {2, 3} /\ o.ext # None /\ t[o.ext] # None
      /\ o.phase = 3 => o.parent # None /\ t[o.parent] # None
      /\ t1 = IF o.phase = 2 THEN [t EXCEPT ![o.ext].title = o.title] ELSE [t EXCEPT ![o.ext].parent = o.parent]
  BY DEF UnderWay, Alters
<1> USE <1>0
<1> DEFINE n == o.node
           r == lg[o.clock]
           P == Q \ {o}
           x == o.ext
<1>1. /\ o.clock \in 1 .. Len(lg) /\ r.node = n /\ r \in Revision /\ n \in Node /\ o.title = r.row.title
      /\ n # Root /\ x \in Ext /\ map[x] = n
      /\ o.phase = 3 => o.parent \in Ext /\ map[o.parent] = r.row.parent /\ r.row.parent \in Node
  BY PlanOpFacts
<1>2. None \notin Node /\ None \notin Leaf /\ n # None /\ o.title \in Title
  BY <1>1, ManualSyncAssumption, RecordAssumption DEF Revision, Row
<1>3. /\ OneToOne(m) /\ Named(m, lg) /\ \A d \in There(t) : m[d] # None
      /\ \A d \in There(t) \ {Bar} :
           /\ Left(Q, 2, m[d]) \/ t[d].title = RowAt(lg, m[d]).title
           /\ Left(Q, 3, m[d]) \/ m[t[d].parent] = RowAt(lg, m[d]).parent
      /\ \A d \in There(t) : Left(Q, 4, m[d]) \/ ~RowAt(lg, m[d]).deleted
      /\ \A z \in Shown(lg) : Left(Q, 1, z) \/ \E d \in There(t) : m[d] = z
      /\ \A d \in Ext : ~Left(Q, 1, m[d])
  BY DEF Halfway
<1>4. /\ t \in [Ext -> Leaf \cup {None}] /\ Rooted(t) /\ x \in There(t) /\ There(t) \subseteq Ext
      /\ t[x] \in Leaf /\ t[x] # None
  BY <1>1 DEF Nested, Rooted, TreeType, There
<1>5. m[x] = n /\ (o.phase = 3 => m[o.parent] = r.row.parent) /\ x # Bar
  BY <1>1, <1>2, <1>3 DEF Named
<1> DEFINE leaf == t1[x]
<1>6. /\ \A d \in Ext \ {x} : t1[d] = t[d]
      /\ o.phase = 2 => leaf.title = o.title /\ leaf.parent = t[x].parent
      /\ o.phase = 3 => leaf.parent = o.parent /\ leaf.title = t[x].title
      /\ Rooted(t1) /\ t1[x] \in Leaf
  <2>1. CASE o.phase = 2
    <3>1. t1 = [t EXCEPT ![x].title = o.title]
      BY <2>1
    <3> HIDE DEF x
    <3>2. Rooted(t1)
      <4>1. \A title \in Title : Rooted([t EXCEPT ![x].title = title])
        BY <1>1, <1>4, RootedSteps
      <4> QED
        BY <1>2, <3>1, <4>1
    <3>3. /\ \A d \in Ext \ {x} : t1[d] = t[d]
          /\ t1[x] = [t[x] EXCEPT !.title = o.title]
      BY <1>1, <1>4, <3>1
    <3>4. t1[x].title = o.title /\ t1[x].parent = t[x].parent /\ t1[x] \in Leaf
      BY <1>2, <1>4, <3>3 DEF Leaf
    <3> QED
      BY <2>1, <3>2, <3>3, <3>4
  <2>2. CASE o.phase = 3
    <3>1. t1 = [t EXCEPT ![x].parent = o.parent] /\ o.parent \in Ext
      BY <1>1, <2>2
    <3> HIDE DEF x
    <3>2. Rooted(t1)
      <4>1. \A p \in Ext : Rooted([t EXCEPT ![x].parent = p])
        BY <1>1, <1>4, RootedSteps
      <4> QED
        BY <3>1, <4>1
    <3>3. /\ \A d \in Ext \ {x} : t1[d] = t[d]
          /\ t1[x] = [t[x] EXCEPT !.parent = o.parent]
      BY <1>1, <1>4, <3>1
    <3>4. t1[x].parent = o.parent /\ t1[x].title = t[x].title /\ t1[x] \in Leaf
      BY <1>4, <3>1, <3>3 DEF Leaf
    <3> QED
      BY <2>2, <3>2, <3>3, <3>4
  <2> QED
    BY <2>1, <2>2
<1>7. There(t1) = There(t)
  BY <1>2, <1>4, <1>6 DEF There
<1>8. o.phase = 3 => o.parent \in There(t)
  BY <1>1 DEF There
<1>9. Nested(t1)
  <2>1. t1[Bar] = t[Bar]
    BY <1>5, <1>6, ExtFinite
  <2>2. ASSUME NEW d \in There(t1) \ {Bar} PROVE t1[d].parent \in There(t1)
    <3>1. CASE d # x
      BY <1>4, <1>6, <1>7, <3>1 DEF Nested
    <3>2. CASE d = x
      BY <1>5, <1>6, <1>7, <1>8, <3>2 DEF Nested
    <3> QED
      BY <3>1, <3>2
  <2> QED
    BY <1>6, <2>1, <2>2 DEF Nested
<1>10. /\ (\A y \in o.clock + 1 .. Len(lg) : lg[y].node = n => lg[y].op # "node.update")
            => RowAt(lg, n).title = r.row.title
       /\ (\A y \in o.clock + 1 .. Len(lg) : lg[y].node = n => lg[y].op # "node.move")
            => RowAt(lg, n).parent = r.row.parent
  BY <1>1, RowSince
<1>11. ~Left(P, o.phase, n) =>
         \A y \in o.clock + 1 .. Len(lg) : lg[y].node = n => PhaseOf(lg[y].op) # o.phase
  <2>1. NoneLater(lg, Q, o)
    BY LastOfPhase
  <2> QED
    BY <2>1 DEF NoneLater
<1>12. \A p, z : Left(Q, p, z) /\ (p # o.phase \/ z # n) => Left(P, p, z)
  BY LeftShrinks
<1>13. \A p, z : Left(P, p, z) => Left(Q, p, z)
  BY LeftShrinks
<1> HIDE DEF n, r, P, x
<1>14. \A d \in There(t) : d # x => m[d] # n
  BY <1>1, <1>3, <1>4, <1>5 DEF OneToOne
<1>15. ASSUME NEW d \in There(t1) \ {Bar}
       PROVE  /\ Left(P, 2, m[d]) \/ t1[d].title = RowAt(lg, m[d]).title
              /\ Left(P, 3, m[d]) \/ m[t1[d].parent] = RowAt(lg, m[d]).parent
  <2>1. /\ d \in There(t)
        /\ Left(Q, 2, m[d]) \/ t[d].title = RowAt(lg, m[d]).title
        /\ Left(Q, 3, m[d]) \/ m[t[d].parent] = RowAt(lg, m[d]).parent
    BY <1>3, <1>7
  <2>2. CASE d # x
    BY <1>4, <1>6, <1>12, <1>14, <2>1, <2>2
  <2>3. CASE d = x /\ o.phase = 2
    <3>1. Left(P, 2, n) \/ RowAt(lg, n).title = o.title
      BY <1>1, <1>10, <1>11, <2>3 DEF PhaseOf
    <3>2. Left(Q, 3, n) => Left(P, 3, n)
      BY <1>12, <2>3
    <3> QED
      BY <1>5, <1>6, <2>1, <2>3, <3>1, <3>2
  <2>4. CASE d = x /\ o.phase = 3
    <3>1. Left(P, 3, n) \/ RowAt(lg, n).parent = r.row.parent
      BY <1>1, <1>10, <1>11, <2>4 DEF PhaseOf
    <3>2. Left(Q, 2, n) => Left(P, 2, n)
      BY <1>12, <2>4
    <3> QED
      BY <1>5, <1>6, <2>1, <2>4, <3>1, <3>2
  <2> QED
    BY <2>2, <2>3, <2>4
<1>16. \A d \in There(t1) : Left(P, 4, m[d]) \/ ~RowAt(lg, m[d]).deleted
  BY <1>3, <1>7, <1>12
<1>17. \A z \in Shown(lg) : Left(P, 1, z) \/ \E d \in There(t1) : m[d] = z
  BY <1>3, <1>7, <1>12
<1>18. \A d \in Ext : ~Left(P, 1, m[d])
  BY <1>3, <1>13
<1>19. \A d \in There(t1) : m[d] # None
  BY <1>3, <1>7
<1> QED
  BY <1>3, <1>7, <1>9, <1>15, <1>16, <1>17, <1>18, <1>19 DEF Halfway, P

(* A delete that is performed: the first one only comes when all else is     *)
(* done, so what is shown is not below it.                                 *)
Deletes(o, t, t1) ==
  /\ o.phase = 4 /\ o.ext # None /\ t[o.ext] # None
  /\ t1 = [e \in Ext |-> IF e \in Subtree(t, o.ext) THEN None ELSE t[e]]

(* What is left to do after it is one operation less. *)
LEMMA HalfwayDelete ==
  ASSUME IsFiniteSet(Node), NEW lg, NEW map, NEW Q, NEW o, NEW t, NEW m, UnderWay(o, Q, map, t, m, lg),
         NEW t1, Deletes(o, t, t1)
  PROVE  Halfway(t1, m, Q \ {o}, lg)
<1>0. /\ Grown(lg) /\ map \in MapType /\ Listed(Q, map, lg) /\ o \in Q /\ IsFirst(o, Q)
      /\ Nested(t) /\ m \in MapType /\ Halfway(t, m, Q, lg)
      /\ \A d \in Ext : map[d] # None => m[d] = map[d]
      /\ o.phase = 4 /\ o.ext # None /\ t[o.ext] # None
      /\ t1 = [e \in Ext |-> IF e \in Subtree(t, o.ext) THEN None ELSE t[e]]
  BY DEF UnderWay, Deletes
<1> USE <1>0
<1> DEFINE n == o.node
           r == lg[o.clock]
           P == Q \ {o}
           x == o.ext
           D == Subtree(t, x)
<1>1. /\ o.clock \in 1 .. Len(lg) /\ r.node = n /\ n \in Node /\ r.row.deleted
      /\ n # Root /\ x \in Ext /\ map[x] = n
  BY PlanOpFacts
<1>2. None \notin Node /\ n # None
  BY <1>1, ManualSyncAssumption
<1>3. /\ OneToOne(m) /\ Named(m, lg) /\ \A d \in There(t) : m[d] # None
      /\ \A d \in There(t) \ {Bar} :
           /\ Left(Q, 2, m[d]) \/ t[d].title = RowAt(lg, m[d]).title
           /\ Left(Q, 3, m[d]) \/ m[t[d].parent] = RowAt(lg, m[d]).parent
      /\ \A d \in There(t) : Left(Q, 4, m[d]) \/ ~RowAt(lg, m[d]).deleted
      /\ \A z \in Shown(lg) : Left(Q, 1, z) \/ \E d \in There(t) : m[d] = z
      /\ \A d \in Ext : ~Left(Q, 1, m[d])
  BY DEF Halfway
<1>4. /\ t \in [Ext -> Leaf \cup {None}] /\ Rooted(t) /\ x \in There(t) /\ There(t) \subseteq Ext
  BY <1>1 DEF Nested, Rooted, TreeType, There
<1>5. m[x] = n /\ x # Bar
  BY <1>1, <1>2, <1>3 DEF Named
<1>6. /\ x \in D /\ D \subseteq There(t) /\ Bar \notin D
      /\ \A d \in There(t) \ {Bar} : t[d].parent \in D => d \in D
      /\ \A X : X \subseteq There(t) /\ Upward(X, t) /\ x \notin X => X \cap D = {}
  <2> HIDE DEF x
  <2> QED
    BY <1>4, <1>5, SubtreeFacts
<1>7. \A p \in 1 .. 3 : \A z : ~Left(Q, p, z)
  <2> SUFFICES ASSUME NEW q \in Q PROVE q.phase \notin 1 .. 3
    BY DEF Left
  <2> QED
    BY PlanOpFacts DEF IsFirst
<1>8. RowAt(lg, n).deleted
  BY <1>1, RowSince
<1>9. \A p, z : Left(Q, p, z) /\ (p # o.phase \/ z # n) => Left(P, p, z)
  BY LeftShrinks
<1>10. \A p, z : Left(P, p, z) => Left(Q, p, z)
  BY LeftShrinks
<1> DEFINE X == {e \in There(t) : m[e] \in Shown(lg)}
<1>11. X \cap D = {}
  <2>1. /\ Shown(lg) \subseteq Node /\ Visible(Shown(lg), lg)
    BY ShownFacts
  <2>2. x \notin X
    BY <1>5, <1>8, <2>1 DEF Visible, Live
  <2>3. ASSUME NEW e \in X PROVE t[e].parent = None \/ t[e].parent \in X
    <3>1. CASE e = Bar
      BY <3>1 DEF Nested
    <3>2. CASE e # Bar
      <4>1. t[e].parent \in There(t) /\ m[t[e].parent] = RowAt(lg, m[e]).parent
        BY <1>3, <1>7, <3>2 DEF Nested
      <4>2. m[t[e].parent] # None
        BY <1>3, <4>1
      <4>3. RowAt(lg, m[e]).parent = None \/ RowAt(lg, m[e]).parent \in Shown(lg)
        BY <2>1 DEF Visible
      <4> QED
        BY <4>1, <4>2, <4>3
    <3> QED
      BY <3>1, <3>2
  <2>4. Upward(X, t)
    BY <2>3 DEF Upward
  <2> HIDE DEF D, x
  <2> QED
    BY <1>6, <2>2, <2>4
<1>12. /\ There(t1) = There(t) \ D /\ \A d \in There(t1) : t1[d] = t[d]
  BY <1>4, <1>6 DEF There
<1>13. Nested(t1)
  <2>1. Rooted(t1)
    BY <1>1, <1>4, RootedSteps
  <2>2. t1[Bar] = t[Bar]
    BY <1>6, ExtFinite
  <2> HIDE DEF D
  <2> QED
    BY <1>6, <1>12, <2>1, <2>2 DEF Nested
<1> HIDE DEF n, r, P, x, D
<1>14. \A d \in There(t) : d # x => m[d] # n
  BY <1>1, <1>3, <1>4, <1>5 DEF OneToOne
<1>15. \A d \in There(t1) \ {Bar} :
         /\ Left(P, 2, m[d]) \/ t1[d].title = RowAt(lg, m[d]).title
         /\ Left(P, 3, m[d]) \/ m[t1[d].parent] = RowAt(lg, m[d]).parent
  BY <1>3, <1>7, <1>12
<1>16. \A d \in There(t1) : Left(P, 4, m[d]) \/ ~RowAt(lg, m[d]).deleted
  BY <1>3, <1>6, <1>9, <1>12, <1>14
<1>17. \A z \in Shown(lg) : \E d \in There(t1) : m[d] = z
  <2> SUFFICES ASSUME NEW z \in Shown(lg) PROVE \E d \in There(t1) : m[d] = z
    OBVIOUS
  <2>1. PICK d \in There(t) : m[d] = z
    BY <1>3, <1>7
  <2>2. d \in X
    BY <2>1
  <2> QED
    BY <1>11, <1>12, <2>1, <2>2
<1>18. \A d \in Ext : ~Left(P, 1, m[d])
  BY <1>3, <1>10
<1>19. \A d \in There(t1) : m[d] # None
  BY <1>3, <1>12
<1> QED
  BY <1>3, <1>12, <1>13, <1>15, <1>16, <1>17, <1>18, <1>19 DEF Halfway, P

(* A plan has one operation for each revision since the base. *)
LEMMA PlanLists ==
  ASSUME NEW lg, Grown(lg), NEW base \in 1 .. Len(lg), NEW map \in MapType,
         NEW Q, Q = Plan(SubSeq(lg, base + 1, Len(lg)), base, map)
  PROVE  /\ Listed(Q, map, lg)
         /\ \A c \in base + 1 .. Len(lg) : \E q \in Q : q.clock = c /\ q.node = lg[c].node /\ q.phase = PhaseOf(lg[c].op)
         /\ \A q \in Q : q.clock \in base + 1 .. Len(lg)
<1> DEFINE ops == SubSeq(lg, base + 1, Len(lg))
           made(i) == [phase |-> PhaseOf(ops[i].op), ext |-> BrowserIdOf(map, ops[i].node),
                       parent |-> BrowserIdOf(map, ops[i].row.parent), node |-> ops[i].node,
                       title |-> ops[i].row.title, clock |-> base + i]
<1>1. lg \in Seq(Revision) /\ Len(lg) \in Nat /\ base \in Nat /\ base <= Len(lg)
  BY DEF Grown
<1>2. ops = [i \in 1 .. Len(lg) - base |-> lg[base + i]]
  <2>1. ops = [i \in 1 .. (Len(lg) - (base + 1)) + 1 |-> lg[(base + 1) + i - 1]]
    BY <1>1
  <2>2. (Len(lg) - (base + 1)) + 1 = Len(lg) - base /\ \A i \in Int : (base + 1) + i - 1 = base + i
    BY <1>1
  <2> HIDE DEF ops
  <2>3. ops = [i \in 1 .. Len(lg) - base |-> lg[(base + 1) + i - 1]]
    BY <2>1, <2>2
  <2>4. \A i \in 1 .. Len(lg) - base : lg[(base + 1) + i - 1] = lg[base + i]
    BY <2>2
  <2> QED
    BY <2>3, <2>4
<1> HIDE DEF ops
<1>3. DOMAIN ops = 1 .. Len(lg) - base /\ \A i \in 1 .. Len(lg) - base : ops[i] = lg[base + i]
  BY <1>2
<1>4. Q = {made(i) : i \in DOMAIN ops}
  BY DEF Plan, ops
<1>5. ASSUME NEW q \in Q
      PROVE  /\ q.clock \in base + 1 .. Len(lg) /\ q.node = lg[q.clock].node
             /\ q.phase = PhaseOf(lg[q.clock].op) /\ q.title = lg[q.clock].row.title
             /\ q.ext = BrowserIdOf(map, q.node) /\ q.parent = BrowserIdOf(map, lg[q.clock].row.parent)
  <2>1. PICK i \in DOMAIN ops : q = made(i)
    BY <1>4
  <2>2. i \in 1 .. Len(lg) - base /\ ops[i] = lg[base + i] /\ base + i \in base + 1 .. Len(lg)
    BY <1>1, <1>3
  <2>3. q.clock = base + i
    BY <2>1
  <2> QED
    BY <2>1, <2>2, <2>3
<1>6. ASSUME NEW c \in base + 1 .. Len(lg)
      PROVE  \E q \in Q : q.clock = c /\ q.node = lg[c].node /\ q.phase = PhaseOf(lg[c].op)
  <2>1. c - base \in DOMAIN ops /\ base + (c - base) = c
    BY <1>1, <1>3
  <2>2. made(c - base) \in Q /\ made(c - base).clock = c
    BY <1>4, <2>1
  <2> HIDE DEF made
  <2> QED
    BY <1>5, <2>2
<1>7. \A c : c \in base + 1 .. Len(lg) => c \in 2 .. Len(lg)
  BY <1>1
<1>8. \A q \in Q : \A c \in q.clock + 1 .. Len(lg) : c \in base + 1 .. Len(lg)
  BY <1>1, <1>5
<1>9. Listed(Q, map, lg)
  BY <1>5, <1>6, <1>7, <1>8 DEF Listed
<1> QED
  BY <1>5, <1>6, <1>9

Seen(t, map, known) == \A e \in There(t) : map[e] # None => known[e] # None

(* Without changes the browser has the tree that was last known. *)
LEMMA NoChanges ==
  ASSUME NEW t, Nested(t), NEW known \in TreeType, NEW map \in MapType, NEW lg, Matched(known, map, lg), Grown(lg),
         IsFiniteSet(Node), Seen(t, map, known), Changes(t, map, known) = {}
  PROVE  /\ There(t) = There(known) /\ \A e \in There(t) : map[e] # None
         /\ \A e \in There(t) \ {Bar} : t[e].title = known[e].title /\ t[e].parent = known[e].parent
<1> DEFINE now == There(t) \ {Bar}
           both == {e \in now : map[e] # None /\ known[e] # None}
<1>1. /\ {d \in now : map[d] = None} = {}
      /\ {d \in both : t[d].title # known[d].title} = {}
      /\ {d \in both : t[d].parent # known[d].parent} = {}
      /\ {d \in There(known) \ There(t) : map[d] # None} = {}
  BY DEF Changes
<1>2. map[Bar] = Root /\ Root # None
  BY ManualSyncAssumption DEF Matched, Named
<1>3. \A e \in There(t) : map[e] # None
  BY <1>1, <1>2
<1>4. There(t) \subseteq There(known)
  BY <1>3 DEF Seen, There
<1>5. There(known) \subseteq There(t)
  <2>1. \A e \in There(known) : map[e] \in Shown(lg)
    BY DEF Matched, Agrees
  <2>2. Shown(lg) \subseteq Node /\ None \notin Node
    BY ShownFacts, ManualSyncAssumption
  <2> QED
    BY <1>1, <2>1, <2>2
<1>6. \A e \in now : e \in both
  BY <1>3, <1>4 DEF There
<1> QED
  BY <1>1, <1>3, <1>4, <1>5, <1>6

(* A client without changes of its own that takes the revisions it missed.  *)
LEMMA HalfwayStart ==
  ASSUME IsFiniteSet(Node), NEW lg, Grown(lg), NEW base \in 1 .. Len(lg),
         NEW map \in MapType, NEW known \in TreeType, Matched(known, map, UpTo(lg, base)),
         NEW Q, Q = Plan(SubSeq(lg, base + 1, Len(lg)), base, map),
         NEW t, Nested(t), Seen(t, map, known), Changes(t, map, known) = {},
         NEW org, \A e \in Ext : map[e] # None => org[e] # None
  PROVE  Doomed(t, org, Q) \/ Halfway(t, map, Q, lg)
<1> DEFINE old == UpTo(lg, base)
           L == Len(lg)
<1>1. /\ lg \in Seq(Revision) /\ L \in Nat /\ L \in base .. L /\ base \in Nat /\ base <= L
      /\ UpTo(lg, L) = lg /\ Grown(old)
  BY GrownUpTo, UpToFacts DEF Grown
<1>2. /\ Listed(Q, map, lg)
      /\ \A c \in base + 1 .. L : \E q \in Q : q.clock = c /\ q.node = lg[c].node /\ q.phase = PhaseOf(lg[c].op)
      /\ \A q \in Q : q.clock \in base + 1 .. L
  BY PlanLists
<1> HIDE DEF old
<1>3. /\ Agrees(known, map, old) /\ OneToOne(map) /\ Named(map, old)
  BY DEF Matched, old
<1>4. /\ There(t) = There(known) /\ \A e \in There(t) : map[e] # None
      /\ \A e \in There(t) \ {Bar} : t[e].title = known[e].title /\ t[e].parent = known[e].parent
  BY <1>1, NoChanges DEF old
<1>5. /\ Shown(old) \subseteq Node /\ Visible(Shown(old), old) /\ None \notin Node
      /\ Shown(lg) \subseteq Node /\ Visible(Shown(lg), lg)
  BY <1>1, ShownFacts, ManualSyncAssumption
<1>6. \A n : RowAt(old, n) # None =>
        /\ RowAt(lg, n) # None
        /\ \A x \in base + 1 .. L : lg[x].node = n => lg[x].op # "node.create"
        /\ (\A x \in base + 1 .. L : lg[x].node = n => lg[x].op # "node.update")
             => RowAt(lg, n).title = RowAt(old, n).title
        /\ (\A x \in base + 1 .. L : lg[x].node = n => lg[x].op # "node.move")
             => RowAt(lg, n).parent = RowAt(old, n).parent
        /\ (\A x \in base + 1 .. L : lg[x].node = n => lg[x].op # "node.delete")
             => RowAt(lg, n).deleted = RowAt(old, n).deleted
  BY <1>1, RowPersists DEF old
<1>7. \A x \in base + 1 .. L : Left(Q, PhaseOf(lg[x].op), lg[x].node)
  BY <1>2 DEF Left
<1>8. SUFFICES ASSUME ~Doomed(t, org, Q) PROVE Halfway(t, map, Q, lg)
  OBVIOUS
<1>9. \A e \in There(t) : e \in Ext /\ map[e] \in Shown(old) /\ map[e] \in Node /\ Live(old, map[e])
  BY <1>3, <1>4, <1>5 DEF Agrees, There, Visible
<1>10. Named(map, lg)
  BY <1>3, <1>6 DEF Named
<1>11. ASSUME NEW e \in There(t) \ {Bar}
       PROVE  /\ Left(Q, 2, map[e]) \/ t[e].title = RowAt(lg, map[e]).title
              /\ Left(Q, 3, map[e]) \/ map[t[e].parent] = RowAt(lg, map[e]).parent
  <2>1. t[e].title = RowAt(old, map[e]).title /\ map[t[e].parent] = RowAt(old, map[e]).parent
    BY <1>3, <1>4 DEF Agrees
  <2>2. RowAt(old, map[e]) # None
    BY <1>9 DEF Live
  <2>3. Left(Q, 2, map[e]) \/ RowAt(lg, map[e]).title = RowAt(old, map[e]).title
    BY <1>6, <1>7, <2>2 DEF PhaseOf
  <2>4. Left(Q, 3, map[e]) \/ RowAt(lg, map[e]).parent = RowAt(old, map[e]).parent
    BY <1>6, <1>7, <2>2 DEF PhaseOf
  <2> QED
    BY <2>1, <2>3, <2>4
<1>12. ASSUME NEW e \in There(t)
       PROVE  Left(Q, 4, map[e]) \/ ~RowAt(lg, map[e]).deleted
  <2>1. RowAt(old, map[e]) # None /\ ~RowAt(old, map[e]).deleted
    BY <1>9 DEF Live
  <2>2. (\E x \in base + 1 .. L : lg[x].node = map[e] /\ lg[x].op = "node.delete")
          \/ RowAt(lg, map[e]).deleted = RowAt(old, map[e]).deleted
    BY <1>6, <2>1
  <2> QED
    BY <1>7, <2>1, <2>2 DEF PhaseOf
<1>13. ASSUME NEW x \in base + 1 .. L, RowAt(old, lg[x].node) # None
       PROVE  lg[x].node \in Shown(old)
  <2>1. PICK q \in Q : q.clock = x /\ q.node = lg[x].node /\ q.phase = PhaseOf(lg[x].op)
    BY <1>2
  <2>2. /\ q.phase \in 1 .. 4 /\ (q.phase = 1 <=> lg[x].op = "node.create")
        /\ q.ext # None => q.ext \in Ext /\ map[q.ext] = q.node
        /\ q.node \in Node
    BY <1>2, <2>1, PlanOpFacts
  <2>3. q.phase > 1
    BY <1>6, <1>13, <2>2
  <2>4. q.ext # None /\ ~(t[q.ext] = None /\ org[q.ext] # None)
    BY <1>8, <2>3 DEF Doomed
  <2>5. map[q.ext] = q.node /\ q.node # None /\ q.ext \in Ext
    BY <1>5, <2>2, <2>4
  <2>6. t[q.ext] # None
    BY <2>4, <2>5
  <2> QED
    BY <1>9, <2>1, <2>5, <2>6 DEF There
<1>14. ASSUME NEW n \in Shown(lg)
       PROVE  Left(Q, 1, n) \/ \E e \in There(t) : map[e] = n
  <2>1. CASE RowAt(old, n) = None
    <3>1. RowAt(lg, n) # None
      BY <1>5 DEF Visible, Live
    <3>2. PICK x \in base + 1 .. L : lg[x].op = "node.create" /\ lg[x].node = n
      BY <1>1, <2>1, <3>1, RowCreated DEF old
    <3> QED
      BY <1>7, <3>2 DEF PhaseOf
  <2>2. CASE RowAt(old, n) # None
    <3>1. n \in Shown(old)
      BY <1>13, <2>2, NoneReturns DEF old
    <3> QED
      BY <1>3, <1>4, <3>1 DEF Agrees
  <2> QED
    BY <2>1, <2>2
<1>15. ASSUME NEW e \in Ext PROVE ~Left(Q, 1, map[e])
  <2> SUFFICES ASSUME NEW q \in Q, q.phase = 1, q.node = map[e] PROVE FALSE
    BY DEF Left
  <2>1. q.node \in Node /\ q.clock \in base + 1 .. L /\ lg[q.clock].node = q.node /\ lg[q.clock].op = "node.create"
    BY <1>2, PlanOpFacts
  <2>2. RowAt(old, q.node) # None
    BY <1>3, <1>5, <2>1 DEF Named
  <2> QED
    BY <1>6, <2>1, <2>2
<1> QED
  BY <1>3, <1>4, <1>10, <1>11, <1>12, <1>14, <1>15 DEF Halfway

-----------------------------------------------------------------------------
(* Uploads: what the library becomes when it has taken a client's changes. *)

(* The revision that the server makes of a mutation. *)
ServerOp(op) == CASE op = "create" -> "node.create" [] op = "update" -> "node.update"
                  [] op = "move" -> "node.move" [] OTHER -> "node.delete"
Entry(r, m) ==
  /\ r.op = ServerOp(m.op)
  /\ m.op # "create" => r.node = m.node
  /\ m.op \in {"create", "move"} => r.row.parent = ParentOf(m)
  /\ m.op \in {"create", "update"} => r.row.title = m.title

(* A mutation that is applied is one more revision, allowed by its          *)
(* operation.                                                               *)
LEMMA AfterOneFollows ==
  ASSUME bound \in MapType, NEW lg, Grown(lg), NEW m \in Mutation, AfterOne(lg, m) # <<>>
  PROVE  \E r \in Revision : AfterOne(lg, m) = Append(lg, r) /\ Follows(lg, r) /\ Entry(r, m)
<1> DEFINE op == ServerOp(m.op)
           n == IF m.op = "create" THEN CHOOSE x \in Unused(lg) : TRUE ELSE m.node
           p == IF m.op \in {"create", "move"} THEN ParentOf(m) ELSE None
<1>1. m.op \in {"create", "update", "move", "delete"}
  BY DEF Mutation
<1>2. /\ op \in NodeOp \ {"node.restore"}
      /\ op = "node.create" <=> m.op = "create"
      /\ op = "node.update" <=> m.op = "update"
      /\ op = "node.move" <=> m.op = "move"
  BY <1>1 DEF NodeOp, ServerOp
<1>3. AfterOne(lg, m) = Written(lg, op, n, p, m.title) /\ (m.op = "create" => Unused(lg) # {})
  BY DEF AfterOne, ServerOp
<1>4. n \in Node
  BY <1>1, <1>3 DEF Unused, Mutation
<1>5. op \in {"node.create", "node.move"} => p \in Node \cup {None}
  BY <1>2, ParentOfType
<1>6. op \in {"node.create", "node.update"} => m.title \in Title
  BY <1>2 DEF Mutation
<1>7. (m.op # "create" => n = m.node) /\ (m.op \in {"create", "move"} => p = ParentOf(m))
  OBVIOUS
<1> HIDE DEF op, n, p
<1>8. PICK r \in Revision :
           /\ Written(lg, op, n, p, m.title) = Append(lg, r)
           /\ r.op = op /\ r.node = n /\ Follows(lg, r)
           /\ op \in {"node.create", "node.move"} => r.row.parent = p
           /\ op \in {"node.create", "node.update"} => r.row.title = m.title
  BY <1>2, <1>3, <1>4, <1>5, <1>6, WrittenFollows
<1>9. Entry(r, m)
  BY <1>2, <1>7, <1>8 DEF Entry, op
<1> QED
  BY <1>3, <1>8, <1>9

(* The log after an apply: one entry for each mutation, in their order.     *)
LEMMA Replayed ==
  ASSUME bound \in MapType, Grown(log), NEW list \in Seq(Mutation), AfterApply(list) # <<>>
  PROVE  /\ Grown(AfterApply(list)) /\ Len(AfterApply(list)) = Len(log) + Len(list)
         /\ \A i \in 1 .. Len(log) : AfterApply(list)[i] = log[i]
         /\ \A j \in 1 .. Len(list) : Entry(AfterApply(list)[Len(log) + j], list[j])
<1>1. PICK after : /\ AfterApply(list) = after[Len(list)] /\ after[0] = log
                   /\ \A i \in 1 .. Len(list) : after[i] = AfterOne(after[i - 1], list[i])
  BY AfterApplyLoop
<1> DEFINE Fine(s, i) == /\ Grown(s) /\ Len(s) = Len(log) + i
                         /\ \A c \in 1 .. Len(log) : s[c] = log[c]
                         /\ \A j \in 1 .. i : Entry(s[Len(log) + j], list[j])
           Good(i) == after[i] = <<>> \/ Fine(after[i], i)
           S == {i \in 0 .. Len(list) : Good(i)}
<1>2. Len(list) \in Nat /\ Len(log) \in Nat /\ 0 \in Nat
  BY DEF Grown
<1>3. 0 \in S
  BY <1>1, <1>2
<1>4. ASSUME NEW i \in 0 .. Len(list), i < Len(list), Good(i)
      PROVE  Good(i + 1)
  <2>1. after[i + 1] = AfterOne(after[i], list[i + 1]) /\ list[i + 1] \in Mutation
    <3>1. i + 1 \in 1 .. Len(list) /\ (i + 1) - 1 = i
      BY <1>2, <1>4
    <3> QED
      BY <1>1, <3>1
  <2>2. CASE after[i] = <<>>
    BY <2>1, <2>2 DEF AfterOne
  <2>3. CASE after[i] # <<>> /\ after[i + 1] # <<>>
    <3> DEFINE s == after[i]
    <3>1. Fine(s, i)
      BY <1>4, <2>3
    <3>2. PICK r \in Revision : after[i + 1] = Append(s, r) /\ Follows(s, r) /\ Entry(r, list[i + 1])
      BY <2>1, <2>3, <3>1, AfterOneFollows
    <3>3. Grown(after[i + 1])
      BY <3>1, <3>2, GrownAppend
    <3> HIDE DEF s
    <3>4. s \in Seq(Revision) /\ Len(s) = Len(log) + i
      BY <3>1 DEF Grown
    <3>5. /\ Len(after[i + 1]) = Len(log) + (i + 1) /\ after[i + 1][Len(log) + (i + 1)] = r
          /\ \A c \in 1 .. Len(log) + i : after[i + 1][c] = s[c]
      BY <1>2, <3>2, <3>4
    <3>6. \A c \in 1 .. Len(log) : after[i + 1][c] = log[c]
      BY <1>2, <3>1, <3>5
    <3>7. ASSUME NEW j \in 1 .. i + 1
          PROVE  Entry(after[i + 1][Len(log) + j], list[j])
      <4>1. CASE j = i + 1
        BY <3>2, <3>5, <4>1
      <4>2. CASE j # i + 1
        <5>1. j \in 1 .. i /\ Len(log) + j \in 1 .. Len(log) + i
          BY <1>2, <4>2
        <5> QED
          BY <3>1, <3>5, <5>1
      <4> QED
        BY <4>1, <4>2
    <3> QED
      BY <3>3, <3>5, <3>6, <3>7
  <2> QED
    BY <2>2, <2>3
<1> HIDE DEF Good
<1>5. Len(list) \in S
  <2>1. \A i \in 0 .. Len(list) : i < Len(list) /\ i \in S => i + 1 \in S
    BY <1>2, <1>4
  <2> HIDE DEF S
  <2>2. \A i \in 0 .. Len(list) : i \in S
    BY <1>2, <1>3, <2>1, Onward
  <2> QED
    BY <1>2, <2>2
<1>6. Fine(after[Len(list)], Len(list))
  BY <1>1, <1>5 DEF Good
<1> QED
  BY <1>1, <1>6

(* What a mutation says of the bookmark it is about. *)
Says(m, t, map, old) ==
  /\ m.op \in {"create", "update", "move", "delete"}
  /\ m.op # "create" => m.node = map[m.ext] /\ map[m.ext] # None /\ old[m.ext] # None
  /\ m.op = "create" => map[m.ext] = None
  /\ m.op # "delete" => m.ext \in There(t) \ {Bar}
  /\ m.op \in {"create", "update"} => m.title = t[m.ext].title
  /\ m.op \in {"create", "move"} => /\ m.parent = map[t[m.ext].parent]
                                    /\ m.parent = None => m.parentExt = t[m.ext].parent
  /\ m.op = "update" => t[m.ext].title # old[m.ext].title
  /\ m.op = "move" => t[m.ext].parent # old[m.ext].parent
  /\ m.op = "delete" => m.ext \in There(old) \ There(t)

Among(S, op, e) == \E m \in S : m.op = op /\ m.ext = e
Lists(list, op, e) == \E i \in 1 .. Len(list) : list[i].op = op /\ list[i].ext = e

(* What a create, an update and a move are filled with. *)
LEMMA PlacedFields ==
  ASSUME NEW t, NEW map, NEW op, NEW e, t[e] # None
  PROVE  /\ Fill(t, map, op, e).op = op /\ Fill(t, map, op, e).ext = e
         /\ Fill(t, map, op, e).node = map[e] /\ Fill(t, map, op, e).title = t[e].title
         /\ Placed(t, map, op, e).op = op /\ Placed(t, map, op, e).ext = e
         /\ Placed(t, map, op, e).node = map[e] /\ Placed(t, map, op, e).title = t[e].title
         /\ Placed(t, map, op, e).parent = map[t[e].parent]
         /\ map[t[e].parent] = None => Placed(t, map, op, e).parentExt = t[e].parent
<1> DEFINE f == Fill(t, map, op, e)
           p == map[t[e].parent]
           x == IF p = None THEN t[e].parent ELSE None
           node == map[e]
           title == t[e].title
<1>1. f = [op |-> op, ext |-> e, node |-> node, parent |-> None, parentExt |-> None, title |-> title]
  BY DEF Fill
<1>2. Placed(t, map, op, e) = [f EXCEPT !.parent = p, !.parentExt = x]
  BY DEF Placed
<1>3. p = None => x = t[e].parent
  OBVIOUS
<1> HIDE DEF f, p, x, title, node
<1>4. Placed(t, map, op, e) =
        [op |-> op, ext |-> e, node |-> node, parent |-> p, parentExt |-> x, title |-> title]
  BY <1>1, <1>2
<1>5. f.op = op /\ f.ext = e /\ f.node = node /\ f.title = title
  BY <1>1
<1>6. /\ Placed(t, map, op, e).op = op /\ Placed(t, map, op, e).ext = e
      /\ Placed(t, map, op, e).node = node /\ Placed(t, map, op, e).title = title
      /\ Placed(t, map, op, e).parent = p /\ Placed(t, map, op, e).parentExt = x
  BY <1>4
<1> QED
  BY <1>3, <1>5, <1>6 DEF f, p, node, title

(* What a delete is filled with. *)
LEMMA DeleteFields ==
  ASSUME NEW t, NEW map, NEW e
  PROVE  /\ Fill(t, map, "delete", e).op = "delete" /\ Fill(t, map, "delete", e).ext = e
         /\ Fill(t, map, "delete", e).node = map[e]
<1> DEFINE title == IF t[e] = None THEN None ELSE t[e].title
           node == map[e]
<1>1. Fill(t, map, "delete", e) =
        [op |-> "delete", ext |-> e, node |-> node, parent |-> None, parentExt |-> None, title |-> title]
  BY DEF Fill
<1> HIDE DEF title
<1> QED
  BY <1>1

(* The changes of a tree say all that differs from the one last known. *)
LEMMA ChangesSay ==
  ASSUME NEW t, NEW map, NEW old
  PROVE  /\ \A m \in Changes(t, map, old) : Says(m, t, map, old)
         /\ \A m, l \in Changes(t, map, old) : m.op = "create" /\ l.op = "create" /\ m.ext = l.ext => m = l
         /\ \A e \in There(t) \ {Bar} : map[e] = None =>
              Among(Changes(t, map, old), "create", e)
         /\ \A e \in There(t) \ {Bar} : map[e] # None /\ old[e] # None /\ t[e].title # old[e].title =>
              Among(Changes(t, map, old), "update", e)
         /\ \A e \in There(t) \ {Bar} : map[e] # None /\ old[e] # None /\ t[e].parent # old[e].parent =>
              Among(Changes(t, map, old), "move", e)
         /\ \A e \in There(old) \ There(t) : map[e] # None =>
              Among(Changes(t, map, old), "delete", e)
<1> DEFINE now  == There(t) \ {Bar}
           both == {e \in now : map[e] # None /\ old[e] # None}
           all == Changes(t, map, old)
           C == {Placed(t, map, "create", e) : e \in {d \in now : map[d] = None}}
           U == {Fill(t, map, "update", e) : e \in {d \in both : t[d].title # old[d].title}}
           M == {Placed(t, map, "move", e) : e \in {d \in both : t[d].parent # old[d].parent}}
           D == {Fill(t, map, "delete", e) : e \in {d \in There(old) \ There(t) : map[d] # None}}
<1>1. all = C \cup U \cup M \cup D
  BY DEF Changes
<1>2. \A e \in now : t[e] # None
  BY DEF There
<1>3. \A m \in C : /\ m.op = "create" /\ m.ext \in now /\ map[m.ext] = None
                   /\ m = Placed(t, map, "create", m.ext)
                   /\ m.title = t[m.ext].title /\ m.parent = map[t[m.ext].parent]
                   /\ m.parent = None => m.parentExt = t[m.ext].parent
  <2> SUFFICES ASSUME NEW e \in now, map[e] = None, NEW m, m = Placed(t, map, "create", e)
               PROVE  /\ m.op = "create" /\ m.ext = e /\ m.title = t[e].title
                      /\ m.parent = map[t[e].parent] /\ (m.parent = None => m.parentExt = t[e].parent)
    OBVIOUS
  <2> QED
    BY <1>2, PlacedFields
<1>4. \A m \in U : /\ m.op = "update" /\ m.ext \in both /\ m.node = map[m.ext] /\ m.title = t[m.ext].title
                   /\ t[m.ext].title # old[m.ext].title
  <2> SUFFICES ASSUME NEW e \in both, t[e].title # old[e].title, NEW m, m = Fill(t, map, "update", e)
               PROVE  m.op = "update" /\ m.ext = e /\ m.node = map[e] /\ m.title = t[e].title
    OBVIOUS
  <2> QED
    BY <1>2, PlacedFields
<1>5. \A m \in M : /\ m.op = "move" /\ m.ext \in both /\ m.node = map[m.ext]
                   /\ t[m.ext].parent # old[m.ext].parent /\ m.parent = map[t[m.ext].parent]
                   /\ m.parent = None => m.parentExt = t[m.ext].parent
  <2> SUFFICES ASSUME NEW e \in both, t[e].parent # old[e].parent, NEW m, m = Placed(t, map, "move", e)
               PROVE  /\ m.op = "move" /\ m.ext = e /\ m.node = map[e]
                      /\ m.parent = map[t[e].parent] /\ (m.parent = None => m.parentExt = t[e].parent)
    OBVIOUS
  <2> QED
    BY <1>2, PlacedFields
<1>6. \A m \in D : /\ m.op = "delete" /\ m.ext \in There(old) \ There(t) /\ m.node = map[m.ext] /\ map[m.ext] # None
  <2> SUFFICES ASSUME NEW e \in There(old) \ There(t), map[e] # None, NEW m, m = Fill(t, map, "delete", e)
               PROVE  m.op = "delete" /\ m.ext = e /\ m.node = map[e]
    OBVIOUS
  <2> QED
    BY DeleteFields
<1>7. \A e \in now : map[e] = None => \E m \in C : m.op = "create" /\ m.ext = e
  <2> SUFFICES ASSUME NEW e \in now, map[e] = None PROVE \E m \in C : m.op = "create" /\ m.ext = e
    OBVIOUS
  <2>1. Placed(t, map, "create", e) \in C
    OBVIOUS
  <2>2. Placed(t, map, "create", e).op = "create" /\ Placed(t, map, "create", e).ext = e
    BY <1>2, PlacedFields
  <2> HIDE DEF C
  <2> QED
    BY <2>1, <2>2
<1>8. \A e \in both : t[e].title # old[e].title => \E m \in U : m.op = "update" /\ m.ext = e
  <2> SUFFICES ASSUME NEW e \in both, t[e].title # old[e].title PROVE \E m \in U : m.op = "update" /\ m.ext = e
    OBVIOUS
  <2>1. Fill(t, map, "update", e) \in U
    OBVIOUS
  <2>2. Fill(t, map, "update", e).op = "update" /\ Fill(t, map, "update", e).ext = e
    BY <1>2, PlacedFields
  <2> HIDE DEF U
  <2> QED
    BY <2>1, <2>2
<1>9. \A e \in both : t[e].parent # old[e].parent => \E m \in M : m.op = "move" /\ m.ext = e
  <2> SUFFICES ASSUME NEW e \in both, t[e].parent # old[e].parent PROVE \E m \in M : m.op = "move" /\ m.ext = e
    OBVIOUS
  <2>1. Placed(t, map, "move", e) \in M
    OBVIOUS
  <2>2. Placed(t, map, "move", e).op = "move" /\ Placed(t, map, "move", e).ext = e
    BY <1>2, PlacedFields
  <2> HIDE DEF M
  <2> QED
    BY <2>1, <2>2
<1>10. \A e \in There(old) \ There(t) : map[e] # None => \E m \in D : m.op = "delete" /\ m.ext = e
  <2> SUFFICES ASSUME NEW e \in There(old) \ There(t), map[e] # None
               PROVE  \E m \in D : m.op = "delete" /\ m.ext = e
    OBVIOUS
  <2>1. Fill(t, map, "delete", e) \in D
    OBVIOUS
  <2>2. Fill(t, map, "delete", e).op = "delete" /\ Fill(t, map, "delete", e).ext = e
    BY DeleteFields
  <2> HIDE DEF D
  <2> QED
    BY <2>1, <2>2
<1> HIDE DEF C, U, M, D, all
<1>11. \A m \in all : Says(m, t, map, old)
  <2>1. \A m \in C : Says(m, t, map, old)
    BY <1>3 DEF Says
  <2>2. \A m \in U : Says(m, t, map, old)
    BY <1>4 DEF Says
  <2>3. \A m \in M : Says(m, t, map, old)
    BY <1>5 DEF Says
  <2>4. \A m \in D : Says(m, t, map, old)
    BY <1>6 DEF Says, There
  <2> QED
    BY <1>1, <2>1, <2>2, <2>3, <2>4
<1>12. \A m \in all : m.op = "create" => m = Placed(t, map, "create", m.ext)
  BY <1>1, <1>3, <1>4, <1>5, <1>6
<1>13. \A e \in now : map[e] # None /\ old[e] # None => e \in both
  OBVIOUS
<1>14. \A m, l \in all : m.op = "create" /\ l.op = "create" /\ m.ext = l.ext => m = l
  BY <1>12
<1> HIDE DEF now, both
<1>15. \A e \in now : map[e] = None => Among(all, "create", e)
  BY <1>1, <1>7 DEF Among
<1>16. \A e \in now : map[e] # None /\ old[e] # None /\ t[e].title # old[e].title => Among(all, "update", e)
  BY <1>1, <1>8, <1>13 DEF Among
<1>17. \A e \in now : map[e] # None /\ old[e] # None /\ t[e].parent # old[e].parent => Among(all, "move", e)
  BY <1>1, <1>9, <1>13 DEF Among
<1>18. \A e \in There(old) \ There(t) : map[e] # None => Among(all, "delete", e)
  BY <1>1, <1>10 DEF Among
<1> USE DEF now
<1> QED
  BY <1>11, <1>14, <1>15, <1>16, <1>17, <1>18 DEF all

(* The same of a list of mutations. *)
Told(list, t, map, old) ==
  /\ \A i \in 1 .. Len(list) : Says(list[i], t, map, old)
  /\ \A i, j \in 1 .. Len(list) :
       list[i].op = "create" /\ list[j].op = "create" /\ list[i].ext = list[j].ext => i = j
  /\ \A e \in There(t) \ {Bar} : map[e] = None => Lists(list, "create", e)
  /\ \A e \in There(t) \ {Bar} : map[e] # None /\ old[e] # None /\ t[e].title # old[e].title =>
       Lists(list, "update", e)
  /\ \A e \in There(t) \ {Bar} : map[e] # None /\ old[e] # None /\ t[e].parent # old[e].parent =>
       Lists(list, "move", e)
  /\ \A e \in There(old) \ There(t) : map[e] # None => Lists(list, "delete", e)

(* The mutations of a preview are the changes, each once, creates of        *)
(* parents first.                                                           *)
LEMMA ListSays ==
  ASSUME NEW t, Nested(t), NEW state \in StateType, NEW list \in Mutations(t, state),
         NEW map, map = state.map, NEW old, old = state.known
  PROVE  /\ list \in Seq(Mutation) /\ Told(list, t, map, old)
         /\ list = <<>> => Changes(t, map, old) = {}
<1> DEFINE all == Changes(t, map, old)
<1>1. list \in Seq(Mutation) /\ ToSet(list) = all /\ DOMAIN list = 1 .. Len(list) /\ Len(list) \in Nat
  BY MutationsType DEF Nested
<1>2. list \in [1 .. Cardinality(all) -> all] /\ IsFiniteSet(all) /\ Cardinality(all) \in Nat
  BY ChangesType, FS_CardinalityType DEF Mutations, Nested, StateType
<1> HIDE DEF all
<1>3. list \in Injection(1 .. Cardinality(all), all)
  <2>1. \A m \in all : \E i \in 1 .. Cardinality(all) : list[i] = m
    BY <1>1, <1>2 DEF ToSet
  <2>2. list \in Surjection(1 .. Cardinality(all), all)
    BY <1>2, <2>1 DEF Surjection
  <2>3. IsFiniteSet(1 .. Cardinality(all)) /\ Cardinality(1 .. Cardinality(all)) = Cardinality(all)
    BY <1>2, FS_Interval
  <2> QED
    BY <2>2, <2>3, FS_Surjection
<1>4. \A i, j \in 1 .. Len(list) : list[i] = list[j] => i = j
  <2>1. DOMAIN list = 1 .. Cardinality(all)
    BY <1>2
  <2> QED
    BY <1>1, <1>3, <2>1 DEF Injection, IsInjective
<1>5. \A i \in 1 .. Len(list) : list[i] \in all
  BY <1>1 DEF ToSet
<1>6. \A m \in all : \E i \in 1 .. Len(list) : list[i] = m
  BY <1>1 DEF ToSet
<1>7. list = <<>> => all = {}
  BY <1>6
<1>8. /\ \A m \in all : Says(m, t, map, old)
      /\ \A m, l \in all : m.op = "create" /\ l.op = "create" /\ m.ext = l.ext => m = l
      /\ \A e \in There(t) \ {Bar} : map[e] = None =>
           Among(all, "create", e)
      /\ \A e \in There(t) \ {Bar} : map[e] # None /\ old[e] # None /\ t[e].title # old[e].title =>
           Among(all, "update", e)
      /\ \A e \in There(t) \ {Bar} : map[e] # None /\ old[e] # None /\ t[e].parent # old[e].parent =>
           Among(all, "move", e)
      /\ \A e \in There(old) \ There(t) : map[e] # None =>
           Among(all, "delete", e)
  BY ChangesSay DEF all
<1>9. \A op, e : Among(all, op, e) => Lists(list, op, e)
  BY <1>6 DEF Among, Lists
<1>10. \A i, j \in 1 .. Len(list) :
              list[i].op = "create" /\ list[j].op = "create" /\ list[i].ext = list[j].ext => i = j
  BY <1>4, <1>5, <1>8
<1>11. \A e \in There(t) \ {Bar} : map[e] = None =>
              Lists(list, "create", e)
  BY <1>8, <1>9
<1>12. \A e \in There(t) \ {Bar} : map[e] # None /\ old[e] # None /\ t[e].title # old[e].title =>
              Lists(list, "update", e)
  BY <1>8, <1>9
<1>13. \A e \in There(t) \ {Bar} : map[e] # None /\ old[e] # None /\ t[e].parent # old[e].parent =>
              Lists(list, "move", e)
  BY <1>8, <1>9
<1>14. \A e \in There(old) \ There(t) : map[e] # None =>
              Lists(list, "delete", e)
  BY <1>8, <1>9
<1>15. \A i \in 1 .. Len(list) : Says(list[i], t, map, old)
  BY <1>5, <1>8
<1>16. list = <<>> => Changes(t, map, old) = {}
  BY <1>7 DEF all
<1> QED
  BY <1>1, <1>10, <1>11, <1>12, <1>13, <1>14, <1>15, <1>16 DEF Told

(* A log that an apply continued, an entry for each mutation of the list;   *)
(* the map that the client merges with what it created.                    *)
Continues(after, lg, list) ==
  /\ Grown(after) /\ Len(after) = Len(lg) + Len(list)
  /\ \A i \in 1 .. Len(lg) : after[i] = lg[i]
  /\ \A j \in 1 .. Len(list) :
       LET r == after[Len(lg) + j] m == list[j] IN
       /\ r.op = ServerOp(m.op)
       /\ m.op # "create" => r.node = m.node
       /\ m.op \in {"create", "move"} => r.row.parent = m.parent
       /\ m.op \in {"create", "update"} => r.row.title = m.title
Merged(merged, map, after, lg, list) ==
  /\ \A i \in 1 .. Len(list) : list[i].op = "create" => merged[list[i].ext] = after[Len(lg) + i].node
  /\ \A e \in Ext : ~Lists(list, "create", e) => merged[e] = map[e]

(* Where the entries of an apply come from. *)
LEMMA EntryFacts ==
  ASSUME NEW lg, Grown(lg), NEW list \in Seq(Mutation), NEW after, Continues(after, lg, list),
         NEW map \in MapType, Named(map, lg), NEW t, NEW known, Told(list, t, map, known)
  PROVE  /\ UpTo(after, Len(lg)) = lg /\ Len(lg) \in 1 .. Len(after)
         /\ \A x \in Len(lg) + 1 .. Len(after) : x - Len(lg) \in 1 .. Len(list) /\ x \in 1 .. Len(after)
         /\ \A i \in 1 .. Len(list) : Len(lg) + i \in Len(lg) + 1 .. Len(after) /\ Len(lg) + i \in 1 .. Len(after)
         /\ \A i \in 1 .. Len(list) : list[i].ext \in Ext
         /\ \A i \in 1 .. Len(list) : list[i].op = "create" =>
              /\ after[Len(lg) + i].node \in Node /\ RowAt(lg, after[Len(lg) + i].node) = None
              /\ ~after[Len(lg) + i].row.deleted
              /\ \A y \in Len(lg) + i + 1 .. Len(after) : after[y].node # after[Len(lg) + i].node
         /\ \A i \in 1 .. Len(list) : list[i].op # "create" =>
              /\ after[Len(lg) + i].node = map[list[i].ext] /\ map[list[i].ext] # None
              /\ known[list[i].ext] # None
         /\ \A i \in 1 .. Len(list) :
              /\ after[Len(lg) + i].op = "node.create" <=> list[i].op = "create"
              /\ after[Len(lg) + i].op = "node.update" <=> list[i].op = "update"
              /\ after[Len(lg) + i].op = "node.move" <=> list[i].op = "move"
              /\ after[Len(lg) + i].op = "node.delete" <=> list[i].op = "delete"
<1> DEFINE B == Len(lg)
<1>1. /\ Grown(after) /\ after \in Seq(Revision) /\ Len(after) = B + Len(list)
      /\ Grown(lg) /\ lg \in Seq(Revision) /\ B \in Nat /\ B >= 1 /\ Len(list) \in Nat
      /\ \A i \in 1 .. B : after[i] = lg[i]
  BY DEF Continues, Grown
<1>2. UpTo(after, B) = lg
  <2>1. B \in 0 .. B /\ Len(after) >= B
    BY <1>1
  <2>2. UpTo(lg, B) = lg
    BY <1>1, <2>1, UpToFacts
  <2>3. \A s \in Seq(Revision) : Len(s) >= B /\ (\A i \in 1 .. B : s[i] = lg[i]) => UpTo(s, B) = UpTo(lg, B)
    BY <1>1, <2>1, UpToFacts
  <2> QED
    BY <1>1, <2>1, <2>2, <2>3
<1>3. /\ B \in 1 .. Len(after)
      /\ \A x \in B + 1 .. Len(after) : x - B \in 1 .. Len(list) /\ x \in 1 .. Len(after)
      /\ \A i \in 1 .. Len(list) : B + i \in B + 1 .. Len(after) /\ B + i \in 1 .. Len(after)
  BY <1>1
<1>4. /\ \A i \in 1 .. Len(list) : list[i] \in Mutation /\ list[i].ext \in Ext
      /\ \A i \in 1 .. Len(list) : Says(list[i], t, map, known)
  BY <1>1 DEF Told, Mutation
<1>5. \A i \in 1 .. Len(list) :
        /\ after[B + i].op = ServerOp(list[i].op)
        /\ list[i].op # "create" => after[B + i].node = list[i].node
  BY DEF Continues
<1> HIDE DEF B
<1>6. \A i \in 1 .. Len(list) :
              /\ after[B + i].op = "node.create" <=> list[i].op = "create"
              /\ after[B + i].op = "node.update" <=> list[i].op = "update"
              /\ after[B + i].op = "node.move" <=> list[i].op = "move"
              /\ after[B + i].op = "node.delete" <=> list[i].op = "delete"
  BY <1>4, <1>5 DEF ServerOp, Says
<1>7. \A i \in 1 .. Len(list) : list[i].op # "create" =>
              /\ after[B + i].node = map[list[i].ext] /\ map[list[i].ext] # None
              /\ known[list[i].ext] # None
  BY <1>4, <1>5 DEF Says
<1>8. ASSUME NEW i \in 1 .. Len(list), list[i].op = "create"
      PROVE  /\ after[B + i].node \in Node /\ RowAt(lg, after[B + i].node) = None
             /\ ~after[B + i].row.deleted
             /\ \A y \in B + i + 1 .. Len(after) : after[y].node # after[B + i].node
  <2> DEFINE n == after[B + i].node
  <2>1. B + i \in 2 .. Len(after) /\ B + i \in 1 .. Len(after) /\ B + i - 1 \in B .. Len(after) /\ B + i - 1 \in 1 .. Len(after)
    BY <1>1, <1>3
  <2>2. Follows(UpTo(after, B + i - 1), after[B + i])
    BY <1>1, <2>1 DEF Grown
  <2>3. RowAt(UpTo(after, B + i - 1), n) = None /\ ~after[B + i].row.deleted
    BY <1>6, <1>8, <2>2 DEF Follows
  <2>4. RowAt(lg, n) = None
    <3>1. RowAt(UpTo(after, B), n) = None
      <4> HIDE DEF n
      <4>1. SUFFICES ASSUME RowAt(UpTo(after, B), n) # None PROVE FALSE
        OBVIOUS
      <4>2. RowAt(UpTo(after, B + i - 1), n) # None
        BY <1>1, <1>3, <2>1, <4>1, RowPersists
      <4> QED
        BY <2>3, <4>2
    <3> QED
      BY <1>2, <3>1
  <2>5. after[B + i] \in Revision
    BY <1>1, <2>1
  <2>8. n \in Node
    BY <2>5 DEF Revision
  <2>6. \A y \in B + i + 1 .. Len(after) : after[y].node = n => after[y].op # "node.create"
    BY <1>1, <2>1, RowSince
  <2>7. ASSUME NEW y \in B + i + 1 .. Len(after), after[y].node = n PROVE FALSE
    <3>1. y - B \in 1 .. Len(list) /\ B + (y - B) = y
      BY <1>1, <2>1
    <3>2. list[y - B].op # "create"
      BY <1>6, <2>6, <2>7, <3>1
    <3>3. n = map[list[y - B].ext] /\ map[list[y - B].ext] # None /\ list[y - B].ext \in Ext
      BY <1>4, <1>7, <2>7, <3>1, <3>2
    <3> QED
      BY <2>4, <3>3 DEF Named
  <2> QED
    BY <2>3, <2>4, <2>7, <2>8
<1> QED
  BY <1>2, <1>3, <1>4, <1>6, <1>7, <1>8 DEF B

(* A client that uploads its changes: the library has its tree. *)
LEMMA HalfwayApplied ==
  ASSUME IsFiniteSet(Node), NEW lg, Grown(lg), NEW list \in Seq(Mutation),
         NEW after, Continues(after, lg, list),
         NEW map \in MapType, NEW known \in TreeType, Matched(known, map, lg),
         NEW t, Nested(t), Seen(t, map, known), Told(list, t, map, known),
         \A i \in 1 .. Len(list) : list[i].op \in {"create", "move"} => list[i].parent # None,
         NEW merged, Merged(merged, map, after, lg, list)
  PROVE  Halfway(t, merged, {}, after)
<1> DEFINE B == Len(lg)
<1>1. /\ UpTo(after, B) = lg /\ B \in 1 .. Len(after)
      /\ \A x \in B + 1 .. Len(after) : x - B \in 1 .. Len(list) /\ x \in 1 .. Len(after)
      /\ \A i \in 1 .. Len(list) : B + i \in B + 1 .. Len(after) /\ B + i \in 1 .. Len(after)
      /\ \A i \in 1 .. Len(list) : list[i].ext \in Ext
  BY EntryFacts DEF Matched
<1>2. \A i \in 1 .. Len(list) : list[i].op = "create" =>
              /\ after[B + i].node \in Node /\ RowAt(lg, after[B + i].node) = None
              /\ ~after[B + i].row.deleted
              /\ \A y \in B + i + 1 .. Len(after) : after[y].node # after[B + i].node
  BY EntryFacts DEF Matched
<1>3. \A i \in 1 .. Len(list) : list[i].op # "create" =>
              /\ after[B + i].node = map[list[i].ext] /\ map[list[i].ext] # None
              /\ known[list[i].ext] # None
  BY EntryFacts DEF Matched
<1>4. \A i \in 1 .. Len(list) :
              /\ after[B + i].op = "node.create" <=> list[i].op = "create"
              /\ after[B + i].op = "node.update" <=> list[i].op = "update"
              /\ after[B + i].op = "node.move" <=> list[i].op = "move"
              /\ after[B + i].op = "node.delete" <=> list[i].op = "delete"
  BY EntryFacts DEF Matched
<1>5. /\ Grown(after) /\ Len(after) = B + Len(list) /\ B \in Nat /\ Len(list) \in Nat
      /\ \A i \in 1 .. Len(list) :
           /\ list[i].op \in {"create", "move"} => after[B + i].row.parent = list[i].parent
           /\ list[i].op \in {"create", "update"} => after[B + i].row.title = list[i].title
  BY DEF Continues, Grown
<1>6. \A i \in 1 .. Len(list) : Says(list[i], t, map, known)
  BY DEF Told
<1>7. /\ OneToOne(map) /\ Named(map, lg)
      /\ {map[e] : e \in There(known)} = Shown(lg)
      /\ \A e \in There(known) \ {Bar} : /\ known[e].title = RowAt(lg, map[e]).title
                                         /\ map[known[e].parent] = RowAt(lg, map[e]).parent
  BY DEF Matched, Agrees
<1>8. /\ None \notin Node /\ There(t) \subseteq Ext /\ Bar \in There(t) /\ There(known) \subseteq Ext
      /\ \A e \in There(t) \ {Bar} : t[e].parent \in There(t)
      /\ \A e \in Ext : known[e] # None => e \in There(known)
      /\ \A e \in There(t) : map[e] # None => e \in There(known)
  BY ManualSyncAssumption, ExtFinite DEF Nested, There, Seen
<1> HIDE DEF B
<1>9. /\ \A i \in 1 .. Len(list) : list[i].op = "create" => merged[list[i].ext] = after[B + i].node
      /\ \A e \in Ext : map[e] # None => merged[e] = map[e]
      /\ \A e \in Ext : ~Lists(list, "create", e) => merged[e] = map[e]
      /\ \A e \in Ext : map[e] = None /\ merged[e] # None =>
           \E i \in 1 .. Len(list) : list[i].op = "create" /\ list[i].ext = e /\ merged[e] = after[B + i].node
  BY <1>6 DEF Merged, Lists, Says, B
<1>10. UpTo(after, Len(after)) = after /\ Len(after) \in B .. Len(after)
  <2>1. after \in Seq(Revision) /\ Len(after) \in 0 .. Len(after) /\ Len(after) \in B .. Len(after)
    BY <1>1, <1>5 DEF Grown
  <2>2. UpTo(after, Len(after)) = after
    BY <2>1, UpToFacts
  <2> QED
    BY <2>1, <2>2
<1>11. \A n : RowAt(lg, n) # None => RowAt(after, n) # None
  <2>1. UpTo(after, Len(after)) = after
    BY <1>10
  <2>2. ASSUME NEW n, RowAt(lg, n) # None PROVE RowAt(after, n) # None
    <3>1. Len(after) \in B .. Len(after)
      BY <1>1, <1>5
    <3>2. RowAt(UpTo(after, Len(after)), n) # None
      BY <1>1, <1>5, <2>2, <3>1, RowPersists
    <3> QED
      BY <2>1, <3>2
  <2> QED
    BY <2>2
<1>12. OneToOne(merged)
  <2>1. SUFFICES ASSUME NEW e \in Ext, NEW d \in Ext, merged[e] = merged[d], merged[e] # None PROVE e = d
    BY DEF OneToOne
  <2>2. CASE map[e] # None /\ map[d] # None
    BY <1>7, <1>9, <2>1, <2>2 DEF OneToOne
  <2>3. \A a, b \in Ext : map[a] = None /\ merged[a] # None /\ map[b] # None => merged[a] # merged[b]
    BY <1>2, <1>7, <1>9 DEF Named
  <2>4. CASE map[e] = None /\ map[d] = None
    <3>1. PICK i \in 1 .. Len(list) : list[i].op = "create" /\ list[i].ext = e /\ merged[e] = after[B + i].node
      BY <1>9, <2>1, <2>4
    <3>2. PICK j \in 1 .. Len(list) : list[j].op = "create" /\ list[j].ext = d /\ merged[d] = after[B + j].node
      BY <1>9, <2>1, <2>4
    <3>3. ~ i < j
      <4>1. i < j => B + j \in B + i + 1 .. Len(after)
        BY <1>1, <1>5
      <4> QED
        BY <1>2, <2>1, <3>1, <3>2, <4>1
    <3>4. ~ j < i
      <4>1. j < i => B + i \in B + j + 1 .. Len(after)
        BY <1>1, <1>5
      <4> QED
        BY <1>2, <2>1, <3>1, <3>2, <4>1
    <3>5. i = j
      BY <1>5, <3>3, <3>4
    <3> QED
      BY <3>1, <3>2, <3>5
  <2> QED
    BY <2>1, <2>2, <2>3, <2>4
<1>13. Named(merged, after)
  <2>1. merged[Bar] = Root
    BY <1>7, <1>8, <1>9, ManualSyncAssumption DEF Named
  <2>2. ASSUME NEW e \in Ext, merged[e] # None PROVE RowAt(after, merged[e]) # None
    <3>1. CASE map[e] # None
      BY <1>7, <1>9, <1>11, <3>1 DEF Named
    <3>2. CASE map[e] = None
      <4>1. PICK i \in 1 .. Len(list) : merged[e] = after[B + i].node
        BY <1>9, <2>2, <3>2
      <4> QED
        BY <1>1, <1>5, <4>1, RowSince
    <3> QED
      BY <3>1, <3>2
  <2> QED
    BY <2>1, <2>2 DEF Named
<1>14. \A e \in There(t) : map[e] = None =>
         \E i \in 1 .. Len(list) : list[i].op = "create" /\ list[i].ext = e /\ merged[e] = after[B + i].node
  <2>1. SUFFICES ASSUME NEW e \in There(t), map[e] = None
                 PROVE \E i \in 1 .. Len(list) : list[i].op = "create" /\ list[i].ext = e /\ merged[e] = after[B + i].node
    OBVIOUS
  <2>2. e # Bar
    BY <1>7, <2>1, ManualSyncAssumption DEF Named
  <2>3. Lists(list, "create", e)
    BY <2>1, <2>2 DEF Told
  <2> QED
    BY <1>9, <2>3 DEF Lists
<1>15. \A e \in There(t) : merged[e] # None
  BY <1>2, <1>8, <1>9, <1>14
(* A bookmark that was created: nothing was done to it since. *)
<1>16. ASSUME NEW e \in There(t) \ {Bar}, map[e] = None
       PROVE  /\ t[e].title = RowAt(after, merged[e]).title
              /\ merged[t[e].parent] = RowAt(after, merged[e]).parent
              /\ ~RowAt(after, merged[e]).deleted
  <2>1. PICK i \in 1 .. Len(list) : list[i].op = "create" /\ list[i].ext = e /\ merged[e] = after[B + i].node
    BY <1>14, <1>16
  <2>2. B + i \in 1 .. Len(after)
    BY <1>1
  <2>3. RowAt(after, merged[e]) = after[B + i].row
    <3>1. after \in Seq(Revision)
      BY <1>5 DEF Grown
    <3>2. after[B + i].node = merged[e] /\ \A y \in B + i + 1 .. Len(after) : after[y].node # merged[e]
      BY <1>2, <2>1
    <3> QED
      BY <2>2, <3>1, <3>2, RowIsLast
  <2>4. after[B + i].row.title = t[e].title /\ ~after[B + i].row.deleted
    BY <1>2, <1>5, <1>6, <2>1 DEF Says
  <2>5. after[B + i].row.parent = map[t[e].parent] /\ map[t[e].parent] # None
    BY <1>5, <1>6, <2>1 DEF Says
  <2>6. merged[t[e].parent] = map[t[e].parent]
    BY <1>8, <1>9, <1>16, <2>5
  <2> QED
    BY <2>3, <2>4, <2>5, <2>6
(* A bookmark that was mapped: its title and parent are what they were, or   *)
(* what the browser has.                                                   *)
<1>17. ASSUME NEW e \in There(t) \ {Bar}, map[e] # None
       PROVE  t[e].title = RowAt(after, merged[e]).title
  <2>1. e \in Ext /\ merged[e] = map[e] /\ RowAt(lg, map[e]) # None /\ known[e] # None
        /\ known[e].title = RowAt(lg, map[e]).title
    BY <1>7, <1>8, <1>9, <1>17 DEF Named, There
  <2>2. \/ /\ RowAt(after, map[e]).title = RowAt(lg, map[e]).title
           /\ \A x \in B + 1 .. Len(after) : after[x].node = map[e] => after[x].op # "node.update"
        \/ \E x \in B + 1 .. Len(after) : /\ after[x].node = map[e] /\ after[x].op = "node.update"
                                           /\ RowAt(after, map[e]).title = after[x].row.title
    BY <1>1, <1>5, <2>1, RowHistory
  <2>3. CASE /\ RowAt(after, map[e]).title = RowAt(lg, map[e]).title
             /\ \A x \in B + 1 .. Len(after) : after[x].node = map[e] => after[x].op # "node.update"
    <3>1. SUFFICES ASSUME t[e].title # known[e].title PROVE FALSE
      BY <2>1, <2>3
    <3>2. Lists(list, "update", e)
      BY <1>17, <2>1, <3>1 DEF Told
    <3>3. PICK i \in 1 .. Len(list) : list[i].op = "update" /\ list[i].ext = e
      BY <3>2 DEF Lists
    <3> QED
      BY <1>1, <1>3, <1>4, <2>3, <3>3
  <2>4. CASE \E x \in B + 1 .. Len(after) : /\ after[x].node = map[e] /\ after[x].op = "node.update"
                                           /\ RowAt(after, map[e]).title = after[x].row.title
    <3>1. PICK x \in B + 1 .. Len(after) : /\ after[x].node = map[e] /\ after[x].op = "node.update"
                                          /\ RowAt(after, map[e]).title = after[x].row.title
      BY <2>4
    <3>2. PICK i \in 1 .. Len(list) : x = B + i
      <4>1. x - B \in 1 .. Len(list) /\ x = B + (x - B)
        BY <1>1, <1>5
      <4> QED
        BY <4>1
    <3>3. list[i].op = "update"
      BY <1>4, <3>1, <3>2
    <3>4. list[i].ext = e
      BY <1>1, <1>3, <1>7, <2>1, <3>1, <3>2, <3>3 DEF OneToOne
    <3> QED
      BY <1>5, <1>6, <2>1, <3>1, <3>2, <3>3, <3>4 DEF Says
  <2> QED
    BY <2>2, <2>3, <2>4
<1>18. ASSUME NEW e \in There(t) \ {Bar}, map[e] # None
       PROVE  merged[t[e].parent] = RowAt(after, merged[e]).parent
  <2>1. e \in Ext /\ merged[e] = map[e] /\ RowAt(lg, map[e]) # None /\ known[e] # None
        /\ map[known[e].parent] = RowAt(lg, map[e]).parent
    BY <1>7, <1>8, <1>9, <1>18 DEF Named, There
  <2>2. map[e] # Root /\ RowAt(lg, map[e]).parent # None
    <3>1. map[e] # Root
      BY <1>7, <1>8, <1>18, <2>1 DEF OneToOne, Named
    <3>2. RowAt(lg, map[e]).parent \in Node
      BY <2>1, <3>1, GrownRows
    <3> QED
      BY <1>8, <3>1, <3>2
  <2>3. \/ /\ RowAt(after, map[e]).parent = RowAt(lg, map[e]).parent
           /\ \A x \in B + 1 .. Len(after) : after[x].node = map[e] => after[x].op # "node.move"
        \/ \E x \in B + 1 .. Len(after) : /\ after[x].node = map[e] /\ after[x].op = "node.move"
                                           /\ RowAt(after, map[e]).parent = after[x].row.parent
    BY <1>1, <1>5, <2>1, RowHistory
  <2>4. CASE /\ RowAt(after, map[e]).parent = RowAt(lg, map[e]).parent
             /\ \A x \in B + 1 .. Len(after) : after[x].node = map[e] => after[x].op # "node.move"
    <3>1. t[e].parent = known[e].parent
      <4>1. SUFFICES ASSUME t[e].parent # known[e].parent PROVE FALSE
        OBVIOUS
      <4>2. Lists(list, "move", e)
        BY <1>18, <2>1, <4>1 DEF Told
      <4>3. PICK i \in 1 .. Len(list) : list[i].op = "move" /\ list[i].ext = e
        BY <4>2 DEF Lists
      <4> QED
        BY <1>1, <1>3, <1>4, <2>4, <4>3
    <3>2. t[e].parent \in Ext /\ map[t[e].parent] = RowAt(lg, map[e]).parent
      BY <1>8, <2>1, <3>1
    <3>3. merged[t[e].parent] = map[t[e].parent]
      BY <1>9, <2>2, <3>2
    <3> QED
      BY <2>1, <2>4, <3>2, <3>3
  <2>5. CASE \E x \in B + 1 .. Len(after) : /\ after[x].node = map[e] /\ after[x].op = "node.move"
                                           /\ RowAt(after, map[e]).parent = after[x].row.parent
    <3>1. PICK x \in B + 1 .. Len(after) : /\ after[x].node = map[e] /\ after[x].op = "node.move"
                                          /\ RowAt(after, map[e]).parent = after[x].row.parent
      BY <2>5
    <3>2. PICK i \in 1 .. Len(list) : x = B + i
      <4>1. x - B \in 1 .. Len(list) /\ x = B + (x - B)
        BY <1>1, <1>5
      <4> QED
        BY <4>1
    <3>3. list[i].op = "move"
      BY <1>4, <3>1, <3>2
    <3>4. list[i].ext = e
      BY <1>1, <1>3, <1>7, <2>1, <3>1, <3>2, <3>3 DEF OneToOne
    <3>5. after[x].row.parent = map[t[e].parent] /\ map[t[e].parent] # None
      BY <1>5, <1>6, <3>2, <3>3, <3>4 DEF Says
    <3>6. merged[t[e].parent] = map[t[e].parent]
      BY <1>8, <1>9, <1>18, <3>5
    <3> QED
      BY <2>1, <3>1, <3>5, <3>6
  <2> QED
    BY <2>3, <2>4, <2>5
<1>19. ASSUME NEW e \in There(t), map[e] # None
       PROVE  ~RowAt(after, merged[e]).deleted
  <2>1. e \in Ext /\ merged[e] = map[e] /\ e \in There(known) /\ map[e] \in Shown(lg)
    BY <1>7, <1>8, <1>9, <1>19
  <2>2. RowAt(lg, map[e]) # None /\ ~RowAt(lg, map[e]).deleted
    BY <2>1, ShownFacts DEF Visible, Live
  <2>3. \A x \in B + 1 .. Len(after) : after[x].node = map[e] => after[x].op # "node.delete"
    <3>1. SUFFICES ASSUME NEW i \in 1 .. Len(list), list[i].op = "delete", after[B + i].node = map[e] PROVE FALSE
      <4>1. \A x \in B + 1 .. Len(after) : x - B \in 1 .. Len(list) /\ x = B + (x - B)
        BY <1>1, <1>5
      <4> QED
        BY <1>4, <4>1
    <3>2. list[i].ext = e
      BY <1>1, <1>3, <1>7, <2>1, <3>1 DEF OneToOne
    <3> QED
      BY <1>6, <1>19, <3>1, <3>2 DEF Says
  <2>4. Len(after) \in B .. Len(after) /\ UpTo(after, Len(after)) = after
    BY <1>10
  <2>5. (\A x \in B + 1 .. Len(after) : after[x].node = map[e] => after[x].op # "node.delete")
           => RowAt(UpTo(after, Len(after)), map[e]).deleted = RowAt(UpTo(after, B), map[e]).deleted
    BY <1>1, <1>5, <2>2, <2>4, RowPersists
  <2> QED
    BY <1>1, <2>1, <2>2, <2>3, <2>4, <2>5
(* What the library shows is in the browser. *)
<1>20. ASSUME NEW n \in Shown(after) PROVE \E e \in There(t) : merged[e] = n
  <2>1. RowAt(after, n) # None /\ ~RowAt(after, n).deleted
    BY <1>5, ShownFacts DEF Visible, Live
  <2>2. UpTo(after, Len(after)) = after /\ Len(after) \in B .. Len(after)
    BY <1>10
  <2>3. CASE RowAt(lg, n) = None
    <3>1. PICK x \in B + 1 .. Len(after) : after[x].op = "node.create" /\ after[x].node = n
      BY <1>1, <1>5, <2>1, <2>2, <2>3, RowCreated
    <3>2. x - B \in 1 .. Len(list) /\ B + (x - B) = x
      BY <1>1, <1>5
    <3>3. list[x - B].op = "create" /\ merged[list[x - B].ext] = n
      BY <1>4, <1>9, <3>1, <3>2
    <3>4. list[x - B].ext \in There(t)
      BY <1>6, <3>2, <3>3 DEF Says
    <3> QED
      BY <3>3, <3>4
  <2>4. CASE RowAt(lg, n) # None
    <3>1. ASSUME NEW x \in B + 1 .. Len(after), RowAt(lg, after[x].node) # None
          PROVE  after[x].node \in Shown(lg)
      <4>1. x - B \in 1 .. Len(list) /\ B + (x - B) = x
        BY <1>1, <1>5
      <4>2. list[x - B].op # "create"
        BY <1>2, <3>1, <4>1
      <4>3. after[x].node = map[list[x - B].ext] /\ known[list[x - B].ext] # None /\ list[x - B].ext \in Ext
        BY <1>1, <1>3, <4>1, <4>2
      <4> QED
        BY <1>7, <1>8, <4>3
    <3>2. n \in Shown(lg)
      <4>1. \A x \in B + 1 .. Len(after) : RowAt(UpTo(after, B), after[x].node) # None /\ after[x].node \in Shown(after)
                                           => after[x].node \in Shown(UpTo(after, B))
        BY <1>1, <3>1
      <4>2. n \in Shown(UpTo(after, B))
        BY <1>1, <1>5, <1>20, <2>4, <4>1, NoneReturns
      <4> QED
        BY <1>1, <4>2
    <3>3. PICK e \in There(known) : map[e] = n
      BY <1>7, <3>2
    <3>4. e \in Ext /\ map[e] # None /\ merged[e] = n
      <4>1. n \in Node
        BY <3>2, ShownFacts
      <4> QED
        BY <1>8, <1>9, <3>3, <4>1
    <3>5. CASE e \in There(t)
      BY <3>4, <3>5
    <3>6. CASE e \notin There(t)
      <4>1. Lists(list, "delete", e)
        BY <3>4, <3>6 DEF Told
      <4>2. PICK i \in 1 .. Len(list) : list[i].op = "delete" /\ list[i].ext = e
        BY <4>1 DEF Lists
      <4>3. after[B + i].node = n /\ after[B + i].op = "node.delete" /\ B + i \in 2 .. Len(after) /\ B + i \in 1 .. Len(after)
        BY <1>1, <1>3, <1>4, <1>5, <3>3, <4>2
      <4>4. after[B + i].row.deleted
        BY <1>5, <4>3 DEF Grown, Follows
      <4> QED
        BY <1>5, <2>1, <4>3, <4>4, RowSince
    <3> QED
      BY <3>5, <3>6
  <2> QED
    BY <2>3, <2>4
<1>21. \A p, n : ~Left({}, p, n)
  BY DEF Left
<1>22. \A e \in There(t) \ {Bar} : t[e].title = RowAt(after, merged[e]).title
  BY <1>16, <1>17
<1>23. \A e \in There(t) \ {Bar} : merged[t[e].parent] = RowAt(after, merged[e]).parent
  BY <1>16, <1>18
<1>24. \A e \in There(t) : ~RowAt(after, merged[e]).deleted
  BY <1>7, <1>16, <1>19, ManualSyncAssumption DEF Named
<1> QED
  BY <1>12, <1>13, <1>15, <1>20, <1>21, <1>22, <1>23, <1>24 DEF Halfway

-----------------------------------------------------------------------------
(* The invariant of a run, and the steps that keep it. *)

(* What a run relies on, when d is the stored state, t the browser's tree,  *)
(* org where its ids came from, lg the library's log and a the clock that  *)
(* was acknowledged.                                                       *)
StateFits(s, t, lg) ==
  /\ s.cursor \in 0 .. Len(lg) /\ s.map[Bar] = Root /\ Seen(t, s.map, s.known)
  /\ s.cursor > 0 => Matched(s.known, s.map, UpTo(lg, s.cursor))

Holds(k) == [e \in Ext |-> IF k.made[e] # None THEN k.made[e] ELSE k.map[e]]

(* It previews the changes of the tree it read. *)
FitsDiff(k, d, t) == k.pc \in {"preview", "confirm", "apply"} => k.mutations \in Mutations(t, d)
(* A preview has every revision since the cursor, and a client that has      *)
(* changes is one that missed none.                                        *)
FitsPreviewed(k, lg) ==
  k.pc \in {"confirm", "apply"} =>
    /\ k.to \in 1 .. Len(lg) /\ k.base \in 0 .. k.to /\ k.ops = SubSeq(lg, k.base + 1, k.to)
    /\ k.mutations # <<>> => k.base = k.to
    /\ \A i \in 1 .. Len(k.mutations) :
         k.mutations[i].op \in {"create", "move"} => k.mutations[i].parent # None
(* What the plan has not done yet is all that the tree lacks, or it will fail. *)
FitsPerforming(k, t, org, lg, a) ==
  k.pc = "local" =>
    /\ k.clock \in 1 .. Len(lg) /\ (a = None \/ a <= k.clock)
    /\ k.plan # {} => k.map = k.state.map
    /\ \A e \in Ext : k.made[e] # None => k.map[e] = None
    /\ Listed(k.plan, k.map, UpTo(lg, k.clock))
    /\ Doomed(t, org, k.plan) \/ Halfway(t, Holds(k), k.plan, UpTo(lg, k.clock))
(* What is about to be stored is the tree of the library. *)
FitsEnding(k, t, lg, a) ==
  /\ k.pc = "ack" => /\ k.clock \in 1 .. Len(lg) /\ (a = None \/ a <= k.clock)
                     /\ Seen(t, k.map, k.known) /\ Matched(k.known, k.map, UpTo(lg, k.clock))
  /\ k.pc = "save" => /\ StateFits(k.state, t, lg)
                      /\ k.state.status = "synced" => k.clock \in 1 .. Len(lg) /\ k.state.cursor = k.clock

AgreeRun(k, d, t, org, lg, a) ==
  /\ FitsDiff(k, d, t) /\ FitsPreviewed(k, lg) /\ FitsPerforming(k, t, org, lg, a)
  /\ FitsEnding(k, t, lg, a)

(* The inductive invariant: the trees agree wherever the client says they do. *)
AgreeInv == steady =>
  /\ Nested(tree) /\ Grown(log) /\ (ack = None \/ ack <= Len(log))
  /\ StateFits(disk, tree, log)
  /\ \A r \in Run : run[r] # None => AgreeRun(run[r], disk, tree, origin, log, ack)

(* Initially nothing is mapped but the bar. *)
LEMMA AgreeInit ==
  ASSUME IsFiniteSet(Node), Init, FirstCursor # None
  PROVE  AgreeInv
<1> DEFINE first == [op |-> "library.create", node |-> Root,
                     row |-> [parent |-> None, title |-> OneTitle, deleted |-> FALSE]]
           bar   == [parent |-> None, title |-> OneTitle]
<1>1. /\ log = <<first>> /\ Root \in Node /\ OneTitle \in Title /\ None \notin Node
      /\ tree = [e \in Ext |-> IF e = Bar THEN bar ELSE None]
      /\ disk = [cursor |-> Start, map |-> [e \in Ext |-> IF e = Bar THEN Root ELSE None],
                 known |-> tree, status |-> "idle"]
      /\ ack = IF Start = 0 THEN None ELSE Start
      /\ Start \in 0 .. 1 /\ Bar \in Ext /\ None \notin Ext /\ None \notin Leaf
      /\ \A r \in Run : run[r] = None
  BY ManualSyncAssumption, RecordAssumption, ExtFinite DEF Init, OneTitle
<1>2. bar \in Leaf /\ bar # None /\ bar.parent = None /\ first \in Revision
  BY <1>1 DEF Leaf, Revision, Row
<1> HIDE DEF bar
<1>3. There(tree) = {Bar} /\ tree[Bar] = bar
  BY <1>1, <1>2 DEF There
<1>4. Nested(tree)
  BY <1>1, <1>2, <1>3 DEF Nested, Rooted, TreeType
<1>5. log \in Seq(Revision) /\ Len(log) = 1 /\ log[1] = first
  <2> HIDE DEF first
  <2> QED
    BY <1>1, <1>2
<1>6. Grown(log)
  BY <1>5 DEF Grown
<1>7. RowAt(log, Root) = first.row /\ \A n : n # Root => RowAt(log, n) = None
  <2>1. RowAt(log, Root) = log[1].row
    BY <1>5, RowIsLast
  <2>2. \A n : n # Root => RowAt(log, n) = None
    <3>1. SUFFICES ASSUME NEW n, n # Root PROVE RowAt(log, n) = None
      OBVIOUS
    <3>2. RowAt(log, n) = None <=> \A c \in 1 .. Len(log) : log[c].node # n
      BY <1>5, RowIsLast
    <3> QED
      BY <1>5, <3>1, <3>2
  <2> QED
    BY <1>5, <2>1, <2>2
<1> DEFINE m == disk.map
<1>8. m[Bar] = Root /\ \A e \in Ext : e # Bar => m[e] = None
  BY <1>1
<1>9. Shown(log) = {Root}
  <2>1. Shown(log) \subseteq {Root}
    BY <1>7 DEF Shown
  <2>2. Root \in Shown(log)
    BY <1>6, ShownFacts
  <2> QED
    BY <2>1, <2>2
<1>10. Matched(tree, m, log)
  <2>1. Agrees(tree, m, log)
    <3>1. {m[e] : e \in There(tree)} = {Root}
      BY <1>3, <1>8
    <3> QED
      BY <1>3, <1>9, <3>1 DEF Agrees
  <2>2. OneToOne(m)
    BY <1>1, <1>8 DEF OneToOne
  <2>3. Named(m, log)
    <3>1. RowAt(log, Root) # None
      BY <1>6, GrownRows
    <3> QED
      BY <1>8, <3>1 DEF Named
  <2> QED
    BY <2>1, <2>2, <2>3 DEF Matched
<1>11. StateFits(disk, tree, log)
  <2>1. disk.cursor \in 0 .. Len(log) /\ disk.known = tree /\ (disk.cursor > 0 => disk.cursor = Len(log))
    BY <1>1, <1>5
  <2>2. UpTo(log, Len(log)) = log
    BY <1>5, UpToFacts
  <2>3. Seen(tree, m, disk.known)
    BY <2>1 DEF Seen, There
  <2> QED
    BY <1>8, <1>10, <2>1, <2>2, <2>3 DEF StateFits
<1>12. ack = None \/ ack <= Len(log)
  BY <1>1, <1>5
<1> QED
  BY <1>1, <1>4, <1>6, <1>11, <1>12 DEF AgreeInv

(* What the log was is what a longer log was at that clock. *)
Extends(lg2, lg) ==
  /\ lg2 \in Seq(Revision) /\ Len(lg2) >= Len(lg) /\ \A i \in 1 .. Len(lg) : lg2[i] = lg[i]

(* What a run relies on stays true of a longer log. *)
LEMMA AgreeGrows ==
  ASSUME NEW lg, Grown(lg), NEW lg2, Extends(lg2, lg), NEW t
  PROVE  /\ \A s : StateFits(s, t, lg) => StateFits(s, t, lg2)
         /\ \A k, d, org, a : AgreeRun(k, d, t, org, lg, a) => AgreeRun(k, d, t, org, lg2, a)
<1>1. /\ lg \in Seq(Revision) /\ lg2 \in Seq(Revision) /\ Len(lg) \in Nat /\ Len(lg2) \in Nat
      /\ Len(lg2) >= Len(lg) /\ \A i \in 1 .. Len(lg) : lg2[i] = lg[i]
  BY DEF Grown, Extends
<1>2. \A c \in 0 .. Len(lg) : UpTo(lg2, c) = UpTo(lg, c)
  BY <1>1, UpToFacts
<1>3. 0 .. Len(lg) \subseteq 0 .. Len(lg2) /\ 1 .. Len(lg) \subseteq 1 .. Len(lg2) /\ 1 .. Len(lg) \subseteq 0 .. Len(lg)
  BY <1>1
<1>4. \A s : StateFits(s, t, lg) => StateFits(s, t, lg2)
  BY <1>2, <1>3 DEF StateFits
<1>5. ASSUME NEW k, NEW d, NEW org, NEW a, AgreeRun(k, d, t, org, lg, a)
      PROVE  AgreeRun(k, d, t, org, lg2, a)
  <2>1. FitsDiff(k, d, t)
    BY <1>5 DEF AgreeRun
  <2>2. FitsPreviewed(k, lg2)
    <3>1. \A c \in 1 .. Len(lg) : \A b \in 0 .. c : SubSeq(lg2, b + 1, c) = SubSeq(lg, b + 1, c)
      <4>1. SUFFICES ASSUME NEW c \in 1 .. Len(lg), NEW b \in 0 .. c PROVE SubSeq(lg2, b + 1, c) = SubSeq(lg, b + 1, c)
        OBVIOUS
      <4>2. /\ SubSeq(lg, b + 1, c) = [i \in 1 .. c - b |-> lg[i + b]]
            /\ SubSeq(lg2, b + 1, c) = [i \in 1 .. c - b |-> lg2[i + b]]
        BY <1>1, <4>1
      <4>3. \A i \in 1 .. c - b : lg2[i + b] = lg[i + b]
        BY <1>1, <4>1
      <4> QED
        BY <4>2, <4>3
    <3>2. FitsPreviewed(k, lg)
      BY <1>5 DEF AgreeRun
    <3> QED
      BY <1>3, <3>1, <3>2 DEF FitsPreviewed
  <2>3. FitsPerforming(k, t, org, lg2, a)
    <3>1. FitsPerforming(k, t, org, lg, a)
      BY <1>5 DEF AgreeRun
    <3>2. SUFFICES ASSUME k.pc = "local" PROVE FitsPerforming(k, t, org, lg2, a)
      BY DEF FitsPerforming
    <3>3. k.clock \in 1 .. Len(lg) /\ k.clock \in 1 .. Len(lg2) /\ UpTo(lg2, k.clock) = UpTo(lg, k.clock)
      BY <1>2, <1>3, <3>1, <3>2 DEF FitsPerforming
    <3> QED
      BY <3>1, <3>3 DEF FitsPerforming
  <2>4. FitsEnding(k, t, lg2, a)
    <3>1. FitsEnding(k, t, lg, a)
      BY <1>5 DEF AgreeRun
    <3>2. k.pc = "ack" =>
            /\ k.clock \in 1 .. Len(lg2) /\ (a = None \/ a <= k.clock)
            /\ Seen(t, k.map, k.known) /\ Matched(k.known, k.map, UpTo(lg2, k.clock))
      BY <1>2, <1>3, <3>1 DEF FitsEnding
    <3>3. k.pc = "save" =>
            /\ StateFits(k.state, t, lg2)
            /\ k.state.status = "synced" => k.clock \in 1 .. Len(lg2) /\ k.state.cursor = k.clock
      BY <1>3, <1>4, <3>1 DEF FitsEnding
    <3> QED
      BY <3>2, <3>3 DEF FitsEnding
  <2> QED
    BY <2>1, <2>2, <2>3, <2>4 DEF AgreeRun
<1> QED
  BY <1>4, <1>5

(* A run at some await does not rely on what one at another does. *)
LEMMA AgreeAt ==
  ASSUME NEW k, NEW d, NEW t, NEW org, NEW lg, NEW a
  PROVE  /\ k.pc \in {"read", "thrown"} => AgreeRun(k, d, t, org, lg, a)
         /\ k.pc = "preview" /\ FitsDiff(k, d, t) => AgreeRun(k, d, t, org, lg, a)
         /\ k.pc \in {"confirm", "apply"} /\ FitsDiff(k, d, t) /\ FitsPreviewed(k, lg)
              => AgreeRun(k, d, t, org, lg, a)
         /\ k.pc = "local" /\ FitsPerforming(k, t, org, lg, a) => AgreeRun(k, d, t, org, lg, a)
         /\ k.pc \in {"ack", "save"} /\ FitsEnding(k, t, lg, a) => AgreeRun(k, d, t, org, lg, a)
BY DEF AgreeRun, FitsDiff, FitsPreviewed, FitsPerforming, FitsEnding

(* A step of the run that changes nothing but the run. *)
LEMMA AgreeQuiet ==
  ASSUME Typed, AgreeInv, OneRun, NEW r \in Run, NEW k, Continue(r, k),
         steady /\ k # None => AgreeRun(k, disk, tree, origin, log, ack),
         UNCHANGED <<log, ack, tree, disk, origin, steady>>
  PROVE  AgreeInv'
<1>1. steady => \A q \in Run : run'[q] # None => AgreeRun(run'[q], disk, tree, origin, log, ack)
  BY OnlyRun
<1>2. /\ log' = log /\ ack' = ack /\ tree' = tree /\ disk' = disk /\ origin' = origin /\ steady' = steady
  OBVIOUS
<1> QED
  BY <1>1, <1>2 DEF AgreeInv

(* A run begins. *)
LEMMA AgreeBegin ==
  ASSUME Typed, AgreeInv, OneRun, NEW r \in Run, Begin(r)
  PROVE  AgreeInv'
<1>1. PICK k : Continue(r, k) /\ k.pc = "read"
  BY DEF Begin
<1> QED
  BY <1>1, AgreeAt, AgreeQuiet DEF Begin

(* A run has read the tree and computed its mutations. *)
LEMMA AgreeReadTree ==
  ASSUME Typed, EchoInv, AgreeInv, OneRun, NEW r \in Run, ReadTree(r)
  PROVE  AgreeInv'
<1>1. run[r].state = disk
  BY DEF ReadTree, At, EchoInv, EchoRun, EchoLoaded
<1>2. PICK list \in Mutations(tree, disk) :
        Continue(r, [pc |-> "preview", state |-> run[r].state, base |-> run[r].base, mutations |-> list])
  BY <1>1 DEF ReadTree
<1> DEFINE k == [pc |-> "preview", state |-> run[r].state, base |-> run[r].base, mutations |-> list]
<1>3. k.pc = "preview" /\ FitsDiff(k, disk, tree)
  BY DEF FitsDiff
<1>4. AgreeRun(k, disk, tree, origin, log, ack)
  BY <1>3, AgreeAt
<1> QED
  BY <1>2, <1>4, AgreeQuiet DEF ReadTree

(* Saving the state as it was loaded, but for the status. *)
LEMMA AgreeSaveOld ==
  ASSUME NEW s \in StateType, NEW t, NEW lg, StateFits(s, t, lg), NEW x \in Status \ {"synced"}, NEW r,
         NEW d, NEW org, NEW a
  PROVE  /\ AgreeRun(Ending(r, [s EXCEPT !.status = x]), d, t, org, lg, a)
         /\ AgreeRun(Ending(r, [cursor |-> s.cursor, map |-> s.map, known |-> s.known, status |-> x]),
                     d, t, org, lg, a)
<1> DEFINE s1 == [cursor |-> s.cursor, map |-> s.map, known |-> s.known, status |-> x]
<1>1. [s EXCEPT !.status = x] = s1
  BY DEF StateType
<1>2. StateFits(s1, t, lg) /\ s1.status # "synced"
  BY DEF StateFits
<1> HIDE DEF s1
<1>3. FitsEnding(Ending(r, s1), t, lg, a) /\ Ending(r, s1).pc = "save"
  BY <1>2 DEF FitsEnding, Ending
<1>4. AgreeRun(Ending(r, s1), d, t, org, lg, a)
  BY <1>3, AgreeAt
<1> QED
  BY <1>1, <1>4 DEF s1

(* The user confirms a preview, or the run ends. *)
LEMMA AgreeConfirm ==
  ASSUME Typed, EchoInv, AgreeInv, OneRun, NEW r \in Run, Confirm(r)
  PROVE  AgreeInv'
<1> DEFINE k == run[r]
<1>1. k.pc = "confirm" /\ TypedPreviewed(k, Len(log)) /\ k.state = disk /\ disk \in StateType /\ k # None
  BY RunIsTyped DEF Confirm, At, EchoInv, EchoRun, EchoLoaded, Typed
<1>2. steady => /\ AgreeRun(k, disk, tree, origin, log, ack) /\ StateFits(disk, tree, log)
  BY <1>1 DEF AgreeInv
<1>3. CASE Continue(r, [k EXCEPT !.pc = "apply"])
  <2> DEFINE new == [pc |-> "apply", state |-> k.state, base |-> k.base, to |-> k.to,
                     mutations |-> k.mutations, ops |-> k.ops]
  <2>1. [k EXCEPT !.pc = "apply"] = new
    BY <1>1 DEF TypedPreviewed
  <2>2. steady => FitsDiff(new, disk, tree) /\ FitsPreviewed(new, log)
    BY <1>1, <1>2 DEF AgreeRun, FitsDiff, FitsPreviewed
  <2>3. steady => AgreeRun(new, disk, tree, origin, log, ack)
    BY <2>2, AgreeAt
  <2> QED
    BY <1>3, <2>1, <2>3, AgreeQuiet DEF Confirm
<1>4. CASE Continue(r, Ending(r, [k.state EXCEPT !.status = "awaiting-confirmation"]))
  <2>1. "awaiting-confirmation" \in Status \ {"synced"}
    BY DEF Status
  <2>2. steady => AgreeRun(Ending(r, [disk EXCEPT !.status = "awaiting-confirmation"]), disk, tree, origin, log, ack)
    BY <1>1, <1>2, <2>1, AgreeSaveOld
  <2> QED
    BY <1>1, <1>4, <2>2, AgreeQuiet DEF Confirm
<1> QED
  BY <1>3, <1>4 DEF Confirm

(* A plan that failed leaves the stored state as it was. *)
LEMMA AgreeRecover ==
  ASSUME Typed, EchoInv, AgreeInv, OneRun, NEW r \in Run, Recover(r)
  PROVE  AgreeInv'
<1> DEFINE k == run[r]
<1>1. k.pc = "local" /\ k.plan # {} /\ k.state = disk /\ disk \in StateType /\ k # None
  BY DEF Recover, At, EchoInv, EchoRun, EchoLoaded, Typed
<1>2. steady => k.map = disk.map /\ StateFits(disk, tree, log)
  BY <1>1 DEF AgreeInv, AgreeRun, FitsPerforming
<1> DEFINE new == Ending(r, [cursor |-> disk.cursor, map |-> k.map, known |-> disk.known,
                             status |-> "recovery-required"])
<1>3. steady => AgreeRun(new, disk, tree, origin, log, ack)
  <2>1. "recovery-required" \in Status \ {"synced"}
    BY DEF Status
  <2> QED
    BY <1>1, <1>2, <2>1, AgreeSaveOld
<1>4. Continue(r, new)
  BY <1>1 DEF Recover
<1> QED
  BY <1>3, <1>4, AgreeQuiet DEF Recover

(* A plan that was performed to its end leaves trees that agree. *)
LEMMA AgreeReload ==
  ASSUME IsFiniteSet(Node), Typed, AgreeInv, OneRun, NEW r \in Run, Reload(r)
  PROVE  AgreeInv'
<1> DEFINE k   == run[r]
           new == [pc |-> "ack", state |-> k.state, clock |-> k.clock, known |-> tree, map |-> Holds(k)]
<1>1. k.pc = "local" /\ k.plan = {} /\ k # None /\ TypedPerforming(k, Len(log))
  BY RunIsTyped DEF Reload, At
<1>2. Holds(k) \in MapType
  BY <1>1 DEF TypedPerforming, MapType, Holds
<1>3. Continue(r, new)
  BY DEF Reload, Holds
<1>4. steady => AgreeRun(new, disk, tree, origin, log, ack)
  <2>1. SUFFICES ASSUME steady PROVE AgreeRun(new, disk, tree, origin, log, ack)
    OBVIOUS
  <2>2. /\ k.clock \in 1 .. Len(log) /\ (ack = None \/ ack <= k.clock)
        /\ Doomed(tree, origin, {}) \/ Halfway(tree, Holds(k), {}, UpTo(log, k.clock))
        /\ Nested(tree) /\ Grown(log)
    BY <1>1, <2>1 DEF AgreeInv, AgreeRun, FitsPerforming
  <2>3. Halfway(tree, Holds(k), {}, UpTo(log, k.clock))
    BY <2>2 DEF Doomed
  <2>4. Grown(UpTo(log, k.clock))
    BY <2>2, GrownUpTo
  <2>5. Matched(tree, Holds(k), UpTo(log, k.clock))
    BY <1>2, <2>2, <2>3, <2>4, NothingLeft
  <2>6. Seen(tree, Holds(k), tree)
    BY DEF Seen, There
  <2>7. FitsEnding(new, tree, log, ack)
    BY <2>2, <2>5, <2>6 DEF FitsEnding
  <2> QED
    BY <2>7, AgreeAt
<1> HIDE DEF new
<1> QED
  BY <1>3, <1>4, AgreeQuiet DEF Reload

(* A run has acknowledged the clock it reached. *)
LEMMA AgreeAck ==
  ASSUME Typed, AgreeInv, OneRun, NEW r \in Run, Ack(r)
  PROVE  AgreeInv'
<1> DEFINE k    == run[r]
           kept == IF ack # None /\ k.clock < ack THEN ack ELSE k.clock
           s    == [cursor |-> kept, map |-> k.map, known |-> k.known, status |-> "synced"]
           new  == [pc |-> "save", state |-> s, clock |-> k.clock]
<1>1. /\ Continue(r, new) /\ ack' = kept
      /\ UNCHANGED <<log, tree, disk, origin, steady>>
  BY DEF Ack, Ending
<1>2. SUFFICES ASSUME steady PROVE AgreeInv'
  BY <1>1 DEF AgreeInv
<1>3. k.pc = "ack" /\ k # None /\ k.clock \in Nat /\ ack \in Nat \cup {None} /\ log \in Seq(Revision)
  BY RunIsTyped DEF Ack, At, TypedEnding, Typed
<1>4. /\ Nested(tree) /\ Grown(log) /\ StateFits(disk, tree, log)
      /\ k.clock \in 1 .. Len(log) /\ (ack = None \/ ack <= k.clock)
      /\ Seen(tree, k.map, k.known) /\ Matched(k.known, k.map, UpTo(log, k.clock))
  BY <1>2, <1>3 DEF AgreeInv, AgreeRun, FitsEnding
<1>5. kept = k.clock
  BY <1>3, <1>4
<1> HIDE DEF kept
<1>6. StateFits(s, tree, log)
  <2>1. k.map[Bar] = Root
    BY <1>4 DEF Matched, Named
  <2>2. k.clock \in 0 .. Len(log)
    BY <1>3, <1>4
  <2> QED
    BY <1>4, <1>5, <2>1, <2>2 DEF StateFits
<1>7. FitsEnding(new, tree, log, ack')
  <2>1. s.cursor = k.clock
    BY <1>5
  <2> HIDE DEF s
  <2> QED
    BY <1>4, <1>6, <2>1 DEF FitsEnding
<1>8. AgreeRun(new, disk, tree, origin, log, ack')
  BY <1>7, AgreeAt
<1> HIDE DEF new
<1>9. \A q \in Run : run'[q] = new
  BY <1>1, OnlyRun
<1>10. ack' <= Len(log)
  BY <1>1, <1>3, <1>4, <1>5
<1> QED
  BY <1>1, <1>4, <1>8, <1>9, <1>10 DEF AgreeInv

(* A run stores its state. *)
LEMMA AgreeSave ==
  ASSUME Typed, AgreeInv, OneRun, NEW r \in Run, Save(r)
  PROVE  AgreeInv'
<1>1. steady => StateFits(run[r].state, tree, log)
  BY DEF Save, At, AgreeInv, AgreeRun, FitsEnding
<1>2. \A q \in Run : run'[q] = None
  BY OnlyRun DEF Save
<1>3. UNCHANGED <<log, ack, tree, origin, steady>> /\ disk' = run[r].state
  BY DEF Save
<1> QED
  BY <1>1, <1>2, <1>3 DEF AgreeInv

(* The library grows beside the client. *)
LEMMA AgreeDashboard ==
  ASSUME "node.restore" \notin DashboardOps, Typed, AgreeInv, Dashboard
  PROVE  AgreeInv'
<1>1. UNCHANGED <<ack, tree, disk, run, origin, steady>>
  BY DEF Dashboard
<1>2. SUFFICES ASSUME steady PROVE AgreeInv'
  BY <1>1 DEF AgreeInv
<1>3. Grown(log) /\ ack \in Nat \cup {None}
  BY <1>2 DEF AgreeInv, Typed
<1>4. PICK op \in DashboardOps, n \in Node, p \in Node, title \in Title :
        Written(log, op, n, p, title) # <<>> /\ log' = Written(log, op, n, p, title)
  BY DEF Dashboard
<1>5. op \in NodeOp \ {"node.restore"}
  BY ManualSyncAssumption
<1>6. PICK rev \in Revision : log' = Append(log, rev) /\ Follows(log, rev)
  BY <1>3, <1>4, <1>5, WrittenFollows
<1>7. Grown(log')
  BY <1>3, <1>6, GrownAppend
<1>8. Extends(log', log) /\ Len(log') = Len(log) + 1 /\ Len(log) \in Nat
  <2>1. log \in Seq(Revision) /\ Len(log) \in Nat
    BY <1>3 DEF Grown
  <2>2. log' \in Seq(Revision) /\ Len(log') = Len(log) + 1 /\ \A i \in 1 .. Len(log) : log'[i] = log[i]
    BY <1>6, <2>1
  <2> QED
    BY <2>1, <2>2 DEF Extends
<1>9. StateFits(disk, tree, log')
  BY <1>2, <1>3, <1>8, AgreeGrows DEF AgreeInv
<1>10. ASSUME NEW r \in Run, run[r] # None PROVE AgreeRun(run[r], disk, tree, origin, log', ack)
  <2>1. AgreeRun(run[r], disk, tree, origin, log, ack)
    BY <1>2, <1>10 DEF AgreeInv
  <2> QED
    BY <1>3, <1>8, <2>1, AgreeGrows
<1>11. ack = None \/ ack <= Len(log')
  BY <1>2, <1>3, <1>8 DEF AgreeInv
<1>12. Nested(tree)
  BY <1>2 DEF AgreeInv
<1> QED
  BY <1>1, <1>7, <1>9, <1>10, <1>11, <1>12 DEF AgreeInv

(* A tree stays one below the bar when a bookmark is made, changed or moved  *)
(* there, and when a folder goes with what is in it.                       *)
LeafSet(t, e, t1) ==
  /\ e \in Ext \ {Bar} /\ Rooted(t1) /\ \A d \in Ext \ {e} : t1[d] = t[d]
  /\ t1[e] # None /\ t1[e].parent \in There(t)

(* A change of one bookmark that makes no loop. *)
LEMMA NestedLeaf ==
  ASSUME NEW t, Nested(t), NEW e, NEW t1, LeafSet(t, e, t1)
  PROVE  Nested(t1) /\ There(t1) = There(t) \cup {e}
<1>0. /\ e \in Ext \ {Bar} /\ Rooted(t1) /\ \A d \in Ext \ {e} : t1[d] = t[d]
      /\ t1[e] # None /\ t1[e].parent \in There(t)
  BY DEF LeafSet
<1>1. There(t1) = There(t) \cup {e}
  BY <1>0 DEF There
<1>2. t1[Bar] = t[Bar] /\ Bar \in There(t)
  BY <1>0, ExtFinite DEF Nested, There
<1>3. \A d \in There(t1) \ {Bar} : t1[d].parent \in There(t1)
  BY <1>0, <1>1 DEF Nested, There
<1> QED
  BY <1>0, <1>1, <1>2, <1>3 DEF Nested

(* Without a folder and what is in it. *)
LEMMA NestedWithout ==
  ASSUME NEW t, Nested(t), NEW e \in There(t) \ {Bar}, NEW t1,
         t1 = [d \in Ext |-> IF d \in Subtree(t, e) THEN None ELSE t[d]]
  PROVE  Nested(t1) /\ There(t1) \subseteq There(t)
<1>1. Bar \notin Subtree(t, e) /\ \A d \in There(t) \ {Bar} : t[d].parent \in Subtree(t, e) => d \in Subtree(t, e)
  BY SubtreeFacts
<1>2. Rooted(t1)
  <2>1. Rooted(t) /\ e \in Ext
    BY DEF Nested, There
  <2> QED
    BY <2>1, RootedSteps
<1>3. There(t1) = There(t) \ Subtree(t, e) /\ \A d \in There(t1) : t1[d] = t[d]
  BY DEF There
<1>4. t1[Bar] = t[Bar]
  BY <1>1, ExtFinite
<1>5. \A d \in There(t1) \ {Bar} : t1[d].parent \in There(t1)
  BY <1>1, <1>3 DEF Nested
<1> QED
  BY <1>2, <1>3, <1>4, <1>5 DEF Nested

(* What each step that edits the browser's tree does to it.                 *)
Created(t, e, p, title, t1) ==
  /\ e \in Ext /\ t[e] = None /\ p \in There(t) /\ title \in Title
  /\ t1 = [t EXCEPT ![e] = [parent |-> p, title |-> title]]

(* A new bookmark. *)
LEMMA NestedCreate ==
  ASSUME NEW t, Nested(t), NEW e, NEW p, NEW title, NEW t1, Created(t, e, p, title, t1)
  PROVE  Nested(t1) /\ There(t1) = There(t) \cup {e}
<1>0. /\ e \in Ext /\ t[e] = None /\ p \in There(t) /\ title \in Title
      /\ t1 = [t EXCEPT ![e] = [parent |-> p, title |-> title]]
  BY DEF Created
<1>1. p \in Ext /\ Rooted(t) /\ e # Bar
  BY <1>0 DEF Nested, There
<1>2. t \in [Ext -> Leaf \cup {None}]
  BY <1>1 DEF Rooted, TreeType
<1> DEFINE leaf == [parent |-> p, title |-> title]
<1>3. leaf \in Leaf /\ leaf.parent = p
  BY <1>0, <1>1 DEF Leaf
<1>4. leaf # None
  BY <1>3, RecordAssumption
<1>5. Rooted(t1)
  BY <1>0, <1>1, RootedSteps
<1> HIDE DEF leaf
<1>6. t1[e] = leaf /\ \A d \in Ext \ {e} : t1[d] = t[d]
  BY <1>0, <1>2 DEF leaf
<1>7. LeafSet(t, e, t1)
  BY <1>0, <1>1, <1>3, <1>4, <1>5, <1>6 DEF LeafSet
<1> QED
  BY <1>7, NestedLeaf, Zenon

Titled(t, e, title, t1) ==
  e \in There(t) \ {Bar} /\ title \in Title /\ t1 = [t EXCEPT ![e].title = title]

(* A new title. *)
LEMMA NestedTitle ==
  ASSUME NEW t, Nested(t), NEW e, NEW title, NEW t1, Titled(t, e, title, t1)
  PROVE  Nested(t1) /\ There(t1) = There(t)
<1>0. e \in There(t) \ {Bar} /\ title \in Title /\ t1 = [t EXCEPT ![e].title = title]
  BY DEF Titled
<1> USE <1>0
<1>1. e \in Ext /\ Rooted(t) /\ t[e] # None /\ t[e].parent \in There(t)
  BY DEF Nested, There
<1>2. t \in [Ext -> Leaf \cup {None}] /\ t[e] \in Leaf
  BY <1>1 DEF Rooted, TreeType
<1>3. Rooted(t1)
  BY <1>1, RootedSteps, Zenon
<1>4. t1[e] = [t[e] EXCEPT !.title = title] /\ \A d \in Ext \ {e} : t1[d] = t[d]
  BY <1>1, <1>2
<1>5. t1[e] \in Leaf /\ t1[e].parent = t[e].parent
  BY <1>2, <1>4 DEF Leaf
<1>6. t1[e] # None
  BY <1>5, RecordAssumption
<1>7. LeafSet(t, e, t1)
  BY <1>1, <1>3, <1>4, <1>5, <1>6 DEF LeafSet
<1>8. Nested(t1) /\ There(t1) = There(t) \cup {e}
  BY <1>7, NestedLeaf, Zenon
<1> QED
  BY <1>8

Moved(t, e, p, t1) == e \in There(t) \ {Bar} /\ p \in There(t) /\ t1 = [t EXCEPT ![e].parent = p]

(* A new parent. *)
LEMMA NestedMove ==
  ASSUME NEW t, Nested(t), NEW e, NEW p, NEW t1, Moved(t, e, p, t1)
  PROVE  Nested(t1) /\ There(t1) = There(t)
<1>0. e \in There(t) \ {Bar} /\ p \in There(t) /\ t1 = [t EXCEPT ![e].parent = p]
  BY DEF Moved
<1> USE <1>0
<1>1. e \in Ext /\ Rooted(t) /\ t[e] # None /\ p \in Ext
  BY DEF Nested, There
<1>2. t \in [Ext -> Leaf \cup {None}] /\ t[e] \in Leaf
  BY <1>1 DEF Rooted, TreeType
<1>3. Rooted(t1)
  BY <1>1, RootedSteps, Zenon
<1>4. t1[e] = [t[e] EXCEPT !.parent = p] /\ \A d \in Ext \ {e} : t1[d] = t[d]
  BY <1>1, <1>2
<1>5. t1[e] \in Leaf /\ t1[e].parent = p
  BY <1>1, <1>2, <1>4 DEF Leaf
<1>6. t1[e] # None
  BY <1>5, RecordAssumption
<1>7. LeafSet(t, e, t1)
  BY <1>1, <1>3, <1>4, <1>5, <1>6 DEF LeafSet
<1>8. Nested(t1) /\ There(t1) = There(t) \cup {e}
  BY <1>7, NestedLeaf, Zenon
<1> QED
  BY <1>8

(* The user's edits between two runs: what is mapped was there before.      *)
LEMMA AgreeUserEdit ==
  ASSUME Typed, EchoInv, AgreeInv, UserEdit
  PROVE  AgreeInv'
<1>1. SUFFICES ASSUME steady' PROVE AgreeInv'
  BY DEF AgreeInv
<1>2. /\ steady /\ \A r \in Run : ~Between(r)
      /\ UNCHANGED <<log, ack, disk, run>>
  BY <1>1 DEF UserEdit
<1>3. /\ Nested(tree) /\ Grown(log) /\ (ack = None \/ ack <= Len(log)) /\ StateFits(disk, tree, log)
      /\ origin \in [Ext -> Node \cup {None, "user"}]
  BY <1>2 DEF AgreeInv, Typed
<1>4. Nested(tree') /\ \A e \in There(tree') : e \in There(tree) \/ origin[e] = None
  <2>1. ASSUME NEW e \in Ext, NEW p \in There(tree), Fresh(e),
               tree' = [tree EXCEPT ![e] = [parent |-> p, title |-> OneTitle]]
        PROVE  Nested(tree') /\ \A d \in There(tree') : d \in There(tree) \/ origin[d] = None
    <3>1. origin[e] = None /\ tree[e] = None /\ OneTitle \in Title
      BY <2>1, ManualSyncAssumption DEF Fresh, EchoInv, There, OneTitle
    <3>2. Created(tree, e, p, OneTitle, tree')
      BY <2>1, <3>1 DEF Created
    <3>3. Nested(tree') /\ There(tree') = There(tree) \cup {e}
      BY <1>3, <3>2, NestedCreate, Zenon
    <3> QED
      BY <3>1, <3>3
  <2>2. ASSUME NEW e \in There(tree) \ {Bar}, NEW title \in Title, tree' = [tree EXCEPT ![e].title = title]
        PROVE  Nested(tree') /\ There(tree') \subseteq There(tree)
    <3>1. Titled(tree, e, title, tree')
      BY <2>2 DEF Titled
    <3> QED
      BY <1>3, <3>1, NestedTitle
  <2>3. ASSUME NEW e \in There(tree) \ {Bar}, NEW p \in There(tree), tree' = [tree EXCEPT ![e].parent = p]
        PROVE  Nested(tree') /\ There(tree') \subseteq There(tree)
    <3>1. Moved(tree, e, p, tree')
      BY <2>3 DEF Moved
    <3> QED
      BY <1>3, <3>1, NestedMove
  <2>4. ASSUME NEW e \in There(tree) \ {Bar},
               tree' = [d \in Ext |-> IF d \in Subtree(tree, e) THEN None ELSE tree[d]]
        PROVE  Nested(tree') /\ There(tree') \subseteq There(tree)
    BY <1>3, <2>4, NestedWithout
  <2>5. CASE \E e \in Ext, p \in There(tree) :
               Fresh(e) /\ tree' = [tree EXCEPT ![e] = [parent |-> p, title |-> OneTitle]]
    BY <2>1, <2>5
  <2>6. CASE \E e \in There(tree) \ {Bar} :
               \/ \E title \in Title \ {tree[e].title} : tree' = [tree EXCEPT ![e].title = title]
               \/ \E p \in There(tree) \ Subtree(tree, e) :
                    p # tree[e].parent /\ tree' = [tree EXCEPT ![e].parent = p]
               \/ tree' = [d \in Ext |-> IF d \in Subtree(tree, e) THEN None ELSE tree[d]]
    <3>1. PICK e \in There(tree) \ {Bar} :
               \/ \E title \in Title : tree' = [tree EXCEPT ![e].title = title]
               \/ \E p \in There(tree) : tree' = [tree EXCEPT ![e].parent = p]
               \/ tree' = [d \in Ext |-> IF d \in Subtree(tree, e) THEN None ELSE tree[d]]
      BY <2>6
    <3>2. CASE \E title \in Title : tree' = [tree EXCEPT ![e].title = title]
      <4>1. PICK title \in Title : tree' = [tree EXCEPT ![e].title = title]
        BY <3>2
      <4> QED
        BY <2>2, <4>1
    <3>3. CASE \E p \in There(tree) : tree' = [tree EXCEPT ![e].parent = p]
      <4>1. PICK p \in There(tree) : tree' = [tree EXCEPT ![e].parent = p]
        BY <3>3
      <4> QED
        BY <2>3, <4>1
    <3>4. CASE tree' = [d \in Ext |-> IF d \in Subtree(tree, e) THEN None ELSE tree[d]]
      BY <2>4, <3>4
    <3> QED
      BY <3>1, <3>2, <3>3, <3>4
  <2> QED
    BY <2>5, <2>6 DEF UserEdit
<1>5. \A map, known : Maps(map, origin) /\ Seen(tree, map, known) => Seen(tree', map, known)
  BY <1>4, ManualSyncAssumption DEF Maps, Seen, There
<1>6. \A s : Maps(s.map, origin) /\ StateFits(s, tree, log) => StateFits(s, tree', log)
  BY <1>5 DEF StateFits
<1>7. StateFits(disk, tree', log)
  BY <1>3, <1>6 DEF EchoInv
<1>8. ASSUME NEW r \in Run, run[r] # None PROVE AgreeRun(run[r], disk, tree', origin', log, ack)
  <2> DEFINE k == run[r]
  <2>1. k.pc \in {"read", "ack", "save", "thrown"}
    <3>1. RunTyped(k, Len(log))
      BY <1>8 DEF Typed
    <3>2. k.pc \in {"read", "preview", "confirm", "apply", "local", "ack", "save", "thrown"}
      BY <3>1 DEF RunTyped, TypedRead, TypedDiff, TypedPreviewed, TypedPerforming, TypedEnding
    <3> QED
      BY <1>2, <1>8, <3>2 DEF Between
  <2>2. AgreeRun(k, disk, tree, origin, log, ack) /\ EchoRun(k, disk, tree, origin, Len(log))
    BY <1>2, <1>8 DEF AgreeInv, EchoInv
  <2>3. k.pc \in {"ack", "save"} => FitsEnding(k, tree', log, ack)
    BY <1>5, <1>6, <2>2 DEF AgreeRun, FitsEnding, EchoRun, EchoEnding
  <2> QED
    BY <2>1, <2>3, AgreeAt
<1> QED
  BY <1>2, <1>3, <1>4, <1>7, <1>8 DEF AgreeInv

(* A preview that is confirmed names the parent of every bookmark: one that  *)
(* the client has not mapped is itself new, and the server would not take  *)
(* it twice.                                                               *)
LEMMA AgreePreview ==
  ASSUME OpsLimit >= MaxClock, Typed, EchoInv, AgreeInv, OneRun, NEW r \in Run, Preview(r)
  PROVE  AgreeInv'
<1> DEFINE k     == run[r]
           found == ToSet(k.mutations)
           stale == k.base < Len(log) /\ found # {}
           last  == IF k.base + OpsLimit < Len(log) THEN k.base + OpsLimit ELSE Len(log)
           bad   == Ending(r, [k.state EXCEPT !.status = "needs-user-resolution"])
           got   == [pc |-> "confirm", state |-> k.state, base |-> k.base, to |-> Len(log),
                     mutations |-> k.mutations, ops |-> SubSeq(log, k.base + 1, last)]
<1>1. /\ k.pc = "preview" /\ k.state = disk /\ k.base = disk.cursor /\ k # None
      /\ disk \in StateType /\ log \in Seq(Revision) /\ Len(log) \in 1 .. MaxClock /\ bound \in MapType
      /\ k.mutations \in Seq(Mutation) /\ k.base \in Nat
  BY RunIsTyped DEF Preview, At, EchoInv, EchoRun, EchoLoaded, Typed, TypedDiff, Loaded
<1>2. SUFFICES ASSUME steady PROVE AgreeInv'
  BY DEF Preview, AgreeInv
<1>3. Nested(tree) /\ StateFits(disk, tree, log) /\ k.mutations \in Mutations(tree, disk)
  BY <1>1, <1>2 DEF AgreeInv, AgreeRun, FitsDiff
<1>4. CASE Continue(r, bad)
  <2>1. "needs-user-resolution" \in Status \ {"synced"}
    BY DEF Status
  <2>2. AgreeRun(bad, disk, tree, origin, log, ack)
    BY <1>1, <1>3, <2>1, AgreeSaveOld
  <2> HIDE DEF bad
  <2> QED
    BY <1>4, <2>2, AgreeQuiet DEF Preview
<1>5. ASSUME ~stale, \A m \in found : ~Refused(m), \A m \in found : ~MappingMissing(m), Continue(r, got)
      PROVE  AgreeInv'
  <2>1. last = Len(log)
    BY <1>1, ManualSyncAssumption
  <2>2. k.base \in 0 .. Len(log)
    BY <1>1, <1>3 DEF StateFits
  <2>3. \A i \in 1 .. Len(k.mutations) : k.mutations[i] \in found
    BY <1>1 DEF ToSet
  <2>4. k.mutations # <<>> => k.base = Len(log)
    <3>1. k.mutations # <<>> => 1 \in 1 .. Len(k.mutations)
      BY <1>1
    <3> QED
      BY <1>1, <1>5, <2>2, <2>3, <3>1
  <2>5. Told(k.mutations, tree, disk.map, disk.known)
    BY <1>1, <1>3, ListSays
  <2>6. ASSUME NEW i \in 1 .. Len(k.mutations), k.mutations[i].op \in {"create", "move"},
               k.mutations[i].parent = None
        PROVE  FALSE
    <3> DEFINE m == k.mutations[i]
               p == m.parentExt
    <3>1. /\ m.ext \in There(tree) \ {Bar} /\ p = tree[m.ext].parent /\ disk.map[p] = None
      BY <2>5, <2>6 DEF Told, Says
    <3>2. p \in There(tree) \ {Bar}
      BY <1>3, <3>1, ManualSyncAssumption DEF Nested, StateFits
    <3>3. bound[p] # None
      BY <1>5, <2>3, <2>6 DEF MappingMissing, ParentOf
    <3>4. Lists(k.mutations, "create", p)
      BY <2>5, <3>1, <3>2 DEF Told
    <3>5. PICK j \in 1 .. Len(k.mutations) : k.mutations[j].op = "create" /\ k.mutations[j].ext = p
      BY <3>4 DEF Lists
    <3>6. ~MappingMissing(k.mutations[j]) /\ ~Refused(k.mutations[j])
      BY <1>5, <2>3
    <3> QED
      BY <3>3, <3>5, <3>6 DEF MappingMissing, Refused
  <2>7. Len(log) \in 1 .. Len(log)
    BY <1>1
  <2>8. FitsPreviewed(got, log) /\ FitsDiff(got, disk, tree) /\ got.pc = "confirm"
    BY <1>3, <2>1, <2>2, <2>4, <2>6, <2>7 DEF FitsPreviewed, FitsDiff
  <2> HIDE DEF got
  <2>9. AgreeRun(got, disk, tree, origin, log, ack)
    BY <2>8, AgreeAt
  <2> QED
    BY <1>5, <2>9, AgreeQuiet DEF Preview
<1>6. \/ Continue(r, bad)
      \/ /\ ~stale /\ (\A m \in found : ~Refused(m)) /\ (\A m \in found : ~MappingMissing(m))
         /\ Continue(r, got)
  BY DEF Preview
<1> QED
  BY <1>4, <1>5, <1>6

(* The client's state when an apply has answered: without changes of its    *)
(* own it has a plan to perform, with changes the library has its tree.    *)
Answered(k, d, t, org, lg, after) ==
  /\ k.pc = "apply" /\ TypedPreviewed(k, Len(lg)) /\ k.state = d /\ k.base = d.cursor /\ k.to = Len(lg)
  /\ d \in StateType /\ StateFits(d, t, lg) /\ FitsDiff(k, d, t) /\ FitsPreviewed(k, lg)
  /\ Nested(t) /\ Grown(lg) /\ Maps(d.map, org) /\ Plannable(k.ops)
  /\ Len(lg) <= Len(after) /\ Len(after) = Len(lg) + Len(k.mutations)

(* A client without changes has the plan of the revisions it missed. *)
LEMMA AppliedNothing ==
  ASSUME IsFiniteSet(Node), NEW k, NEW d, NEW t, NEW org, NEW lg, Answered(k, d, t, org, lg, lg),
         k.mutations = <<>>
  PROVE  LET Q == Plan(k.ops, k.base, d.map) IN
         Listed(Q, d.map, lg) /\ (Doomed(t, org, Q) \/ Halfway(t, d.map, Q, lg))
<1>1. /\ lg \in Seq(Revision) /\ Len(lg) \in Nat /\ Len(lg) >= 1
      /\ lg[1].op = "library.create" /\ Grown(lg)
  BY DEF Answered, Grown
<1>2. /\ k.base \in 0 .. Len(lg) /\ k.ops = SubSeq(lg, k.base + 1, Len(lg)) /\ k.base = d.cursor
      /\ d \in StateType /\ k.state = d
  BY DEF Answered, FitsPreviewed
<1>3. k.base # 0
  <2>1. SUFFICES ASSUME k.base = 0 PROVE FALSE
    OBVIOUS
  <2>2. k.ops = lg
    <3>1. k.ops = UpTo(lg, Len(lg))
      BY <1>2, <2>1 DEF UpTo
    <3> QED
      BY <1>1, <3>1, UpToFacts
  <2>3. 1 \in DOMAIN k.ops /\ k.ops[1].op = "library.create"
    BY <1>1, <2>2
  <2> QED
    BY <2>3 DEF Answered, Plannable
<1>4. k.base \in 1 .. Len(lg)
  BY <1>1, <1>2, <1>3
<1>5. d.map \in MapType /\ d.known \in TreeType
  BY <1>2 DEF StateType
<1>6. Matched(d.known, d.map, UpTo(lg, k.base)) /\ Seen(t, d.map, d.known) /\ Nested(t)
  BY <1>2, <1>4 DEF Answered, StateFits
<1>7. Changes(t, d.map, d.known) = {}
  <2>1. k.mutations \in Mutations(t, d)
    BY DEF Answered, FitsDiff
  <2> QED
    BY <1>2, <1>6, <2>1, ListSays
<1>8. \A e \in Ext : d.map[e] # None => org[e] # None
  BY <1>5, ManualSyncAssumption DEF Answered, Maps, MapType
<1> DEFINE Q == Plan(k.ops, k.base, d.map)
<1>9. Q = Plan(SubSeq(lg, k.base + 1, Len(lg)), k.base, d.map)
  BY <1>2
<1> HIDE DEF Q
<1>10. Listed(Q, d.map, lg)
  BY <1>1, <1>4, <1>5, <1>9, PlanLists
<1>11. Doomed(t, org, Q) \/ Halfway(t, d.map, Q, lg)
  BY <1>1, <1>4, <1>5, <1>6, <1>7, <1>8, <1>9, HalfwayStart
<1> QED
  BY <1>10, <1>11 DEF Q

(* A client that had changes misses nothing: it has no plan. *)
LEMMA AppliedChanges ==
  ASSUME IsFiniteSet(Node), NEW k, NEW d, NEW t, NEW org, NEW lg, NEW after, Answered(k, d, t, org, lg, after),
         k.mutations # <<>>, Continues(after, lg, k.mutations),
         NEW merged, Merged(merged, d.map, after, lg, k.mutations)
  PROVE  k.ops = <<>> /\ Halfway(t, merged, {}, after)
<1>1. /\ lg \in Seq(Revision) /\ Len(lg) \in Nat /\ Len(lg) >= 1 /\ Grown(lg)
  BY DEF Answered, Grown
<1>2. /\ k.base = Len(lg) /\ k.ops = SubSeq(lg, k.base + 1, Len(lg)) /\ k.base = d.cursor
      /\ d \in StateType /\ k.state = d
      /\ \A i \in 1 .. Len(k.mutations) :
           k.mutations[i].op \in {"create", "move"} => k.mutations[i].parent # None
  BY DEF Answered, FitsPreviewed
<1>3. k.ops = <<>>
  BY <1>1, <1>2
<1>4. d.map \in MapType /\ d.known \in TreeType
  BY <1>2 DEF StateType
<1>5. UpTo(lg, Len(lg)) = lg
  BY <1>1, UpToFacts
<1>6. d.cursor > 0
  BY <1>1, <1>2
<1>7. Matched(d.known, d.map, lg) /\ Seen(t, d.map, d.known) /\ Nested(t)
  BY <1>2, <1>5, <1>6 DEF Answered, StateFits
<1>8. k.mutations \in Seq(Mutation) /\ Told(k.mutations, t, d.map, d.known)
  <2>1. k.mutations \in Mutations(t, d)
    BY DEF Answered, FitsDiff
  <2> QED
    BY <1>2, <1>7, <2>1, ListSays
<1>9. Halfway(t, merged, {}, after)
  BY <1>1, <1>2, <1>4, <1>7, <1>8, HalfwayApplied
<1> QED
  BY <1>3, <1>9

(* The server has taken the changes, or refused, and the client has its     *)
(* plan.                                                                    *)
LEMMA AgreeApply ==
  ASSUME IsFiniteSet(Node), Typed, EchoInv, AgreeInv, OneRun, NEW r \in Run, Apply(r)
  PROVE  AgreeInv'
<1> DEFINE k     == run[r]
           after == AfterApply(k.mutations)
           Own(i, e) == k.mutations[i].op = "create" /\ k.mutations[i].ext = e
           merged == [e \in Ext |-> IF \E i \in DOMAIN k.mutations : Own(i, e)
                                    THEN after[Len(log) + CHOOSE i \in DOMAIN k.mutations : Own(i, e)].node
                                    ELSE k.state.map[e]]
           new   == [pc |-> "local", state |-> k.state, clock |-> Len(after), map |-> merged,
                     plan |-> Plan(k.ops, k.base, merged), made |-> [e \in Ext |-> None]]
<1>1. /\ k.pc = "apply" /\ k # None /\ k.state = disk /\ k.base = disk.cursor /\ Len(log) = k.to
      /\ disk \in StateType /\ log \in Seq(Revision) /\ Len(log) \in Nat /\ Len(log) >= 1 /\ bound \in MapType
      /\ TypedPreviewed(k, Len(log)) /\ k.mutations \in Seq(Mutation) /\ Len(k.mutations) \in Nat
      /\ Maps(disk.map, origin) /\ ack \in Nat \cup {None}
  <2>1. k.pc = "apply" /\ k # None /\ Len(log) = k.to
    BY DEF Apply, At
  <2>2. TypedPreviewed(k, Len(log))
    BY <2>1, RunIsTyped
  <2>3. k.state = disk /\ k.base = disk.cursor /\ Maps(disk.map, origin)
    BY <2>1 DEF EchoInv, EchoRun, EchoLoaded
  <2>4. /\ disk \in StateType /\ log \in Seq(Revision) /\ Len(log) \in Nat /\ Len(log) >= 1 /\ bound \in MapType
        /\ ack \in Nat \cup {None}
    BY DEF Typed
  <2>5. k.mutations \in Seq(Mutation) /\ Len(k.mutations) \in Nat
    BY <2>2 DEF TypedPreviewed
  <2> QED
    BY <2>1, <2>2, <2>3, <2>4, <2>5
<1>2. /\ UNCHANGED <<ack, tree, disk, origin, steady>> /\ log' = after /\ Len(after) \in Len(log) .. MaxClock
      /\ Continue(r, IF Plannable(k.ops) THEN new ELSE [pc |-> "thrown"])
  BY DEF Apply
<1>3. SUFFICES ASSUME steady PROVE AgreeInv'
  BY <1>2 DEF AgreeInv
<1>4. /\ Nested(tree) /\ Grown(log) /\ (ack = None \/ ack <= Len(log)) /\ StateFits(disk, tree, log)
      /\ FitsDiff(k, disk, tree) /\ FitsPreviewed(k, log)
  BY <1>1, <1>3 DEF AgreeInv, AgreeRun
<1>5. /\ after # <<>> /\ Grown(after) /\ Len(after) = Len(log) + Len(k.mutations)
      /\ \A i \in 1 .. Len(log) : after[i] = log[i]
      /\ \A j \in 1 .. Len(k.mutations) : Entry(after[Len(log) + j], k.mutations[j])
  <2>1. Len(after) \in Len(log) .. MaxClock
    BY <1>2
  <2> HIDE DEF after
  <2>2. after # <<>>
    BY <1>1, <2>1, ManualSyncAssumption
  <2> USE DEF after
  <2>3. Grown(after) /\ Len(after) = Len(log) + Len(k.mutations)
    BY <1>1, <1>4, <2>2, Replayed
  <2>4. \A i \in 1 .. Len(log) : after[i] = log[i]
    BY <1>1, <1>4, <2>2, Replayed
  <2>5. \A j \in 1 .. Len(k.mutations) : Entry(after[Len(log) + j], k.mutations[j])
    BY <1>1, <1>4, <2>2, Replayed
  <2> QED
    BY <2>2, <2>3, <2>4, <2>5
<1> HIDE DEF after
<1>6. Extends(after, log) /\ Len(log) <= Len(after) /\ Len(after) \in Nat
  BY <1>1, <1>5 DEF Extends, Grown
<1>7. StateFits(disk, tree, after)
  BY <1>4, <1>6, AgreeGrows
<1>8. ack = None \/ ack <= Len(after)
  BY <1>1, <1>4, <1>6
<1>9. ASSUME NEW q, Continue(r, q), AgreeRun(q, disk, tree, origin, after, ack)
      PROVE  AgreeInv'
  <2>1. \A p \in Run : run'[p] = q
    BY <1>9, OnlyRun
  <2>2. /\ log' = after /\ ack' = ack /\ tree' = tree /\ disk' = disk /\ origin' = origin
    BY <1>2
  <2> QED
    BY <1>4, <1>5, <1>7, <1>8, <1>9, <2>1, <2>2 DEF AgreeInv
<1>10. CASE ~Plannable(k.ops)
  <2>1. AgreeRun([pc |-> "thrown"], disk, tree, origin, after, ack)
    BY AgreeAt
  <2> QED
    BY <1>2, <1>9, <1>10, <2>1
<1>11. CASE Plannable(k.ops)
  <2>1. Answered(k, disk, tree, origin, log, after)
    BY <1>1, <1>4, <1>5, <1>6, <1>11 DEF Answered
  <2>2. \A e \in Ext : Holds(new)[e] = merged[e]
    BY DEF Holds
  <2>3. Holds(new) = merged
    BY <2>2 DEF Holds
  <2>4. UpTo(after, Len(after)) = after /\ Len(after) \in 1 .. Len(after)
    <3>1. after \in Seq(Revision) /\ Len(after) \in 0 .. Len(after)
      BY <1>5, <1>6 DEF Grown
    <3>2. UpTo(after, Len(after)) = after
      BY <3>1, UpToFacts
    <3> QED
      BY <1>1, <1>6, <3>2
  <2>5. /\ new.plan # {} => merged = disk.map
        /\ Listed(new.plan, merged, after)
        /\ Doomed(tree, origin, new.plan) \/ Halfway(tree, merged, new.plan, after)
    <3>1. CASE k.mutations = <<>>
      <4>1. merged = disk.map
        BY <1>1, <3>1 DEF StateType, MapType
      <4>2. after = log
        <5>1. Len(log) = Len(after) /\ after \in Seq(Revision) /\ log \in Seq(Revision)
          BY <1>1, <1>5, <3>1 DEF Grown
        <5>2. \A i \in 1 .. Len(log) : log[i] = after[i]
          BY <1>6 DEF Extends
        <5> QED
          BY <5>1, <5>2
      <4>3. Answered(k, disk, tree, origin, log, log)
        BY <2>1, <4>2
      <4>4. LET Q == Plan(k.ops, k.base, disk.map) IN
            Listed(Q, disk.map, log) /\ (Doomed(tree, origin, Q) \/ Halfway(tree, disk.map, Q, log))
        BY <3>1, <4>3, AppliedNothing
      <4> QED
        BY <4>1, <4>2, <4>4
    <3>2. CASE k.mutations # <<>>
      <4>1. Continues(after, log, k.mutations)
        <5>1. \A j \in 1 .. Len(k.mutations) :
                k.mutations[j].op \in {"create", "move"} => ParentOf(k.mutations[j]) = k.mutations[j].parent
          BY <1>1, <1>4, <3>2 DEF FitsPreviewed, ParentOf
        <5>2. \A j \in 1 .. Len(k.mutations) : Entry(after[Len(log) + j], k.mutations[j])
          BY <1>5
        <5> QED
          BY <1>5, <5>1, <5>2 DEF Continues, Entry
      <4>2. Merged(merged, disk.map, after, log, k.mutations)
        <5>1. DOMAIN k.mutations = 1 .. Len(k.mutations) /\ \A i \in 1 .. Len(k.mutations) : k.mutations[i].ext \in Ext
          BY <1>1 DEF Mutation
        <5>2. ASSUME NEW i \in 1 .. Len(k.mutations), k.mutations[i].op = "create"
              PROVE  merged[k.mutations[i].ext] = after[Len(log) + i].node
          <6> DEFINE e == k.mutations[i].ext
                     j == CHOOSE x \in DOMAIN k.mutations : Own(x, e)
          <6>1. Own(i, e) /\ i \in DOMAIN k.mutations /\ e \in Ext
            BY <5>1, <5>2
          <6> HIDE DEF e
          <6>2. Own(j, e) /\ j \in DOMAIN k.mutations
            BY <6>1
          <6>3. merged[e] = after[Len(log) + j].node
            BY <6>1
          <6> HIDE DEF j
          <6>4. i = j
            <7>1. \A x, y \in 1 .. Len(k.mutations) :
                    k.mutations[x].op = "create" /\ k.mutations[y].op = "create"
                    /\ k.mutations[x].ext = k.mutations[y].ext => x = y
              <8>1. k.mutations \in Mutations(tree, disk)
                BY <1>1, <1>4 DEF FitsDiff
              <8>2. Told(k.mutations, tree, disk.map, disk.known)
                BY <1>1, <1>4, <8>1, ListSays
              <8> QED
                BY <8>2 DEF Told
            <7> QED
              BY <5>1, <6>1, <6>2, <7>1
          <6> QED
            BY <6>3, <6>4 DEF e
        <5>3. ASSUME NEW e \in Ext, ~Lists(k.mutations, "create", e) PROVE merged[e] = disk.map[e]
          BY <1>1, <5>1, <5>3 DEF Lists
        <5> QED
          BY <5>2, <5>3 DEF Merged
      <4> HIDE DEF merged
      <4>3. k.ops = <<>> /\ Halfway(tree, merged, {}, after)
        BY <2>1, <3>2, <4>1, <4>2, AppliedChanges
      <4>4. new.plan = {}
        BY <4>3 DEF Plan
      <4>5. Listed({}, merged, after)
        BY DEF Listed
      <4> QED
        BY <4>3, <4>4, <4>5
    <3> QED
      BY <3>1, <3>2
  <2>6. \A e \in Ext : new.made[e] = None
    OBVIOUS
  <2>7. /\ new.pc = "local" /\ new.clock = Len(after) /\ new.map = merged /\ new.state = disk
    BY <1>1
  <2> HIDE DEF new, merged
  <2>8. FitsPerforming(new, tree, origin, after, ack)
    BY <1>8, <2>3, <2>4, <2>5, <2>6, <2>7 DEF FitsPerforming
  <2>9. AgreeRun(new, disk, tree, origin, after, ack)
    BY <2>7, <2>8, AgreeAt
  <2> QED
    BY <1>2, <1>9, <1>11, <2>9
<1> QED
  BY <1>10, <1>11

(* A step of a plan, whatever it does: the bookmarks that come with it are   *)
(* new to every map, and the plan goes on.                                 *)
LEMMA AgreePerforms ==
  ASSUME Typed, EchoInv, AgreeInv, OneRun, steady, NEW r \in Run, LocalStep(r),
         NEW o \in run[r].plan, IsFirst(o, run[r].plan),
         NEW made, \A e \in Ext : made[e] # None => run[r].map[e] = None,
         NEW new, new = [pc |-> run[r].pc, state |-> run[r].state, clock |-> run[r].clock, map |-> run[r].map,
                         plan |-> run[r].plan \ {o}, made |-> made],
         Continue(r, new), Nested(tree'),
         \A e \in There(tree') : e \in There(tree) \/ origin[e] = None,
         \/ Doomed(tree', origin', new.plan)
         \/ Halfway(tree', Holds(new), new.plan, UpTo(log, run[r].clock))
  PROVE  AgreeInv'
<1> DEFINE k == run[r]
<1>1. /\ k.pc = "local" /\ k # None /\ k.map \in MapType /\ k.clock \in Nat
      /\ ack \in Nat \cup {None} /\ log \in Seq(Revision)
  BY RunIsTyped DEF LocalStep, At, Typed, TypedPerforming
<1>2. UNCHANGED <<log, ack, disk, steady>>
  BY DEF LocalStep
<1>3. /\ Nested(tree) /\ Grown(log) /\ (ack = None \/ ack <= Len(log)) /\ StateFits(disk, tree, log)
      /\ FitsPerforming(k, tree, origin, log, ack)
  BY <1>1 DEF AgreeInv, AgreeRun
<1>4. k.clock \in 1 .. Len(log) /\ (ack = None \/ ack <= k.clock) /\ (k.plan # {} => k.map = k.state.map)
      /\ Listed(k.plan, k.map, UpTo(log, k.clock))
  BY <1>1, <1>3 DEF FitsPerforming
<1>5. Grown(UpTo(log, k.clock))
  BY <1>3, <1>4, GrownUpTo
<1>6. Listed(new.plan, k.map, UpTo(log, k.clock))
  <2>1. Listed(k.plan \ {o}, k.map, UpTo(log, k.clock))
    BY <1>1, <1>4, <1>5, ListedShrinks
  <2> QED
    BY <2>1
<1>7. /\ new.pc = "local" /\ new.clock = k.clock /\ new.map = k.map /\ new.state = k.state /\ new.made = made
      /\ new.plan # {} => k.plan # {}
  BY <1>1
<1>8. FitsPerforming(new, tree', origin', log, ack)
  BY <1>4, <1>6, <1>7 DEF FitsPerforming
<1>9. AgreeRun(new, disk, tree', origin', log, ack)
  BY <1>7, <1>8, AgreeAt
<1>10. StateFits(disk, tree', log)
  <2>1. Maps(disk.map, origin) /\ Seen(tree, disk.map, disk.known)
    BY <1>3 DEF EchoInv, StateFits
  <2>2. \A e \in There(tree') : disk.map[e] # None => e \in There(tree)
    BY <2>1, ManualSyncAssumption DEF Maps, There
  <2>3. Seen(tree', disk.map, disk.known)
    BY <2>1, <2>2 DEF Seen
  <2> QED
    BY <1>3, <2>3 DEF StateFits
<1>11. \A q \in Run : run'[q] = new
  BY OnlyRun
<1>12. /\ log' = log /\ ack' = ack /\ disk' = disk
  BY <1>2
<1>13. \A q \in Run : run'[q] # None => AgreeRun(run'[q], disk, tree', origin', log, ack)
  BY <1>9, <1>11
<1> QED
  BY <1>3, <1>10, <1>12, <1>13 DEF AgreeInv

(* What is known of a plan that is under way, and of the operation o of it.  *)
Performs(k, o) ==
  /\ k.pc = "local" /\ TypedPerforming(k, Len(log)) /\ o \in k.plan /\ o \in PlanOp(Len(log))
  /\ Nested(tree) /\ k.clock \in 1 .. Len(log) /\ Grown(UpTo(log, k.clock))
  /\ Listed(k.plan, k.map, UpTo(log, k.clock)) /\ k.map \in MapType /\ Holds(k) \in MapType
  /\ \A e \in Ext : k.made[e] # None => k.map[e] = None
  /\ Maps(k.map, origin) /\ \A e \in Ext : k.made[e] # None => origin[e] = k.made[e]
  /\ \A q \in k.plan : q.ext \in Ext \cup {None}
  /\ o.phase # 1 /\ o.ext # None => o.ext # Bar
  /\ \/ Doomed(tree, origin, k.plan)
     \/ UnderWay(o, k.plan, k.map, tree, Holds(k), UpTo(log, k.clock))

LEMMA PerformsFacts ==
  ASSUME Typed, EchoInv, AgreeInv, steady, NEW r \in Run, LocalStep(r),
         NEW o \in run[r].plan, IsFirst(o, run[r].plan)
  PROVE  Performs(run[r], o)
<1> DEFINE k == run[r]
<1>1. k.pc = "local" /\ k # None /\ TypedPerforming(k, Len(log)) /\ k.state = disk
  BY RunIsTyped DEF LocalStep, At, EchoInv, EchoRun, EchoLoaded
<1>2. /\ Nested(tree) /\ Grown(log) /\ StateFits(disk, tree, log)
      /\ k.clock \in 1 .. Len(log) /\ (k.plan # {} => k.map = k.state.map)
      /\ \A e \in Ext : k.made[e] # None => k.map[e] = None
      /\ Listed(k.plan, k.map, UpTo(log, k.clock))
      /\ Doomed(tree, origin, k.plan) \/ Halfway(tree, Holds(k), k.plan, UpTo(log, k.clock))
  BY <1>1 DEF AgreeInv, AgreeRun, FitsPerforming
<1>3. /\ Maps(k.map, origin) /\ \A e \in Ext : k.made[e] # None => origin[e] = k.made[e]
  BY <1>1 DEF EchoInv, EchoRun, EchoPerforming
<1>4. k.map \in MapType /\ k.made \in MapType /\ k.plan \subseteq PlanOp(Len(log)) /\ Holds(k) \in MapType
  BY <1>1 DEF TypedPerforming, MapType, Holds
<1>5. /\ o \in PlanOp(Len(log)) /\ \A q \in k.plan : q.ext \in Ext \cup {None}
  BY <1>4 DEF PlanOp
<1>6. Grown(UpTo(log, k.clock))
  BY <1>2, GrownUpTo
<1>7. k.map[Bar] = Root
  BY <1>1, <1>2 DEF StateFits
<1>8. o.phase # 1 /\ o.ext # None => o.ext # Bar
  <2>1. (o.phase # 1 => o.node # Root) /\ (o.ext # None => k.map[o.ext] = o.node)
    BY <1>2, <1>4, <1>6, PlanOpFacts
  <2> QED
    BY <1>7, <2>1
<1>9. \A q \in k.plan : q.clock = o.clock => q = o
  <2>1. SUFFICES ASSUME NEW q \in k.plan, q.clock = o.clock PROVE q = o
    OBVIOUS
  <2>2. q.node = o.node /\ q.phase = o.phase /\ q.title = o.title /\ q.ext = o.ext /\ q.parent = o.parent
    BY <1>2, <2>1 DEF Listed
  <2>3. q \in PlanOp(Len(log)) /\ o \in PlanOp(Len(log))
    BY <1>4
  <2> QED
    BY <2>1, <2>2, <2>3 DEF PlanOp
<1>10. \A e \in Ext : k.map[e] # None => Holds(k)[e] = k.map[e]
  BY <1>2 DEF Holds
<1>11. Halfway(tree, Holds(k), k.plan, UpTo(log, k.clock)) =>
         UnderWay(o, k.plan, k.map, tree, Holds(k), UpTo(log, k.clock))
  BY <1>2, <1>4, <1>6, <1>9, <1>10 DEF UnderWay
<1> QED
  BY <1>1, <1>2, <1>3, <1>4, <1>5, <1>6, <1>8, <1>11 DEF Performs

(* A bookmark that the plan creates. *)
LocalCreate(r, o, e) ==
  /\ o.phase = 1 /\ o.parent # None /\ tree[o.parent] # None
  /\ e \in Ext /\ Fresh(e)
  /\ tree' = [tree EXCEPT ![e] = [parent |-> o.parent, title |-> o.title]]
  /\ origin' = [origin EXCEPT ![e] = o.node]
  /\ Continue(r, [[run[r] EXCEPT !.plan = @ \ {o}] EXCEPT !.made[e] = o.node])

LEMMA AgreeLocalCreate ==
  ASSUME Typed, EchoInv, AgreeInv, OneRun, steady, NEW r \in Run, LocalStep(r),
         NEW o \in run[r].plan, IsFirst(o, run[r].plan), NEW e, LocalCreate(r, o, e)
  PROVE  AgreeInv'
<1> DEFINE k    == run[r]
           made == [k.made EXCEPT ![e] = o.node]
           new  == [pc |-> k.pc, state |-> k.state, clock |-> k.clock, map |-> k.map,
                    plan |-> k.plan \ {o}, made |-> made]
<1>1. Performs(k, o)
  BY PerformsFacts
<1>0. /\ o.phase = 1 /\ o.parent # None /\ tree[o.parent] # None /\ e \in Ext /\ Fresh(e)
      /\ tree' = [tree EXCEPT ![e] = [parent |-> o.parent, title |-> o.title]]
      /\ origin' = [origin EXCEPT ![e] = o.node]
  BY DEF LocalCreate
<1>2. /\ k = [pc |-> k.pc, state |-> k.state, clock |-> k.clock, map |-> k.map,
              plan |-> k.plan, made |-> k.made]
      /\ k.made \in [Ext -> Node \cup {None}] /\ k.map \in [Ext -> Node \cup {None}]
      /\ o.node \in Node /\ o.title \in Title /\ o.parent \in Ext
  BY <1>0, <1>1 DEF Performs, TypedPerforming, PlanOp, MapType
<1>3. /\ origin \in [Ext -> Node \cup {None, "user"}] /\ origin[e] = None /\ tree[e] = None
      /\ None \notin Node /\ o.node # None
  BY <1>0, <1>2, ManualSyncAssumption DEF Typed, EchoInv, Fresh, There
<1>4. Continue(r, new)
  <2> DEFINE less == [k EXCEPT !.plan = @ \ {o}]
  <2>1. less = [pc |-> k.pc, state |-> k.state, clock |-> k.clock, map |-> k.map,
                plan |-> k.plan \ {o}, made |-> k.made]
    BY <1>2, PlanShrinks
  <2> HIDE DEF less
  <2>2. [less EXCEPT !.made[e] = o.node] = new
    BY <2>1
  <2> QED
    BY <2>2 DEF less, LocalCreate
<1>5. k.map[e] = None /\ k.made[e] = None
  <2>1. k.map[e] = None
    BY <1>0, <1>1, <1>3, ManualSyncAssumption DEF Performs, Maps
  <2>2. k.made[e] = None
    BY <1>0, <1>1, <1>3 DEF Performs
  <2> QED
    BY <2>1, <2>2
<1>6. \A d \in Ext : made[d] # None => k.map[d] = None
  BY <1>0, <1>1, <1>2, <1>5 DEF Performs
<1>7. Nested(tree') /\ There(tree') = There(tree) \cup {e}
  <2>1. Created(tree, e, o.parent, o.title, tree')
    BY <1>0, <1>2, <1>3 DEF Created, There
  <2>2. Nested(tree)
    BY <1>1 DEF Performs
  <2> QED
    BY <2>1, <2>2, NestedCreate, Zenon
<1>8. \A d \in There(tree') : d \in There(tree) \/ origin[d] = None
  BY <1>3, <1>7
<1>9. CASE Doomed(tree, origin, k.plan)
  <2>1. \A d \in Ext : tree[d] = None /\ origin[d] # None => tree'[d] = None /\ origin'[d] # None
    <3>1. tree \in [Ext -> Leaf \cup {None}]
      BY DEF Typed, Rooted, TreeType
    <3> QED
      BY <1>0, <1>3, <3>1
  <2>2. \A q \in k.plan : q.ext \in Ext \cup {None}
    BY <1>1 DEF Performs
  <2>3. o.phase = 1
    BY <1>0
  <2>4. Doomed(tree', origin', k.plan \ {o})
    BY <1>9, <2>1, <2>2, <2>3, DoomedStays, Zenon
  <2>5. Doomed(tree', origin', new.plan)
    BY <2>4
  <2> HIDE DEF new
  <2>6. new = [pc |-> k.pc, state |-> k.state, clock |-> k.clock, map |-> k.map,
                    plan |-> k.plan \ {o}, made |-> made]
    BY DEF new
  <2> HIDE DEF made
  <2> QED
    BY <1>4, <1>6, <1>7, <1>8, <2>5, <2>6, AgreePerforms
<1>10. CASE UnderWay(o, k.plan, k.map, tree, Holds(k), UpTo(log, k.clock))
  <2>1. Holds(new) = [Holds(k) EXCEPT ![e] = o.node]
    <3>1. new.made = made /\ new.map = k.map
      OBVIOUS
    <3> HIDE DEF new
    <3>2. \A d \in Ext : Holds(new)[d] = IF d = e THEN o.node ELSE Holds(k)[d]
      BY <1>0, <1>2, <1>3, <3>1 DEF Holds
    <3>3. Holds(new) = [d \in Ext |-> Holds(new)[d]] /\ Holds(k) = [d \in Ext |-> Holds(k)[d]]
      BY DEF Holds
    <3> QED
      BY <3>2, <3>3
  <2>2. Holds(k)[e] = None
    BY <1>0, <1>5 DEF Holds
  <2>3. Creates(o, e, tree, Holds(k), tree', Holds(new))
    BY <1>0, <2>1, <2>2 DEF Creates
  <2> HIDE DEF new
  <2>4. Halfway(tree', Holds(new), k.plan \ {o}, UpTo(log, k.clock))
    BY <1>10, <2>3, HalfwayCreate, Zenon
  <2>5. new = [pc |-> k.pc, state |-> k.state, clock |-> k.clock, map |-> k.map,
                    plan |-> k.plan \ {o}, made |-> made]
    BY DEF new
  <2>6. Halfway(tree', Holds(new), new.plan, UpTo(log, k.clock))
    BY <2>4, <2>5
  <2> HIDE DEF made
  <2> QED
    BY <1>4, <1>6, <1>7, <1>8, <2>5, <2>6, AgreePerforms
<1> QED
  BY <1>1, <1>9, <1>10 DEF Performs

(* A bookmark that the plan changes, or deletes. *)
LEMMA AgreeLocalOther ==
  ASSUME IsFiniteSet(Node), Typed, EchoInv, AgreeInv, OneRun, steady, NEW r \in Run, LocalStep(r),
         NEW o \in run[r].plan, IsFirst(o, run[r].plan),
         Alters(o, tree, tree') \/ Deletes(o, tree, tree'), UNCHANGED origin,
         Continue(r, [run[r] EXCEPT !.plan = @ \ {o}])
  PROVE  AgreeInv'
<1> DEFINE k   == run[r]
           new == [pc |-> k.pc, state |-> k.state, clock |-> k.clock, map |-> k.map,
                   plan |-> k.plan \ {o}, made |-> k.made]
<1>1. Performs(k, o)
  BY PerformsFacts
<1>2. /\ k = [pc |-> k.pc, state |-> k.state, clock |-> k.clock, map |-> k.map,
              plan |-> k.plan, made |-> k.made]
      /\ o.title \in Title /\ o.parent \in Ext \cup {None} /\ o.ext \in Ext \cup {None}
      /\ \A d \in Ext : k.made[d] # None => k.map[d] = None
  BY <1>1 DEF Performs, TypedPerforming, PlanOp
<1>3. Continue(r, new)
  BY <1>2, PlanShrinks
<1>4. o.phase \in 2 .. 4 /\ o.ext # None /\ tree[o.ext] # None /\ o.ext \in There(tree) \ {Bar}
  <2>1. o.phase \in 2 .. 4 /\ o.ext # None /\ tree[o.ext] # None
    BY DEF Alters, Deletes
  <2>2. o.ext # Bar /\ o.ext \in Ext
    BY <1>1, <1>2, <2>1 DEF Performs
  <2> QED
    BY <2>1, <2>2 DEF There
<1>5. Nested(tree') /\ There(tree') \subseteq There(tree)
  <2>0. Nested(tree)
    BY <1>1 DEF Performs
  <2> DEFINE x == o.ext
  <2>1. CASE o.phase = 2 /\ tree' = [tree EXCEPT ![x].title = o.title]
    <3> HIDE DEF x
    <3>1. x \in There(tree) \ {Bar} /\ o.title \in Title
      BY <1>2, <1>4 DEF x
    <3> QED
      <4>1. Titled(tree, x, o.title, tree')
        BY <2>1, <3>1 DEF Titled
      <4> QED
        BY <2>0, <4>1, NestedTitle
  <2>2. CASE o.phase = 3 /\ o.parent \in There(tree) /\ tree' = [tree EXCEPT ![x].parent = o.parent]
    <3> HIDE DEF x
    <3>1. x \in There(tree) \ {Bar}
      BY <1>4 DEF x
    <3> QED
      <4>1. Moved(tree, x, o.parent, tree')
        BY <2>2, <3>1 DEF Moved
      <4> QED
        BY <2>0, <4>1, NestedMove
  <2>3. CASE tree' = [d \in Ext |-> IF d \in Subtree(tree, x) THEN None ELSE tree[d]]
    BY <1>4, <2>0, <2>3, NestedWithout
  <2> QED
    BY <1>2, <2>1, <2>2, <2>3 DEF Alters, Deletes, There
<1>6. \A d \in There(tree') : d \in There(tree) \/ origin[d] = None
  BY <1>5
<1>7. new.plan = k.plan \ {o} /\ Holds(new) = Holds(k)
  BY DEF Holds
<1>8. Doomed(tree', origin', new.plan) \/ Halfway(tree', Holds(new), new.plan, UpTo(log, k.clock))
  <2>1. CASE Doomed(tree, origin, k.plan)
    <3>1. \A d \in Ext : tree[d] = None /\ origin[d] # None => tree'[d] = None /\ origin'[d] # None
      BY <1>5 DEF There
    <3>2. \A q \in k.plan : q.ext \in Ext \cup {None}
      BY <1>1 DEF Performs
    <3>3. PICK q \in k.plan : q.phase > 1 /\ (q.ext = None \/ (tree[q.ext] = None /\ origin[q.ext] # None))
      BY <2>1 DEF Doomed
    <3>4. q \in k.plan \ {o}
      BY <1>4, <3>3
    <3>5. q.ext = None \/ (tree'[q.ext] = None /\ origin'[q.ext] # None)
      BY <3>1, <3>2, <3>3
    <3>6. Doomed(tree', origin', k.plan \ {o})
      BY <3>3, <3>4, <3>5 DEF Doomed
    <3> QED
      BY <1>7, <3>6
  <2>2. CASE UnderWay(o, k.plan, k.map, tree, Holds(k), UpTo(log, k.clock))
    <3>1. Halfway(tree', Holds(k), k.plan \ {o}, UpTo(log, k.clock))
      BY <2>2, HalfwayChange, HalfwayDelete, Zenon
    <3> QED
      BY <1>7, <3>1
  <2> QED
    BY <1>1, <2>1, <2>2 DEF Performs
<1> HIDE DEF new
<1>9. new = [pc |-> k.pc, state |-> k.state, clock |-> k.clock, map |-> k.map,
             plan |-> k.plan \ {o}, made |-> k.made]
  BY DEF new
<1> QED
  BY <1>2, <1>3, <1>5, <1>6, <1>8, <1>9, AgreePerforms

(* A step of the plan, or its end. *)
LEMMA AgreeLocalStep ==
  ASSUME IsFiniteSet(Node), Typed, EchoInv, AgreeInv, OneRun, NEW r \in Run, LocalStep(r)
  PROVE  AgreeInv'
<1>1. SUFFICES ASSUME steady PROVE AgreeInv'
  BY DEF LocalStep, AgreeInv
<1>2. PICK o \in run[r].plan :
        /\ IsFirst(o, run[r].plan)
        /\ \/ /\ o.phase = 1 /\ o.parent # None /\ tree[o.parent] # None
              /\ \E e \in Ext :
                   /\ Fresh(e)
                   /\ tree' = [tree EXCEPT ![e] = [parent |-> o.parent, title |-> o.title]]
                   /\ origin' = [origin EXCEPT ![e] = o.node]
                   /\ Continue(r, [[run[r] EXCEPT !.plan = @ \ {o}] EXCEPT !.made[e] = o.node])
           \/ /\ o.phase = 2 /\ o.ext # None /\ tree[o.ext] # None
              /\ tree' = [tree EXCEPT ![o.ext].title = o.title]
              /\ Continue(r, [run[r] EXCEPT !.plan = @ \ {o}]) /\ UNCHANGED origin
           \/ /\ o.phase = 3 /\ o.ext # None /\ tree[o.ext] # None /\ o.parent # None /\ tree[o.parent] # None
              /\ tree' = [tree EXCEPT ![o.ext].parent = o.parent]
              /\ Continue(r, [run[r] EXCEPT !.plan = @ \ {o}]) /\ UNCHANGED origin
           \/ /\ o.phase = 4 /\ o.ext # None /\ tree[o.ext] # None
              /\ tree' = [e \in Ext |-> IF e \in Subtree(tree, o.ext) THEN None ELSE tree[e]]
              /\ Continue(r, [run[r] EXCEPT !.plan = @ \ {o}]) /\ UNCHANGED origin
  BY DEF LocalStep
<1>3. CASE \E e \in Ext : LocalCreate(r, o, e)
  BY <1>1, <1>2, <1>3, AgreeLocalCreate
<1>4. ASSUME Alters(o, tree, tree') \/ Deletes(o, tree, tree'), UNCHANGED origin,
             Continue(r, [run[r] EXCEPT !.plan = @ \ {o}])
      PROVE  AgreeInv'
  BY <1>1, <1>2, <1>4, AgreeLocalOther
<1>5. CASE /\ o.phase = 2 /\ o.ext # None /\ tree[o.ext] # None
           /\ tree' = [tree EXCEPT ![o.ext].title = o.title]
           /\ Continue(r, [run[r] EXCEPT !.plan = @ \ {o}]) /\ UNCHANGED origin
  <2>1. Alters(o, tree, tree')
    BY <1>5 DEF Alters
  <2> QED
    BY <1>4, <1>5, <2>1
<1>6. CASE /\ o.phase = 3 /\ o.ext # None /\ tree[o.ext] # None /\ o.parent # None /\ tree[o.parent] # None
           /\ tree' = [tree EXCEPT ![o.ext].parent = o.parent]
           /\ Continue(r, [run[r] EXCEPT !.plan = @ \ {o}]) /\ UNCHANGED origin
  <2>1. Alters(o, tree, tree')
    BY <1>6 DEF Alters
  <2> QED
    BY <1>4, <1>6, <2>1
<1>7. CASE /\ o.phase = 4 /\ o.ext # None /\ tree[o.ext] # None
           /\ tree' = [e \in Ext |-> IF e \in Subtree(tree, o.ext) THEN None ELSE tree[e]]
           /\ Continue(r, [run[r] EXCEPT !.plan = @ \ {o}]) /\ UNCHANGED origin
  <2>1. Deletes(o, tree, tree')
    BY <1>7 DEF Deletes
  <2> QED
    BY <1>4, <1>7, <2>1
<1> QED
  BY <1>2, <1>3, <1>5, <1>6, <1>7 DEF LocalCreate

(* Every step keeps what the runs rely on. *)
LEMMA AgreeNext ==
  ASSUME OneRun, "node.restore" \notin DashboardOps, OpsLimit >= MaxClock, IsFiniteSet(Node),
         Typed, EchoInv, AgreeInv, [Next]_vars
  PROVE  AgreeInv'
<1>1. CASE UNCHANGED vars
  BY <1>1 DEF vars, AgreeInv
<1>2. ASSUME NEW r \in Run, Abort(r) PROVE AgreeInv'
  BY <1>2, AgreeQuiet DEF Abort
<1> QED
  BY <1>1, <1>2, AgreeDashboard, AgreeUserEdit, AgreeBegin, AgreeReadTree, AgreePreview, AgreeConfirm,
     AgreeApply, AgreeLocalStep, AgreeRecover, AgreeReload, AgreeAck, AgreeSave DEF Next

(* Where a run is about to store "synced", that is what was asked. *)
LEMMA AgreeImplies ==
  ASSUME AgreeInv
  PROVE  SyncedTreesAgree
<1>1. SUFFICES ASSUME NEW r \in Run, At(r, "save"), run[r].state.status = "synced", steady
               PROVE  Agrees(run[r].state.known, run[r].state.map, SubSeq(log, 1, run[r].clock))
  BY DEF SyncedTreesAgree
<1> DEFINE k == run[r]
<1>2. Grown(log) /\ StateFits(k.state, tree, log) /\ k.clock \in 1 .. Len(log) /\ k.state.cursor = k.clock
  BY <1>1 DEF AgreeInv, AgreeRun, FitsEnding, At
<1>3. k.state.cursor > 0
  BY <1>2 DEF Grown
<1> QED
  BY <1>2, <1>3 DEF StateFits, Matched, UpTo

(* A run that ends "synced" leaves the browser with the tree that the       *)
(* library had at the clock the run acknowledged, for every library, every *)
(* browser and every history of failed runs, where one run is under way at *)
(* a time, the cursor is stored, nothing is restored and no preview is cut *)
(* off by OpsLimit.                                                        *)
THEOREM SerialRunsAgree ==
  ASSUME OneRun, FirstCursor # None, "node.restore" \notin DashboardOps, OpsLimit >= MaxClock,
         IsFiniteSet(Node)
  PROVE  Spec => []SyncedTreesAgree
<1>1. Init => Typed /\ EchoInv /\ AgreeInv
  BY TypedInit, EchoInit, AgreeInit
<1>2. Typed /\ EchoInv /\ AgreeInv /\ [Next]_vars => (Typed /\ EchoInv /\ AgreeInv)'
  BY TypedNext, EchoNext, AgreeNext
<1>3. AgreeInv => SyncedTreesAgree
  BY AgreeImplies
<1> QED
  BY <1>1, <1>2, <1>3, PTL DEF Spec

=============================================================================
