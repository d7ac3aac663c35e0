------------------------ MODULE LibraryReaders_proofs -------------------------
(* Readers miss nothing, for every choice of the constants. *)
EXTENDS LibraryReaders, BookmarkLibrary_proofs, FiniteSetTheorems

(* The revisions of l after one clock and up to another. *)
Between(l, from, to) == {r \in LogOf(revisions, l) : from < r.clock /\ r.clock <= to}

LEMMA CountBetween ==
  ASSUME revisions \in SUBSET Revision, NEW l \in Library, NEW h \in Nat,
         Numbered(revisions, l, 0, h),
         NEW from \in Nat, NEW to \in Nat, from <= to, to <= h
  PROVE  Cardinality(Between(l, from, to)) = to - from
<1> DEFINE Q == Between(l, from, to)
<1> DEFINE at == [k \in from + 1 .. to |-> CHOOSE q \in Q : q.clock = k]
<1>1. \A r \in revisions : r.clock \in Nat
  BY DEF Revision
<1>2. \A k \in from + 1 .. to : \E q \in Q : q.clock = k
  BY <1>1 DEF Numbered, Between, LogOf
<1>3. \A k \in from + 1 .. to : at[k] \in Q /\ at[k].clock = k
  BY <1>2
<1>4. \A q \in Q : q.clock \in from + 1 .. to /\ at[q.clock] = q
  <2>1. \A q \in Q : q.clock \in from + 1 .. to
    BY <1>1 DEF Between, LogOf
  <2>2. \A p, q \in Q : p.clock = q.clock => p = q
    BY DEF Numbered, Between, LogOf
  <2>3. QED
    BY <1>3, <2>1, <2>2
<1> HIDE DEF Q
<1>5. at \in Bijection(from + 1 .. to, Q)
  <2>1. at \in [from + 1 .. to -> Q]
    BY <1>3
  <2>2. \A j, k \in from + 1 .. to : at[j] = at[k] => j = k
    BY <1>3
  <2>3. \A q \in Q : \E k \in from + 1 .. to : at[k] = q
    BY <1>4
  <2> HIDE DEF at
  <2>4. QED
    BY <2>1, <2>2, <2>3 DEF Bijection, Injection, Surjection, IsInjective
<1>6. IsFiniteSet(from + 1 .. to) /\ Cardinality(from + 1 .. to) = to - from
  <2>1. /\ IsFiniteSet(from + 1 .. to)
        /\ Cardinality(from + 1 .. to) = IF from + 1 > to THEN 0 ELSE to - (from + 1) + 1
    BY FS_Interval
  <2>2. QED
    BY <2>1
<1>7. QED
  <2>1. ExistsBijection(from + 1 .. to, Q)
    BY <1>5 DEF ExistsBijection
  <2>2. Cardinality(Q) = Cardinality(from + 1 .. to)
    BY <1>6, <2>1, FS_Bijection
  <2>3. QED
    BY <1>6, <2>2 DEF Q

(* A page is cut by clock, since clocks have no gaps. *)
LEMMA PageIsInterval ==
  ASSUME revisions \in SUBSET Revision, NEW l \in Library, NEW h \in Nat,
         Numbered(revisions, l, 0, h), NEW from \in Nat
  PROVE  Page(l, from) = Between(l, from, from + PageLimit)
<1> USE PageLimitAssumption
<1>1. \A r \in LogOf(revisions, l) : r.clock \in Nat /\ 0 < r.clock /\ r.clock <= h
  BY DEF Revision, LogOf, Numbered
<1>2. ASSUME NEW r \in LogOf(revisions, l), r.clock > from
      PROVE  Cardinality({q \in {p \in LogOf(revisions, l) : p.clock > from} :
                            q.clock < r.clock}) = r.clock - 1 - from
  <2>1. {q \in {p \in LogOf(revisions, l) : p.clock > from} : q.clock < r.clock}
          = Between(l, from, r.clock - 1)
    BY <1>1 DEF Between
  <2>2. r.clock - 1 \in Nat /\ from <= r.clock - 1 /\ r.clock - 1 <= h
    BY <1>1, <1>2
  <2>3. Cardinality(Between(l, from, r.clock - 1)) = (r.clock - 1) - from
    <3> DEFINE to == r.clock - 1
    <3>1. to \in Nat /\ from <= to /\ to <= h
      BY <2>2
    <3> HIDE DEF to
    <3>2. Cardinality(Between(l, from, to)) = to - from
      BY <3>1, CountBetween
    <3>3. QED
      BY <3>2 DEF to
  <2>4. QED
    BY <2>1, <2>3
<1>3. ASSUME NEW r \in LogOf(revisions, l), r.clock > from
      PROVE  r \in Page(l, from) <=> r.clock <= from + PageLimit
  <2>1. r \in Page(l, from) <=> r.clock - 1 - from < PageLimit
    BY <1>2, <1>3 DEF Page
  <2>2. r.clock \in Nat /\ from \in Nat /\ PageLimit \in Nat
    BY <1>1, <1>3
  <2>3. QED
    BY <2>1, <2>2
<1>4. \A r \in Page(l, from) : r \in LogOf(revisions, l) /\ r.clock > from
  BY DEF Page
<1>5. \A r \in Between(l, from, from + PageLimit) :
        r \in LogOf(revisions, l) /\ r.clock > from /\ r.clock <= from + PageLimit
  BY <1>1 DEF Between
<1>6. \A r \in LogOf(revisions, l) :
        r.clock > from /\ r.clock <= from + PageLimit => r \in Between(l, from, from + PageLimit)
  BY <1>1 DEF Between
<1>7. QED
  BY <1>3, <1>4, <1>5, <1>6

(* An empty page means the log has been read; the last clock of any other *)
(* page is where the page ends.                                            *)
LEMMA PageEnds ==
  ASSUME revisions \in SUBSET Revision, NEW l \in Library, NEW h \in Nat,
         Numbered(revisions, l, 0, h), NEW from \in Nat, from <= h
  PROVE  /\ Page(l, from) = {} => from = h
         /\ Page(l, from) # {} =>
              LET c == LastClock(Page(l, from)) IN
              /\ c \in Nat /\ from < c /\ c <= h
              /\ Page(l, from) = Between(l, from, c)
<1> USE PageLimitAssumption
<1>1. Page(l, from) = Between(l, from, from + PageLimit)
  BY PageIsInterval
<1>2. \A r \in LogOf(revisions, l) : r.clock \in Nat /\ r.clock <= h
  BY DEF Revision, LogOf, Numbered
<1>3. \A c \in Nat : from < c /\ c <= h => \E r \in LogOf(revisions, l) : r.clock = c
  BY DEF Numbered, LogOf
<1>4. ASSUME from # h
      PROVE  Page(l, from) # {}
  <2>1. PICK r \in LogOf(revisions, l) : r.clock = from + 1
    BY <1>3, <1>4
  <2>2. QED
    BY <1>1, <2>1 DEF Between
<1>5. ASSUME Page(l, from) # {}
      PROVE  LET c == LastClock(Page(l, from)) IN
             /\ c \in Nat /\ from < c /\ c <= h
             /\ Page(l, from) = Between(l, from, c)
  <2> DEFINE e == IF h <= from + PageLimit THEN h ELSE from + PageLimit
  <2>1. from < h
    BY <1>1, <1>2, <1>5 DEF Between
  <2>2. e \in Nat /\ from < e /\ e <= h /\ e <= from + PageLimit
    BY <2>1
  <2>3. PICK r \in LogOf(revisions, l) : r.clock = e
    BY <1>3, <2>2
  <2>4. r \in Page(l, from)
    BY <1>1, <2>2, <2>3 DEF Between
  <2>5. \A q \in Page(l, from) : q.clock \in Nat /\ q.clock <= e
    BY <1>1, <1>2 DEF Between
  <2>6. \E p \in Page(l, from) : \A q \in Page(l, from) : q.clock <= p.clock
    BY <2>3, <2>4, <2>5
  <2>7. PICK p \in Page(l, from) :
           LastClock(Page(l, from)) = p.clock /\ \A q \in Page(l, from) : q.clock <= p.clock
    BY <2>6 DEF LastClock
  <2>8. p.clock = e
    BY <2>2, <2>3, <2>4, <2>5, <2>7
  <2>9. Between(l, from, from + PageLimit) = Between(l, from, e)
    BY <1>2, <2>2 DEF Between
  <2>10. QED
    BY <1>1, <2>2, <2>7, <2>8, <2>9
<1>6. QED
  BY <1>4, <1>5
-----------------------------------------------------------------------------
(* Where the readers are: never past a head, and a feed between its two     *)
(* statements holds a head that is not before its cursor.                  *)
Cursor == [cursor : Nat, seen : SUBSET Revision]
Pull   == [cursor : Nat, seen : SUBSET Revision, head : Nat \cup {None}]
Tree   == UNION {[D -> Row] : D \in SUBSET Node}

ReaderTypes ==
  /\ feed \in [Library -> Cursor]
  /\ pull \in [Library -> Pull]
  /\ view \in [Library -> [clock : Nat, tree : Tree \cup {None}]]

Behind == \A l \in Library :
  /\ feed[l].cursor <= heads[l]
  /\ pull[l].cursor <= heads[l]
  /\ view[l].clock <= heads[l]
  /\ pull[l].head # None => pull[l].cursor <= pull[l].head /\ pull[l].head <= heads[l]

ReadersInv ==
  ReaderTypes /\ Behind /\ FeedIsPrefix /\ PullIsPrefix /\ TreeThenFeedIsComplete

LEMMA ReadersInitInv == ReadersInit => ReadersInv
<1> SUFFICES ASSUME ReadersInit
             PROVE  ReadersInv
  OBVIOUS
<1> USE DEF ReadersInit, Init, NoView
<1>1. ReaderTypes
  BY DEF ReaderTypes, Cursor, Pull
<1>2. Behind /\ FeedIsPrefix /\ PullIsPrefix /\ TreeThenFeedIsComplete
  BY DEF Behind, FeedIsPrefix, PullIsPrefix, TreeThenFeedIsComplete, LogOf
<1>3. QED
  BY <1>1, <1>2 DEF ReadersInv

(* A step of the store: the log grows above the heads, and every node whose *)
(* row changes has a revision among the new ones.                          *)
LEMMA StoreStep ==
  ASSUME StoreInv, StoreInv', [Log!Append]_(Log!tables), UNCHANGED readers, ReadersInv
  PROVE  ReadersInv'
<1>1. /\ revisions \subseteq revisions'
      /\ \A l \in Library : heads[l] \in Nat /\ heads'[l] \in Nat /\ heads'[l] >= heads[l]
  BY DEF StoreInv, TypeOK, Log!Append, Log!tables
<1>2. ASSUME NEW l \in Library, NEW r \in LogOf(revisions', l), r \notin revisions
      PROVE  r.clock \in Nat /\ r.clock > heads[l]
  <2>1. Log!Continues(revisions' \ revisions, l)
    BY <1>2 DEF Log!Append, Log!tables, LogOf
  <2>2. r.clock \in heads[l] + 1 .. heads'[l]
    BY <1>2, <2>1 DEF Log!Continues, Log!LogOf, LogOf
  <2>3. QED
    BY <1>1, <2>2
<1>3. ASSUME NEW l \in Library, NEW c \in Nat, c <= heads[l]
      PROVE  {r \in LogOf(revisions', l) : r.clock <= c} = {r \in LogOf(revisions, l) : r.clock <= c}
  BY <1>1, <1>2, <1>3 DEF LogOf
<1>4. ReaderTypes' /\ Behind'
  BY <1>1 DEF ReadersInv, ReaderTypes, Behind, readers, Pull, Cursor
<1>5. FeedIsPrefix' /\ PullIsPrefix'
  BY <1>3 DEF ReadersInv, ReaderTypes, Behind, FeedIsPrefix, PullIsPrefix, readers, Pull, Cursor
<1>6. TreeThenFeedIsComplete'
  <2> SUFFICES ASSUME NEW l \in Library, view[l].tree # None,
                      NEW n \in Node, nodes'[n] # None, nodes'[n].library = l
               PROVE  \/ n \in DOMAIN view[l].tree /\ view[l].tree[n] = nodes'[n]
                      \/ \E r \in LogOf(revisions', l) : r.node = n /\ r.clock > view[l].clock
    BY DEF TreeThenFeedIsComplete, readers
  <2>1. CASE nodes'[n] = nodes[n]
    BY <1>1, <2>1 DEF ReadersInv, TreeThenFeedIsComplete, LogOf
  <2>2. CASE nodes'[n] # nodes[n]
    <3>1. Log!Replays(revisions' \ revisions, n)
      BY <2>2 DEF Log!Append, Log!tables
    <3>2. PICK r \in revisions' \ revisions : r.node = n
      BY <2>2, <3>1 DEF Log!Replays
    <3>3. r \in LogOf(revisions', l)
      BY <3>2 DEF StoreInv, RowLockInv, LogOf
    <3>4. r.clock \in Nat /\ r.clock > heads[l] /\ view[l].clock <= heads[l] /\ view[l].clock \in Nat
      BY <1>2, <3>2, <3>3 DEF ReadersInv, Behind, ReaderTypes
    <3>5. QED
      BY <1>1, <3>2, <3>3, <3>4
  <2>3. QED
    BY <2>1, <2>2
<1>7. QED
  BY <1>4, <1>5, <1>6 DEF ReadersInv

(* What the page a reader gets adds to the revisions it has. *)
LEMMA PageExtends ==
  ASSUME StoreInv, NEW l \in Library, NEW from \in Nat, from <= heads[l],
         NEW seen, seen = {r \in LogOf(revisions, l) : r.clock <= from}
  PROVE  LET page == Page(l, from)
             to   == IF page = {} THEN from ELSE LastClock(page)
         IN  /\ page = {} => from = heads[l]
             /\ to \in Nat /\ to <= heads[l]
             /\ seen \cup page = {r \in LogOf(revisions, l) : r.clock <= to}
             /\ seen \cup page \in SUBSET Revision
<1>1. /\ revisions \in SUBSET Revision /\ heads[l] \in Nat
      /\ Numbered(revisions, l, 0, heads[l])
  BY DEF StoreInv, TypeOK, Committed
<1>2. /\ Page(l, from) = {} => from = heads[l]
      /\ Page(l, from) # {} =>
           LET c == LastClock(Page(l, from)) IN
           /\ c \in Nat /\ from < c /\ c <= heads[l]
           /\ Page(l, from) = Between(l, from, c)
  BY <1>1, PageEnds
<1>3. \A r \in LogOf(revisions, l) : r \in Revision /\ r.clock \in Nat
  BY <1>1 DEF LogOf, Revision
<1>4. CASE Page(l, from) = {}
  BY <1>2, <1>3, <1>4
<1>5. CASE Page(l, from) # {}
  BY <1>2, <1>3, <1>5 DEF Between
<1>6. QED
  BY <1>4, <1>5

LEMMA ReadersStep ==
  StoreInv /\ StoreInv' /\ [Log!Append]_(Log!tables) /\ [ReadersNext]_<<vars, readers>>
    /\ ReadersInv => ReadersInv'
<1> SUFFICES ASSUME StoreInv, StoreInv', [Log!Append]_(Log!tables),
                    [ReadersNext]_<<vars, readers>>, ReadersInv
             PROVE  ReadersInv'
  OBVIOUS
<1>1. CASE UNCHANGED readers
  BY <1>1, StoreStep
<1>0. \A l \in Library : heads[l] \in Nat
  BY DEF StoreInv, TypeOK
<1>2. ASSUME NEW l \in Library, ReadPage(l)
      PROVE  ReadersInv'
  <2> DEFINE page == Page(l, feed[l].cursor)
             to   == IF page = {} THEN feed[l].cursor ELSE LastClock(page)
  <2>1. /\ feed' = [feed EXCEPT ![l] = [cursor |-> to, seen |-> feed[l].seen \cup page]]
        /\ UNCHANGED <<nodes, heads, revisions, pull, view>>
    BY <1>2 DEF ReadPage, vars
  <2>2. /\ feed[l].cursor \in Nat /\ feed[l].cursor <= heads[l]
        /\ feed[l].seen = {r \in LogOf(revisions, l) : r.clock <= feed[l].cursor}
    BY DEF ReadersInv, ReaderTypes, Cursor, Behind, FeedIsPrefix
  <2>3. /\ to \in Nat /\ to <= heads[l]
        /\ feed[l].seen \cup page = {r \in LogOf(revisions, l) : r.clock <= to}
        /\ feed[l].seen \cup page \in SUBSET Revision
    BY <2>2, PageExtends
  <2> HIDE DEF page, to
  <2>4. /\ feed'[l] = [cursor |-> to, seen |-> feed[l].seen \cup page]
        /\ \A k \in Library \ {l} : feed'[k] = feed[k]
        /\ feed' \in [Library -> Cursor]
    BY <2>1, <2>3 DEF ReadersInv, ReaderTypes, Cursor
  <2>5. ReaderTypes' /\ Behind'
    BY <2>1, <2>3, <2>4 DEF ReadersInv, ReaderTypes, Behind
  <2>6. FeedIsPrefix'
    BY <2>1, <2>3, <2>4 DEF ReadersInv, FeedIsPrefix
  <2>7. QED
    BY <2>1, <2>5, <2>6 DEF ReadersInv, PullIsPrefix, TreeThenFeedIsComplete
<1>3. ASSUME NEW l \in Library, PullHead(l)
      PROVE  ReadersInv'
  <2>1. /\ pull' = [pull EXCEPT ![l].head = heads[l]]
        /\ UNCHANGED <<nodes, heads, revisions, feed, view>>
    BY <1>3 DEF PullHead, vars
  <2>2. pull \in [Library -> Pull] /\ pull[l].cursor <= heads[l]
    BY DEF ReadersInv, ReaderTypes, Behind
  <2>3. /\ \A k \in Library \ {l} : pull'[k] = pull[k]
        /\ pull'[l].cursor = pull[l].cursor /\ pull'[l].seen = pull[l].seen
        /\ pull'[l].head = heads[l] /\ pull' \in [Library -> Pull]
    BY <1>0, <2>1, <2>2 DEF Pull
  <2>4. ReaderTypes' /\ Behind'
    BY <1>0, <2>1, <2>2, <2>3 DEF ReadersInv, ReaderTypes, Behind
  <2>5. PullIsPrefix'
    BY <2>1, <2>3 DEF ReadersInv, PullIsPrefix
  <2>6. QED
    BY <2>1, <2>4, <2>5 DEF ReadersInv, FeedIsPrefix, TreeThenFeedIsComplete
<1>4. ASSUME NEW l \in Library, PullOps(l)
      PROVE  ReadersInv'
  <2> DEFINE page == Page(l, pull[l].cursor)
             end  == IF page = {} THEN pull[l].cursor ELSE LastClock(page)
             to   == IF page = {} THEN pull[l].head ELSE LastClock(page)
  <2>1. /\ pull[l].head # None
        /\ pull' = [pull EXCEPT ![l] = [cursor |-> to, seen |-> pull[l].seen \cup page,
                                        head |-> None]]
        /\ UNCHANGED <<nodes, heads, revisions, feed, view>>
    BY <1>4 DEF PullOps, vars
  <2>2. /\ pull[l].cursor \in Nat /\ pull[l].head \in Nat
        /\ pull[l].cursor <= pull[l].head /\ pull[l].head <= heads[l]
        /\ pull[l].seen = {r \in LogOf(revisions, l) : r.clock <= pull[l].cursor}
    BY <2>1 DEF ReadersInv, ReaderTypes, Pull, Behind, PullIsPrefix
  <2>3. /\ page = {} => pull[l].cursor = heads[l]
        /\ end \in Nat /\ end <= heads[l]
        /\ pull[l].seen \cup page = {r \in LogOf(revisions, l) : r.clock <= end}
        /\ pull[l].seen \cup page \in SUBSET Revision
    <3>1. pull[l].cursor <= heads[l]
      BY <1>0, <2>2
    <3>2. QED
      BY <2>2, <3>1, PageExtends
  <2> HIDE DEF page
  (* An empty page was read at the head: the head read before it is the cursor. *)
  <2>4. page = {} => pull[l].head = pull[l].cursor
    BY <1>0, <2>2, <2>3
  <2>5. /\ to \in Nat /\ to <= heads[l]
        /\ pull[l].seen \cup page = {r \in LogOf(revisions, l) : r.clock <= to}
    BY <2>3, <2>4
  <2> HIDE DEF to
  <2>6. /\ pull'[l] = [cursor |-> to, seen |-> pull[l].seen \cup page, head |-> None]
        /\ \A k \in Library \ {l} : pull'[k] = pull[k]
        /\ pull' \in [Library -> Pull]
    BY <2>1, <2>3, <2>5 DEF ReadersInv, ReaderTypes, Pull
  <2>7. ReaderTypes' /\ Behind'
    BY <2>1, <2>5, <2>6 DEF ReadersInv, ReaderTypes, Behind
  <2>8. PullIsPrefix'
    BY <2>1, <2>5, <2>6 DEF ReadersInv, PullIsPrefix
  <2>9. QED
    BY <2>1, <2>7, <2>8 DEF ReadersInv, FeedIsPrefix, TreeThenFeedIsComplete
<1>5. ASSUME NEW l \in Library, ReadTreeHead(l)
      PROVE  ReadersInv'
  <2>1. /\ view' = [view EXCEPT ![l] = [clock |-> heads[l], tree |-> None]]
        /\ UNCHANGED <<nodes, heads, revisions, feed, pull>>
    BY <1>5 DEF ReadTreeHead, vars
  <2>2. /\ view'[l] = [clock |-> heads[l], tree |-> None]
        /\ \A k \in Library \ {l} : view'[k] = view[k]
    BY <2>1 DEF ReadersInv, ReaderTypes
  <2>3. ReaderTypes'
    BY <1>0, <2>1 DEF ReadersInv, ReaderTypes
  <2>4. Behind'
    BY <1>0, <2>1, <2>2 DEF ReadersInv, Behind
  <2>5. TreeThenFeedIsComplete'
    BY <2>1, <2>2 DEF ReadersInv, TreeThenFeedIsComplete
  <2>6. QED
    BY <2>1, <2>3, <2>4, <2>5 DEF ReadersInv, FeedIsPrefix, PullIsPrefix
<1>6. ASSUME NEW l \in Library, ReadTreeNodes(l)
      PROVE  ReadersInv'
  <2> DEFINE tree == [n \in {m \in Node : nodes[m] # None /\ nodes[m].library = l} |-> nodes[n]]
  <2>1. /\ view' = [view EXCEPT ![l].tree = tree]
        /\ UNCHANGED <<nodes, heads, revisions, feed, pull>>
    BY <1>6 DEF ReadTreeNodes, vars
  <2>2. tree \in Tree
    <3>1. DOMAIN tree \in SUBSET Node /\ tree \in [DOMAIN tree -> Row]
      BY DEF StoreInv, TypeOK
    <3>2. QED
      BY <3>1 DEF Tree
  <2>3. \A n \in Node : nodes[n] # None /\ nodes[n].library = l =>
          n \in DOMAIN tree /\ tree[n] = nodes[n]
    OBVIOUS
  <2> HIDE DEF tree
  <2>4. /\ view'[l].clock = view[l].clock /\ view'[l].tree = tree
        /\ \A k \in Library \ {l} : view'[k] = view[k]
        /\ view' \in [Library -> [clock : Nat, tree : Tree \cup {None}]]
    BY <2>1, <2>2 DEF ReadersInv, ReaderTypes
  <2>5. ReaderTypes' /\ Behind'
    BY <2>1, <2>4 DEF ReadersInv, ReaderTypes, Behind
  <2>6. TreeThenFeedIsComplete'
    BY <2>1, <2>3, <2>4 DEF ReadersInv, TreeThenFeedIsComplete
  <2>7. QED
    BY <2>1, <2>5, <2>6 DEF ReadersInv, FeedIsPrefix, PullIsPrefix
<1>7. QED
  BY <1>1, <1>2, <1>3, <1>4, <1>5, <1>6 DEF ReadersNext, readers

LEMMA ReadersAreAside == ReadersSpec => Spec
<1>1. ReadersInit => Init
  BY DEF ReadersInit
<1>2. [ReadersNext]_<<vars, readers>> => [Next]_vars
  BY DEF ReadersNext, ReadPage, PullHead, PullOps, ReadTreeHead, ReadTreeNodes
<1>3. QED
  BY <1>1, <1>2, PTL DEF ReadersSpec, Spec

LEMMA ReadersCorrect == ReadersSpec => []ReadersInv
<1>1. ReadersInit => ReadersInv
  BY ReadersInitInv
<1>2. QED
  BY <1>1, ReadersStep, ReadersAreAside, StoreCorrect, ImplementsLog, PTL
     DEF ReadersSpec, ImplementsRevisionLog, Log!LogSpec

(* A reader that pages through the revisions of a library has been given     *)
(* exactly those up to its cursor, for any page size and any writers.       *)
THEOREM PagingIsComplete == ReadersSpec => []FeedIsPrefix
<1>1. ReadersInv => FeedIsPrefix
  BY DEF ReadersInv
<1>2. QED
  BY <1>1, ReadersCorrect, PTL

(* The sync feed skips nothing either, though it goes on from a head that   *)
(* was read before its ops when there are none.                            *)
THEOREM SyncFeedIsComplete == ReadersSpec => []PullIsPrefix
<1>1. ReadersInv => PullIsPrefix
  BY DEF ReadersInv
<1>2. QED
  BY <1>1, ReadersCorrect, PTL

(* A tree that was loaded while it changed is completed by the feed after   *)
(* the clock it reports.                                                   *)
THEOREM TreeAndFeedAreComplete == ReadersSpec => []TreeThenFeedIsComplete
<1>1. ReadersInv => TreeThenFeedIsComplete
  BY DEF ReadersInv
<1>2. QED
  BY <1>1, ReadersCorrect, PTL
=============================================================================
