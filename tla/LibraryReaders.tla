--------------------------- MODULE LibraryReaders ----------------------------
(***************************************************************************)
(* Readers of a bookmark library beside its writers: the revision list of  *)
(* the dashboard and the feed of the sync service, each read page by page  *)
(* from a cursor, and the tree.  Tree and feed are two statements of one   *)
(* READ COMMITTED transaction (the head, then the nodes or the revisions), *)
(* so commits may fall in between.  One reader of each kind per library.   *)
(***************************************************************************)
EXTENDS BookmarkLibrary

CONSTANT PageLimit  \* revisions per page, after clamping to 1 .. 500

ASSUME PageLimitAssumption == PageLimit \in Nat \ {0}

VARIABLES
  feed,  \* per library: the clock the reader has paged to, the revisions it got
  pull,  \* per library: the same for the sync feed, and the head it has read
  view   \* per library: the clock and the nodes of the tree it last loaded

readers == <<feed, pull, view>>

NoView == [clock |-> 0, tree |-> None]

ReadersInit ==
  /\ Init
  /\ feed = [l \in Library |-> [cursor |-> 0, seen |-> {}]]
  /\ pull = [l \in Library |-> [cursor |-> 0, seen |-> {}, head |-> None]]
  /\ view = [l \in Library |-> NoView]

(* The first PageLimit revisions of l after a clock. *)
Page(l, from) ==
  LET rest == {r \in LogOf(revisions, l) : r.clock > from} IN
  {r \in rest : Cardinality({q \in rest : q.clock < r.clock}) < PageLimit}
LastClock(page) == (CHOOSE r \in page : \A q \in page : q.clock <= r.clock).clock

(* Mutant of ReadPage: a page of one limit, but a cursor at the head. *)
ReadPageToHead(l) ==
  /\ heads[l] > 0
  /\ feed' = [feed EXCEPT ![l] =
       [cursor |-> heads[l], seen |-> @.seen \cup Page(l, @.cursor)]]
  /\ UNCHANGED <<vars, pull, view>>

(* revisions: the next page starts at the clock of the last one of this    *)
(* page, or where this one did if it was empty.                            *)
ReadPage(l) ==
  /\ heads[l] > 0
  /\ LET page == Page(l, feed[l].cursor) IN
     feed' = [feed EXCEPT ![l] =
       [cursor |-> IF page = {} THEN @.cursor ELSE LastClock(page), seen |-> @.seen \cup page]]
  /\ UNCHANGED <<vars, pull, view>>

(* feed: the head ... *)
PullHead(l) ==
  /\ heads[l] > 0
  /\ pull' = [pull EXCEPT ![l].head = heads[l]]
  /\ UNCHANGED <<vars, feed, view>>

(* Mutant of PullOps: toClock is the head, whatever the limit cut off. *)
PullOpsToHead(l) ==
  /\ pull[l].head # None
  /\ pull' = [pull EXCEPT ![l] =
       [cursor |-> @.head, seen |-> @.seen \cup Page(l, @.cursor), head |-> None]]
  /\ UNCHANGED <<vars, feed, view>>

(* ... and then the ops; toClock, where the client goes on, is the last op *)
(* or, when there is none, the head read before them.                      *)
PullOps(l) ==
  /\ pull[l].head # None
  /\ LET page == Page(l, pull[l].cursor) IN
     pull' = [pull EXCEPT ![l] =
       [cursor |-> IF page = {} THEN @.head ELSE LastClock(page),
        seen |-> @.seen \cup page, head |-> None]]
  /\ UNCHANGED <<vars, feed, view>>

(* Mutant of ReadTreeHead: the head is read after the nodes. *)
ReadTreeHeadLast(l) ==
  /\ heads[l] > 0
  /\ view' = [view EXCEPT ![l].clock = heads[l]]
  /\ UNCHANGED <<vars, feed, pull>>

(* tree: owned_library and library_head ... *)
ReadTreeHead(l) ==
  /\ heads[l] > 0
  /\ view' = [view EXCEPT ![l] = [clock |-> heads[l], tree |-> None]]
  /\ UNCHANGED <<vars, feed, pull>>

(* ... and then the nodes of the library. *)
ReadTreeNodes(l) ==
  /\ view[l].clock > 0 /\ view[l].tree = None
  /\ view' = [view EXCEPT ![l].tree =
       [n \in {m \in Node : nodes[m] # None /\ nodes[m].library = l} |-> nodes[n]]]
  /\ UNCHANGED <<vars, feed, pull>>

ReadersNext ==
  \/ Next /\ UNCHANGED readers
  \/ \E l \in Library : \/ ReadPage(l) \/ PullHead(l) \/ PullOps(l)
                       \/ ReadTreeHead(l) \/ ReadTreeNodes(l)

ReadersSpec == ReadersInit /\ [][ReadersNext]_<<vars, readers>>

-----------------------------------------------------------------------------
(* Properties. *)

(* Paging never skips: a reader at cursor c has been given exactly the     *)
(* revisions 1 to c, however many were committed while it was paging.      *)
FeedIsPrefix == \A l \in Library :
  feed[l].seen = {r \in LogOf(revisions, l) : r.clock <= feed[l].cursor}

(* The same for the feed of the sync service, whose toClock may be a head   *)
(* that was read before the ops: nothing committed in between is skipped.  *)
PullIsPrefix == \A l \in Library :
  pull[l].seen = {r \in LogOf(revisions, l) : r.clock <= pull[l].cursor}

(* A loaded tree may be newer than the clock it reports and never older:   *)
(* what it lacks of the current tree comes with the feed after that clock. *)
TreeThenFeedIsComplete == \A l \in Library : view[l].tree # None =>
  \A n \in Node : nodes[n] # None /\ nodes[n].library = l =>
    \/ n \in DOMAIN view[l].tree /\ view[l].tree[n] = nodes[n]
    \/ \E r \in LogOf(revisions, l) : r.node = n /\ r.clock > view[l].clock
=============================================================================
