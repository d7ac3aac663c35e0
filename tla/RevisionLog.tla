----------------------------- MODULE RevisionLog ------------------------------
(***************************************************************************)
(* What the bookmark store promises to everyone who reads it: a log per    *)
(* library, numbered 1, 2, 3, ... by the library's head, to which batches  *)
(* of revisions are appended at once, and a tree of nodes that is the      *)
(* replay of the logs.  No transactions, no locks, no failures.            *)
(***************************************************************************)
EXTENDS Naturals

CONSTANTS Library, Node, None

VARIABLES nodes, heads, revisions

tables == <<nodes, heads, revisions>>

LogOf(S, l) == {r \in S : r.library = l}

LogInit ==
  /\ nodes = [n \in Node |-> None]
  /\ heads = [l \in Library |-> 0]
  /\ revisions = {}

(* The batch continues the log of l: the clocks after the head, each once. *)
Continues(batch, l) ==
  /\ {r.clock : r \in LogOf(batch, l)} = heads[l] + 1 .. heads'[l]
  /\ \A r, s \in LogOf(batch, l) : r.clock = s.clock => r = s

(* The row of n after the batch is that of the last revision of n in it.   *)
Replays(batch, n) ==
  \/ nodes'[n] = nodes[n] /\ \A r \in batch : r.node # n
  \/ \E r \in batch :
       /\ r.node = n /\ r.row = nodes'[n]
       /\ \A s \in batch : s.node = n => s.library = r.library /\ s.clock <= r.clock

Append ==
  LET batch == revisions' \ revisions IN
  /\ revisions \subseteq revisions'
  /\ DOMAIN heads' = Library /\ DOMAIN nodes' = Node
  /\ \A l \in Library : heads'[l] >= heads[l] /\ Continues(batch, l)
  /\ \A n \in Node : Replays(batch, n)

LogSpec == LogInit /\ [][Append]_tables
=============================================================================
