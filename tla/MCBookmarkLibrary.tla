-------------------------- MODULE MCBookmarkLibrary --------------------------
(* Finite instances of BookmarkLibrary for TLC. *)
EXTENDS BookmarkLibrary, TLC

Structure == {"library.create", "node.create", "node.move"}
Deletion  == Structure \cup {"node.delete", "node.restore"}
AllOps    == OpType

Symmetry == Permutations(Node) \cup Permutations(Txn) \cup Permutations(Library)
=============================================================================
