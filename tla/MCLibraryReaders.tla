-------------------------- MODULE MCLibraryReaders ---------------------------
(* A finite instance of LibraryReaders for TLC. *)
EXTENDS LibraryReaders, TLC

Deletion == {"library.create", "node.create", "node.delete"}

Symmetry == Permutations(Node) \cup Permutations(Txn)
=============================================================================
