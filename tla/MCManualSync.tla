----------------------------- MODULE MCManualSync -----------------------------
(* Finite instances of ManualSync for TLC. *)
EXTENDS ManualSync, TLC

AllButRestore == {"node.create", "node.update", "node.move", "node.delete"}

Symmetry == Permutations(Node \ {Root})
=============================================================================
