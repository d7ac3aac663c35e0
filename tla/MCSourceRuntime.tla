---------------------------- MODULE MCSourceRuntime ----------------------------
(* Finite instances of SourceRuntime for TLC. *)
EXTENDS SourceRuntime, TLC

Symmetry == Permutations(Request) \cup Permutations(SignIn)
=============================================================================
