--------------------------- MODULE MCAccountBinding ---------------------------
(* Finite instances of AccountBinding for TLC. *)
EXTENDS AccountBinding
=============================================================================
