----------------------------- MODULE SyncPosition ------------------------------
(***************************************************************************)
(* What a sync client promises to the server that keeps its cursor: it     *)
(* acknowledges a clock only when every revision up to it is in its        *)
(* browser, performed there or made from there, and it never takes an      *)
(* acknowledgement back.                                                   *)
(***************************************************************************)
EXTENDS Naturals

CONSTANT None

VARIABLES
  head,   \* the library's head
  have,   \* the clocks of the revisions that are in the browser
  acked   \* the acknowledged clock, None before the first ack

posVars == <<head, have, acked>>

PositionInit ==
  /\ head \in Nat
  /\ have \subseteq 1 .. head
  /\ acked \in {None} \cup {c \in 0 .. head : 1 .. c \subseteq have}

Grow == head' >= head /\ have' \subseteq 1 .. head' /\ have \subseteq have' /\ acked' = acked

Acknowledge ==
  /\ acked' \in 0 .. head /\ 1 .. acked' \subseteq have
  /\ acked # None => acked' >= acked
  /\ UNCHANGED <<head, have>>

PositionSpec == PositionInit /\ [][Grow \/ Acknowledge]_posVars
=============================================================================
