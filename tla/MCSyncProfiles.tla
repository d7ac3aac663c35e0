--------------------------- MODULE MCSyncProfiles ---------------------------
(* Finite instances of SyncProfiles for TLC. *)
EXTENDS SyncProfiles, TLC

Sessions == {"register", "session", "create", "update"}
Rules == {"list", "target.create", "target.delete", "rule.create", "rule.update", "rule.delete"}

Matchers == {<<"folder_id", "uuid">>}

Connections == Permutations(Txn)
=============================================================================
