----------------------------- MODULE MCSyncServer -----------------------------
(* Finite instances of SyncServer for TLC. *)
EXTENDS SyncServer, TLC

CONSTANTS t1, t2, l1, root, shared, n1, n2, c1, c2, p1, p2, e1, e2

Blank == [op |-> "delete", target |-> None, ext |-> None, parent |-> None,
          parentExt |-> None, type |-> "folder", title |-> None, url |-> None]

CreateAt(e, n)    == [Blank EXCEPT !.op = "create", !.ext = e, !.parent = n]
CreateBelow(e, f) == [Blank EXCEPT !.op = "create", !.ext = e, !.parentExt = f]
Delete(n)         == [Blank EXCEPT !.op = "delete", !.target = n]
Restore(n)        == [Blank EXCEPT !.op = "restore", !.target = n]
Retitle(e)        == [Blank EXCEPT !.op = "update", !.ext = e, !.title = "x"]
MoveTo(e, n)      == [Blank EXCEPT !.op = "move", !.ext = e, !.parent = n]

CreateLists == {<<>>, <<CreateAt(e1, root)>>, <<CreateAt(e1, shared), CreateAt(e2, root)>>}
DeleteLists == {<<>>, <<Delete(shared)>>}
MixedLists  == {<<>>, <<CreateAt(e1, root)>>, <<CreateBelow(e2, e1)>>, <<Delete(shared), Restore(shared)>>,
                <<Retitle(e1), MoveTo(e1, shared)>>}

AllOps == OpType
=============================================================================
