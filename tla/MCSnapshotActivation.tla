------------------------ MODULE MCSnapshotActivation ------------------------
(***************************************************************************)
(* A small project for TLC: baseline a0 with two files, child b1 that      *)
(* deletes one file and changes the other, and grandchild c2 that brings   *)
(* the deleted file back with other bytes.                                 *)
(***************************************************************************)
EXTENDS SnapshotActivation, TLC

CONSTANTS a0, b1, c2, prompt, tools, old, new

MCParent == a0 :> NoSnapshot @@ b1 :> a0 @@ c2 :> b1

MCFiles ==
    a0 :> (prompt :> old @@ tools :> old) @@
    b1 :> (prompt :> new @@ tools :> Absent) @@
    c2 :> (prompt :> new @@ tools :> new)

MCApproval ==
    {[id |-> "P1", action |-> "promote", target |-> b1],
     [id |-> "P2", action |-> "promote", target |-> c2],
     [id |-> "R1", action |-> "rollback", target |-> a0],
     [id |-> "R2", action |-> "rollback", target |-> b1]}

MCSymmetry == Permutations(Proc)
=============================================================================
