------------------------- MODULE MCSnapshotCommands -------------------------
(***************************************************************************)
(* Two processes running the snapshot commands on a baseline and a child   *)
(* that deletes one file and changes the other, while harness/ is edited.  *)
(***************************************************************************)
EXTENDS SnapshotCommands, TLC

CONSTANTS a0, b1, prompt, tools, old, new

MCParent == a0 :> NoSnapshot @@ b1 :> a0

MCFiles ==
    a0 :> (prompt :> old @@ tools :> old) @@
    b1 :> (prompt :> new @@ tools :> Absent)

MCApproval ==
    {[id |-> "P1", action |-> "promote", target |-> b1],
     [id |-> "R1", action |-> "rollback", target |-> a0]}
=============================================================================
