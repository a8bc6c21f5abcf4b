------------------------- MODULE HarnessDeployment -------------------------
(***************************************************************************)
(* What SnapshotManager promises about the deployed harness, without its   *)
(* lock, its journal or its files: a registry of activations that grows by *)
(* one legal move at a time, and a live harness that is exactly the last   *)
(* registered snapshot except while one announced switch is under way.     *)
(* The detailed module SnapshotActivation implements this specification.   *)
(***************************************************************************)
EXTENDS Naturals, Sequences

CONSTANTS
    Snapshot,      \* immutable snapshots
    NoSnapshot,    \* "no snapshot": the parent of a baseline, no switch pending
    Parent,        \* the parent of each snapshot
    Mixed          \* what serves while files of two snapshots may be mixed

VARIABLES
    history,       \* the snapshots activated so far, oldest first
    pending,       \* the target of the announced switch, or NoSnapshot
    serving        \* the snapshot whose bytes are live, or Mixed

vars == <<history, pending, serving>>

Current == history[Len(history)]

(* Two snapshots a promotion or a rollback may connect. *)
Adjacent(s, t) == Parent[t] = s \/ Parent[s] = t

Init == /\ history = <<>>
        /\ pending = NoSnapshot
        /\ serving = Mixed

Register(s) == /\ history = <<>>
               /\ Parent[s] = NoSnapshot
               /\ history' = <<s>>
               /\ serving' = s
               /\ UNCHANGED pending

Announce(s) == /\ history # <<>>
               /\ pending = NoSnapshot
               /\ Adjacent(Current, s)
               /\ pending' = s
               /\ serving' = Mixed
               /\ UNCHANGED history

(* One announcement commits at most once: afterwards Current is pending. *)
Commit == /\ pending # NoSnapshot
          /\ pending # Current
          /\ history' = Append(history, pending)
          /\ UNCHANGED <<pending, serving>>

(* The switch is over, whether it was committed or taken back. *)
Settle == /\ pending # NoSnapshot
          /\ pending' = NoSnapshot
          /\ serving' = Current
          /\ UNCHANGED history

Next == \/ \E s \in Snapshot : Register(s) \/ Announce(s)
        \/ Commit
        \/ Settle

Spec == Init /\ [][Next]_vars
=============================================================================
