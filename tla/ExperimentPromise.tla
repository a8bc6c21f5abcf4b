-------------------------- MODULE ExperimentPromise --------------------------
(***************************************************************************)
(* What a formal experiment promises, whatever happens to its commands:    *)
(* evidence is paid for at most once and kept; the selection is made once, *)
(* after the evidence it compares; no release evidence is paid for unless  *)
(* a candidate was selected; and the one outcome follows the selection.    *)
(***************************************************************************)
EXTENDS Naturals, FiniteSets

CONSTANTS
    Evidence,     \* the paid batches before the release
    Snap,         \* the baseline, 0, and the candidates
    Release       \* the stages of the release

VARIABLES
    paid,         \* batches that were paid for: pairs of stage and snapshot
    selection,    \* not made yet, or the candidate of the gate; 0 when it abstains
    outcome       \* none, hold or release

NotMade == Cardinality(Snap)

Init == paid = {} /\ selection = NotMade /\ outcome = "none"

Pay ==
    /\ \E b \in (Evidence \X Snap) \ paid : paid' = paid \union {b}
    /\ UNCHANGED <<selection, outcome>>

PayRelease ==
    /\ selection \notin {NotMade, 0}
    /\ \E b \in (Release \X Snap) \ paid : paid' = paid \union {b}
    /\ UNCHANGED <<selection, outcome>>

Select ==
    /\ selection = NotMade
    /\ <<"selection", 0>> \in paid
    /\ \E k \in Snap :
          /\ k # 0 => {<<"update_check", k>>, <<"selection", k>>} \subseteq paid
          /\ selection' = k
    /\ UNCHANGED <<paid, outcome>>

Decide ==
    /\ outcome = "none"
    /\ \/ selection = 0 /\ outcome' = "hold"
       \/ /\ selection \notin {NotMade, 0}
          /\ Release \X {0, selection} \subseteq paid
          /\ outcome' = "release"
    /\ UNCHANGED <<paid, selection>>

Next == Pay \/ PayRelease \/ Select \/ Decide

Spec == Init /\ [][Next]_<<paid, selection, outcome>>
=============================================================================
