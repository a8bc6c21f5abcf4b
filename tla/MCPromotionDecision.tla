------------------------ MODULE MCPromotionDecision ------------------------
(***************************************************************************)
(* An instance of PromotionDecision for TLC: two candidates whose ids are  *)
(* in the reverse order of their ranks, three selection tasks, one release *)
(* task per stage with two trials.  The update check decides nothing, and  *)
(* its pool is empty here.                                                  *)
(***************************************************************************)
EXTENDS PromotionDecision

MCId == <<2, 1>>

MCTasksOf ==
    [s \in Stage |-> CASE s = "update_check" -> {}
                       [] s = "selection" -> {"s1", "s2", "s3"}
                       [] OTHER -> {"r1"}]

MCTrialsOf == [s \in Stage |-> IF s \in Release THEN 2 ELSE 1]

\* poor, good, and good at a price the gates still accept
MCHabit ==
    {[success |-> FALSE, cost |-> 10, latency |-> 4],
     [success |-> TRUE, cost |-> 10, latency |-> 4],
     [success |-> TRUE, cost |-> 12, latency |-> 4]}

MCSurprises ==
    [s \in Stage |-> IF s \in Release THEN {"flip", "slow", "infra"} ELSE KnownSurprise \ {"retry"}]

\* configs/objective_contract.yaml and the study's selection policy, with a tail
\* limit that admits one slow run
MCLimit ==
    [whole |-> [num |-> 6, den |-> 5], p95 |-> [num |-> 3, den |-> 1], retries |-> 0,
     timeouts |-> 0, id |-> 0, ood |-> -1, replay |-> -1,
     cost |-> [num |-> 6, den |-> 5], latency |-> [num |-> 5, den |-> 4]]
=============================================================================
