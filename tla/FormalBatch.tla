---------------------------- MODULE FormalBatch ----------------------------
(***************************************************************************)
(* One formal batch: the paid evaluation of a snapshot over a queue of     *)
(* task positions, from the first attempt to the sealed artifact.          *)
(*                                                                         *)
(*   experiment/batch.py      FormalBatchRunner.run and its executor       *)
(*   experiment/ledger.py     the attempt ledger and the cost accounting   *)
(*   runtime/tau3_evidence.py the hooks inside the tau3 subprocess: the    *)
(*                            global attempt budget and the fail-fast stop *)
(*                                                                         *)
(* A batch is run by a command that may be repeated; every run but the     *)
(* last may have been interrupted anywhere, and only files survive.  The   *)
(* model follows the current protocol (2.0): a task-attempt ledger, direct *)
(* cost lineage, one worker thread.  Files that are created and then       *)
(* written may be left torn by an interruption; a ledger line is appended  *)
(* by one system call and is not.                                          *)
(***************************************************************************)
EXTENDS Integers, Sequences, FiniteSets

CONSTANTS
    N,              \* task positions (task, trial, seed) in the order of the queue
    Limit,          \* global_task_attempt_limit
    MaxRetries,     \* max_retries of one tau3 invocation
    FailFast,       \* whether a position_fail_fast_policy is frozen
    InfraAgain,     \* external: whether --auto-resume takes up infra results again
    MaxRuns,        \* bound: commands run on the batch
    MaxInterrupts   \* bound: interruptions of any kind

ASSUME CountAssumption ==
    /\ N \in Nat \ {0}
    /\ Limit \in Nat \ {0}
    /\ MaxRetries \in Nat
    /\ FailFast \in BOOLEAN /\ InfraAgain \in BOOLEAN
    /\ MaxRuns \in Nat /\ MaxInterrupts \in Nat

Position == 1..N

(* An attempt of a position in the task-attempt ledger: its last event,    *)
(* and for a completed one whether all its model calls have exact costs.   *)
Outcome == {"started", "failed", "exact", "inexact"}

(* A position's entry in the result file: none, an infrastructure error,   *)
(* or the simulation that attempt k completed.                             *)
Nothing == 0
Infra   == -1
Result  == {Infra, Nothing} \cup (1..Limit)

FileState == {"absent", "torn", "whole"}
File      == {"trigger", "raw", "cost", "batch"}

VARIABLES
    \* on disk
    attempts,    \* the task-attempt ledger: per position, its attempts
    saved,       \* the tau3 checkpoint: per position, its result
    file,        \* what is there of the fail-fast trigger, the retained raw
                 \* result, the sealed costs and the batch artifact
    trigger,     \* the position the trigger names
    raw,         \* the results retained
    cost,        \* the attempt the sealed costs bind each result to
    disposition, \* of the batch artifact
    runs,        \* the experiment's attempt ledger: one entry a command
    \* of the running command
    stage,       \* where FormalBatchRunner.run is
    phase,       \* where the worker thread of the subprocess is
    pos,         \* the position it works on
    left,        \* the retries run_with_retry has left
    stop,        \* the fail-fast event
    interrupts

disk    == <<attempts, saved, file, trigger, raw, cost, disposition>>
worker  == <<phase, pos, left, stop>>
vars    == <<disk, runs, stage, worker, interrupts>>

Init ==
    /\ attempts = [p \in Position |-> <<>>]
    /\ saved = [p \in Position |-> Nothing]
    /\ file = [f \in File |-> "absent"]
    /\ trigger = Nothing
    /\ raw = [p \in Position |-> Nothing]
    /\ cost = [p \in Position |-> Nothing]
    /\ disposition = "none"
    /\ runs = <<>>
    /\ stage = "idle"
    /\ phase = "off" /\ pos = 1 /\ left = 0 /\ stop = FALSE
    /\ interrupts = 0

Goto(s) == stage' = s
Set(f, state) == file' = [file EXCEPT ![f] = state]
Terminal(state) == runs' = [runs EXCEPT ![Len(runs)] = state]

-----------------------------------------------------------------------------
(* The command, up to the start of the tau3 subprocess.                    *)

(* ledger.begin: every command gets a STARTED event of its own.            *)
Begin ==
    /\ stage = "idle"
    /\ Len(runs) < MaxRuns
    /\ runs' = Append(runs, "started")
    /\ Goto("begun")
    /\ UNCHANGED <<disk, worker, interrupts>>

(* A sealed batch is verified again; a retained raw result is ingested     *)
(* again.  Neither runs the subprocess.                                    *)
Resume ==
    /\ stage = "begun"
    /\ \/ file["batch"] = "torn"  /\ Goto("fail")
       \/ file["batch"] = "whole" /\ Goto("seal")
       \/ file["batch"] = "absent" /\ file["raw"] # "absent" /\ Goto("ingest")
    /\ UNCHANGED <<disk, runs, worker, interrupts>>

ToBeRun_Reruns == file["batch"] = "absent"

(* Nothing of the batch has been retained yet.                             *)
ToBeRun == file["batch"] = "absent" /\ file["raw"] = "absent"

StoppedBefore_Forgotten == FALSE

(* The hooks find the trigger of an earlier invocation.                    *)
StoppedBefore == file["trigger"] = "whole"

Kept_Nothing(p) == Nothing

(* auto-resume keeps the results of the checkpoint, or all but the         *)
(* infrastructure errors.                                                  *)
Kept(p) == IF InfraAgain /\ saved[p] = Infra THEN Nothing ELSE saved[p]

(* A torn trigger cannot be verified.                                      *)
Launch ==
    /\ stage = "begun"
    /\ ToBeRun
    /\ IF file["trigger"] = "torn"
          THEN Goto("fail") /\ UNCHANGED <<saved, worker>>
          ELSE /\ Goto("tau")
               /\ phase' = "next" /\ pos' = 1 /\ left' = 0
               /\ stop' = StoppedBefore
               /\ saved' = [p \in Position |-> Kept(p)]
    /\ UNCHANGED <<attempts, file, trigger, raw, cost, disposition, runs, interrupts>>

-----------------------------------------------------------------------------
(* The worker thread of the subprocess (max_concurrency = 1).              *)

At(ph) == stage = "tau" /\ phase = ph /\ pos \in Position

Next1 == phase' = "next" /\ pos' = pos + 1 /\ left' = 0

Guarded_Unchecked == TRUE

(* guarded(): a queued position does not run once the event is set.        *)
Guarded == ~stop

(* Already in the checkpoint, or stopped: the future is skipped or         *)
(* cancelled (fail_fast_as_completed).                                     *)
Skip ==
    /\ At("next")
    /\ saved[pos] # Nothing \/ ~Guarded
    /\ Next1
    /\ UNCHANGED <<disk, runs, stage, stop, interrupts>>

Lower(a, b) == IF a < b THEN a ELSE b

Consumed_TerminalOnly(p) == Len(SelectSeq(attempts[p], LAMBDA o : o # "started"))

(* task_attempt_count: STARTED attempts of every invocation count.         *)
Consumed(p) == Len(attempts[p])

(* bounded_run_with_retry: the budget left decides how often to try.       *)
Admit ==
    /\ At("next")
    /\ saved[pos] = Nothing /\ Guarded
    /\ IF Consumed(pos) >= Limit
          THEN phase' = "giveup" /\ left' = 0
          ELSE phase' = "try" /\ left' = Lower(MaxRetries, Limit - Consumed(pos) - 1)
    /\ UNCHANGED <<disk, runs, stage, pos, stop, interrupts>>

(* run_with_retry after an attempt that raised.                            *)
Retry ==
    IF left > 0 THEN phase' = "try" /\ left' = left - 1
                ELSE phase' = "giveup" /\ UNCHANGED left

(* recorded_run: STARTED is on disk before the first model call, unless    *)
(* the budget is used up, which raises.                                    *)
StartAttempt ==
    /\ At("try")
    /\ IF Consumed(pos) < Limit
          THEN /\ attempts' = [attempts EXCEPT ![pos] = Append(@, "started")]
               /\ phase' = "call" /\ UNCHANGED left
          ELSE Retry /\ UNCHANGED attempts
    /\ UNCHANGED <<saved, file, trigger, raw, cost, disposition, runs, stage,
                   pos, stop, interrupts>>

(* The terminal event carries the index of the attempt that ends.          *)
FinishAttempt(outcome) ==
    attempts' = [attempts EXCEPT ![pos] = [@ EXCEPT ![Len(@)] = outcome]]

FailAttempt ==
    /\ At("call")
    /\ FinishAttempt("failed")
    /\ Retry
    /\ UNCHANGED <<saved, file, trigger, raw, cost, disposition, runs, stage,
                   pos, stop, interrupts>>

CompleteAttempt ==
    /\ At("call")
    /\ \E outcome \in {"exact", "inexact"} : FinishAttempt(outcome)
    /\ phase' = "save"
    /\ UNCHANGED <<saved, file, trigger, raw, cost, disposition, runs, stage,
                   pos, left, stop, interrupts>>

(* save_fn writes the result of the attempt into the checkpoint.           *)
SavedResult(p) == Len(attempts[p])

SaveResult ==
    /\ At("save")
    /\ saved' = [saved EXCEPT ![pos] = SavedResult(pos)]
    /\ Next1
    /\ UNCHANGED <<attempts, file, trigger, raw, cost, disposition, runs, stage,
                   stop, interrupts>>

(* The retries or the budget are used up: an infrastructure error is saved *)
(* and, under the policy, the queue is to stop.                            *)
GiveUp ==
    /\ At("giveup")
    /\ saved' = [saved EXCEPT ![pos] = Infra]
    /\ IF FailFast THEN phase' = "stop" /\ UNCHANGED <<pos, left>> ELSE Next1
    /\ UNCHANGED <<attempts, file, trigger, raw, cost, disposition, runs, stage,
                   stop, interrupts>>

(* _write_position_fail_fast_artifact_once: created, then written.         *)
CreateTrigger ==
    /\ At("stop")
    /\ stop' = TRUE
    /\ Set("trigger", "torn")
    /\ phase' = "trigger"
    /\ UNCHANGED <<attempts, saved, trigger, raw, cost, disposition, runs, stage,
                   pos, left, interrupts>>

WriteTrigger ==
    /\ At("trigger")
    /\ Set("trigger", "whole")
    /\ trigger' = pos
    /\ Next1
    /\ UNCHANGED <<attempts, saved, raw, cost, disposition, runs, stage, stop, interrupts>>

Work ==
    \/ Skip \/ Admit \/ StartAttempt \/ FailAttempt \/ CompleteAttempt
    \/ SaveResult \/ GiveUp \/ CreateTrigger \/ WriteTrigger

-----------------------------------------------------------------------------
(* The command, after the subprocess.                                      *)

(* The subprocess has come to the end of its queue.                        *)
TauDone ==
    /\ stage = "tau" /\ phase = "next" /\ pos \notin Position
    /\ Goto("copy")
    /\ phase' = "off"
    /\ UNCHANGED <<disk, runs, pos, left, stop, interrupts>>

(* _copy_once.                                                             *)
CreateRaw ==
    /\ stage = "copy"
    /\ Set("raw", "torn")
    /\ Goto("copying")
    /\ UNCHANGED <<attempts, saved, trigger, raw, cost, disposition, runs, worker, interrupts>>

WriteRaw ==
    /\ stage = "copying"
    /\ Set("raw", "whole")
    /\ raw' = saved
    /\ Goto("ingest")
    /\ UNCHANGED <<attempts, saved, trigger, cost, disposition, runs, worker, interrupts>>

(* Without a trigger every position must have its result; with one, the    *)
(* trigger must be an infrastructure error of a strict subset.  Only the   *)
(* trigger's position may lack the harness's own evidence, and the join    *)
(* lets no other pass (dsh_tau3.py:679-686), so the checks of its status   *)
(* here (batch.py:675-680, :710-717) decide nothing more.                  *)
Missing == {p \in Position : raw[p] = Nothing}

Population ==
    IF file["trigger"] = "absent"
       THEN Missing = {}
       ELSE /\ file["trigger"] = "whole"
            /\ raw[trigger] = Infra
            /\ Missing # {}

Ingest ==
    /\ stage = "ingest"
    /\ IF file["raw"] = "whole" /\ Population THEN Goto("seal") ELSE Goto("fail")
    /\ UNCHANGED <<disk, runs, worker, interrupts>>

(* _direct_cost_lineage: the attempt that each retained result is bound to *)
(* -- for an infrastructure error, the last one that failed.               *)
FailedAttempts(p) == {k \in DOMAIN attempts[p] : attempts[p][k] = "failed"}

LastFailed(p) == CHOOSE k \in FailedAttempts(p) : \A other \in FailedAttempts(p) : other <= k

Lineage == [p \in Position |-> IF raw[p] = Infra THEN LastFailed(p) ELSE raw[p]]

HasLineage ==
    \A p \in Position :
        /\ raw[p] = Infra => FailedAttempts(p) # {}
        /\ raw[p] > 0 => attempts[p][raw[p]] \in {"exact", "inexact"}

(* Costs sealed before, with or without the batch artifact.                *)
AfterCosts == IF file["batch"] = "whole" THEN "verify" ELSE "write"

(* write_cost_accounting_once; the costs of a sealed batch are compared.   *)
Seal ==
    /\ stage = "seal"
    /\ IF ~HasLineage \/ file["cost"] = "torn" \/ (file["cost"] = "whole" /\ cost # Lineage)
          THEN Goto("fail") /\ UNCHANGED file
          ELSE IF file["cost"] = "absent"
                  THEN Goto("sealing") /\ Set("cost", "torn")
                  ELSE /\ Goto(AfterCosts)
                       /\ UNCHANGED file
    /\ UNCHANGED <<attempts, saved, trigger, raw, cost, disposition, runs, worker, interrupts>>

WriteCost ==
    /\ stage = "sealing"
    /\ Set("cost", "whole")
    /\ cost' = Lineage
    /\ Goto("write")
    /\ UNCHANGED <<attempts, saved, trigger, raw, disposition, runs, worker, interrupts>>

Holds_AnyCost(p) == raw[p] \in {Infra, Nothing}

(* The reasons to hold: an infrastructure error, a missing trial, or a     *)
(* valid run whose costs are not exact.                                    *)
Holds(p) == \/ raw[p] \in {Infra, Nothing}
            \/ attempts[p][cost[p]] # "exact"

CreateBatch ==
    /\ stage = "write"
    /\ Set("batch", "torn")
    /\ Goto("writing")
    /\ UNCHANGED <<attempts, saved, trigger, raw, cost, disposition, runs, worker, interrupts>>

WriteBatch ==
    /\ stage = "writing"
    /\ Set("batch", "whole")
    /\ disposition' = IF \E p \in Position : Holds(p) THEN "hold" ELSE "complete"
    /\ Goto("verify")
    /\ UNCHANGED <<attempts, saved, trigger, raw, cost, runs, worker, interrupts>>

(* _verify, and the COMPLETED event.                                       *)
Complete ==
    /\ stage = "verify"
    /\ IF Population THEN Terminal("completed") /\ Goto("idle")
                     ELSE Goto("fail") /\ UNCHANGED runs
    /\ UNCHANGED <<disk, worker, interrupts>>

(* The except handler records the failure and re-raises.                   *)
RecordFailure ==
    /\ stage = "fail"
    /\ Terminal("failed")
    /\ Goto("idle")
    /\ UNCHANGED <<disk, worker, interrupts>>

-----------------------------------------------------------------------------
(* Interruptions.                                                          *)

Interrupt ==
    /\ interrupts < MaxInterrupts
    /\ interrupts' = interrupts + 1
    /\ phase' = "off" /\ pos' = 1 /\ left' = 0 /\ stop' = FALSE

(* Anything raised: the doctor finds the adapter not ready, the subprocess *)
(* fails or is killed, an I/O error, Ctrl-C.                               *)
Raise ==
    /\ stage \notin {"idle", "fail"}
    /\ Interrupt
    /\ Goto("fail")
    /\ UNCHANGED <<disk, runs>>

(* The command dies with its subprocess; its ledger entry stays STARTED.   *)
Crash ==
    /\ stage # "idle"
    /\ Interrupt
    /\ Goto("idle")
    /\ UNCHANGED <<disk, runs>>

Progress ==
    \/ Resume \/ Launch \/ Work
    \/ TauDone \/ CreateRaw \/ WriteRaw \/ Ingest
    \/ Seal \/ WriteCost \/ CreateBatch \/ WriteBatch
    \/ Complete \/ RecordFailure

Next == Begin \/ Progress \/ Raise \/ Crash

Spec == Init /\ [][Next]_vars

-----------------------------------------------------------------------------
(* Properties.                                                             *)

TypeOK ==
    /\ attempts \in [Position -> Seq(Outcome)]
    /\ saved \in [Position -> Result]
    /\ file \in [File -> FileState]
    /\ trigger \in {Nothing} \cup Position
    /\ raw \in [Position -> Result]
    /\ cost \in [Position -> 0..Limit]
    /\ disposition \in {"none", "hold", "complete"}
    /\ runs \in Seq({"started", "completed", "failed"})
    /\ stage \in {"idle", "begun", "tau", "copy", "copying", "ingest", "seal", "sealing",
                  "write", "writing", "verify", "fail"}
    /\ phase \in {"off", "next", "try", "call", "save", "giveup", "stop", "trigger"}
    /\ pos \in 1..(N + 1)
    /\ left \in 0..MaxRetries
    /\ stop \in BOOLEAN
    /\ interrupts \in 0..MaxInterrupts

(* The attempts of a position never exceed the budget, counted over every  *)
(* invocation and whatever interrupted them (tau3_evidence.py:353-398).    *)
BudgetHolds == \A p \in Position : Len(attempts[p]) <= Limit

(* A result in the checkpoint is the one of the last attempt, which        *)
(* completed: no attempt follows a saved success, and no result is         *)
(* credited to an attempt that did not produce it (tau3_evidence.py:399,   *)
(* :435-451).                                                              *)
ResultIsLastAttempt ==
    \A p \in Position :
        saved[p] > 0 =>
            /\ saved[p] = Len(attempts[p])
            /\ attempts[p][saved[p]] \in {"exact", "inexact"}

(* The attempts that completed, so were paid for in whole, and are not the *)
(* result their position has in the checkpoint.                            *)
Unused(p, k) ==
    /\ k <= Len(attempts[p])
    /\ attempts[p][k] \in {"exact", "inexact"}
    /\ saved[p] # k

Unsaved == {a \in Position \X (1..Limit) : Unused(a[1], a[2])}

(* A success that was paid for is lost, and then paid again, only where an *)
(* interruption fell between its terminal event and the checkpoint         *)
(* (tau3_evidence.py:435-455; save_fn runs after recorded_run returned):   *)
(* one interruption costs at most one success, over all positions and      *)
(* invocations, and an invocation that resumes loses none.                 *)
RepeatNeedsInterruption ==
    Cardinality(Unsaved) <= interrupts + IF phase = "save" THEN 1 ELSE 0

(* What a trigger says of the batch: its position used up the budget and   *)
(* no later position was ever started -- the artifact's fixed field        *)
(* "next_position_started": False (tau3_evidence.py:545).                  *)
NextPositionNotStarted ==
    file["trigger"] = "whole" =>
        /\ Len(attempts[trigger]) = Limit
        /\ \A p \in Position : p > trigger => attempts[p] = <<>>

(* "never silently repeat a paid model batch" (batch.py:363): once there   *)
(* is a retained raw result, even a torn one, no command launches tau3     *)
(* again, and the attempts and results it was made from stay as they are.  *)
NoPaidRepeat ==
    [][file["raw"] # "absent" => stage' # "tau" /\ UNCHANGED <<attempts, saved>>]_vars

(* After the trigger is on disk no attempt starts, in this invocation or a *)
(* resumed one (tau3_evidence.py:336-338, :498-505).                       *)
TriggerStopsQueue == [][file["trigger"] = "whole" => UNCHANGED attempts]_vars

(* A COMPLETED event in the attempt ledger means there is a sealed batch   *)
(* (batch.py:551; has_completed_batch, ledger.py:333, goes by it).         *)
CompletedIsSealed ==
    (\E i \in DOMAIN runs : runs[i] = "completed") =>
        /\ file["batch"] = "whole" /\ file["cost"] = "whole" /\ file["raw"] = "whole"

(* A sealed batch agrees with the evidence it was made from: its results   *)
(* are the checkpoint's, each is bound to the attempt that produced it,    *)
(* and it is complete only if all positions are valid with exact costs;    *)
(* and completion is recorded of a sealed batch only.                      *)
SealIsBacked ==
    /\ CompletedIsSealed
    /\ file["batch"] = "whole" =>
          /\ file["raw"] = "whole" /\ file["cost"] = "whole"
          /\ raw = saved
          /\ \A p \in Position :
                /\ raw[p] > 0 => cost[p] = raw[p]
                /\ raw[p] = Infra => attempts[p][cost[p]] = "failed"
                /\ disposition = "complete" => raw[p] > 0 /\ attempts[p][raw[p]] = "exact"

(* "an exceeded limit holds the batch" (SPEC.md:529), and a failure to     *)
(* seal must not mask a failure of the evaluation (SPEC.md:538-539): a     *)
(* command that nothing interrupted does not fail once it has the results. *)
UninterruptedIsSealed ==
    (interrupts = 0 /\ file["raw"] = "whole") => stage # "fail"
=============================================================================
