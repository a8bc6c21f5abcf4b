------------------------- MODULE FormalBatchProofs -------------------------
(***************************************************************************)
(* Proofs about FormalBatch for any number of positions, any budget and    *)
(* any bounds.  IInv adds to the properties what the worker knows of its   *)
(* position, which files exist at which stage of the command, and that     *)
(* what is retained and sealed still is what it was made from; FrontierInv *)
(* adds how far the queue has got.                                         *)
(***************************************************************************)
EXTENDS FormalBatch, TLAPS, NaturalsInduction, SequenceTheorems, FiniteSetTheorems,
        WellFoundedInduction

USE CountAssumption DEF Position, Nothing, Infra

-----------------------------------------------------------------------------
(* The inductive invariant.                                                *)

Last(p) == attempts[p][Len(attempts[p])]

(* The worker's position has no result until it is saved, and its last     *)
(* attempt is as far as the worker is.                                     *)
WorkerInv ==
    /\ stage = "tau" <=> phase # "off"
    /\ phase \notin {"off", "next"} => pos \in Position
    /\ phase \in {"try", "call", "save", "giveup"} => saved[pos] = Nothing
    /\ phase = "call" => attempts[pos] # <<>> /\ Last(pos) = "started"
    /\ phase = "save" => attempts[pos] # <<>> /\ Last(pos) \in {"exact", "inexact"}

(* A worker that goes on found no trigger; one that stopped wrote it or    *)
(* found it.                                                               *)
TriggerInv ==
    /\ phase \in {"try", "call", "save", "giveup", "stop"} => ~stop
    /\ (phase # "off" /\ ~stop) => file["trigger"] = "absent"
    /\ phase = "trigger" => stop

(* The files come to be in the order of the stages.                        *)
FilesInv ==
    /\ file["batch"] # "absent" => file["cost"] = "whole"
    /\ file["cost"] # "absent" => file["raw"] = "whole"
    /\ stage \in {"tau", "copy"} => file["raw"] = "absent"
    /\ stage = "copying" => file["raw"] = "torn"
    /\ stage \in {"seal", "sealing", "write", "writing", "verify"} => file["raw"] = "whole"
    /\ stage = "sealing" => file["cost"] = "torn"
    /\ stage \in {"write", "writing", "verify"} => file["cost"] = "whole"
    /\ stage \in {"ingest", "write"} => file["batch"] = "absent"
    /\ stage = "seal" => file["batch"] # "torn"
    /\ stage = "writing" => file["batch"] = "torn"
    /\ stage = "verify" => file["batch"] = "whole"

(* What is retained is the checkpoint, what is sealed is its lineage.      *)
EvidenceInv ==
    /\ file["raw"] = "whole" => raw = saved
    /\ stage = "sealing" => HasLineage
    /\ file["cost"] = "whole" => HasLineage /\ cost = Lineage
    /\ (file["batch"] = "whole" /\ disposition = "complete") =>
          \A p \in Position : ~Holds(p)

RunsInv ==
    /\ stage # "idle" => runs # <<>>
    /\ \A i \in DOMAIN runs : runs[i] = "completed" => file["batch"] = "whole"

IInv == /\ TypeOK /\ BudgetHolds /\ ResultIsLastAttempt
        /\ WorkerInv /\ TriggerInv /\ FilesInv /\ EvidenceInv /\ RunsInv

-----------------------------------------------------------------------------
(* Attempts of a position are numbered from 1 within the budget, so a      *)
(* position with a failed attempt has a last one.                          *)

(* A non-empty set of numbers up to n has a greatest member.               *)
LEMMA GreatestExists ==
    ASSUME NEW n \in Nat, NEW S, S \subseteq 1..n, S # {}
    PROVE  \E k \in S : \A other \in S : other <= k
  <1> DEFINE T == {n - k : k \in S}
             R == OpToRel(<, Nat)
  <1>0. \A k \in S : k \in Int /\ n - k \in Nat /\ n - k \in T
    OBVIOUS
  <1>1. T \subseteq Nat /\ T # {}
    BY <1>0
  <1>2. IsWellFoundedOn(R, Nat)
    BY NatLessThanWellFounded
  <1>3. PICK x \in T : \A y \in T : ~ (<<y, x>> \in R)
    BY <1>1, <1>2, WFMin
  <1>4. \A y \in T : ~ (y < x)
    BY <1>1, <1>3 DEF OpToRel
  <1>5. PICK k \in S : x = n - k
    BY <1>3
  <1>6. ASSUME NEW other \in S PROVE other <= k
    <2>1. ~ (n - other < n - k)
      BY <1>0, <1>4, <1>5
    <2> QED
      BY <1>0, <2>1
  <1> QED
    BY <1>6

(* The last failed attempt of a position is one of its failed attempts.    *)
LEMMA LastFailedFailed ==
    ASSUME TypeOK, BudgetHolds, NEW p \in Position, FailedAttempts(p) # {}
    PROVE  LastFailed(p) \in FailedAttempts(p) /\ LastFailed(p) \in 1..Limit
  <1>1. FailedAttempts(p) \subseteq 1..Limit
    BY DEF TypeOK, BudgetHolds, FailedAttempts
  <1>2. \E k \in FailedAttempts(p) : \A other \in FailedAttempts(p) : other <= k
    BY <1>1, GreatestExists
  <1>3. LastFailed(p) \in FailedAttempts(p)
    BY <1>2 DEF LastFailed
  <1> QED
    BY <1>1, <1>3

-----------------------------------------------------------------------------
(* The initial state.                                                      *)

(* The invariant holds before the first command.                           *)
LEMMA InitIInv == Init => IInv
  <1> SUFFICES ASSUME Init PROVE IInv
    OBVIOUS
  <1>1. TypeOK
    <2>1. attempts \in [Position -> Seq(Outcome)]
      BY DEF Init
    <2>2. /\ saved \in [Position -> Result] /\ raw \in [Position -> Result]
          /\ cost \in [Position -> 0..Limit]
      BY DEF Init, Result
    <2>3. file \in [File -> FileState]
      BY DEF Init, File, FileState
    <2>4. runs \in Seq({"started", "completed", "failed"})
      BY DEF Init
    <2>5. /\ trigger \in {Nothing} \cup Position /\ pos \in 1..(N + 1)
          /\ left \in 0..MaxRetries /\ interrupts \in 0..MaxInterrupts
      BY DEF Init
    <2> QED
      BY <2>1, <2>2, <2>3, <2>4, <2>5 DEF Init, TypeOK
  <1>2. BudgetHolds /\ ResultIsLastAttempt
    BY DEF Init, BudgetHolds, ResultIsLastAttempt
  <1>3. WorkerInv /\ TriggerInv /\ FilesInv /\ EvidenceInv /\ RunsInv
    BY DEF Init, WorkerInv, TriggerInv, FilesInv, EvidenceInv, RunsInv, File
  <1> QED
    BY <1>1, <1>2, <1>3 DEF IInv

-----------------------------------------------------------------------------
(* Types.                                                                  *)

(* The worker's actions.                                                   *)
LEMMA WorkType ==
    ASSUME IInv, Work PROVE TypeOK'
  <1> USE DEF IInv, TypeOK, disk, worker, At, Outcome, Result, File, FileState
  <1>1. CASE Skip
    BY <1>1 DEF Skip, Next1
  <1>2. CASE Admit
    <2>1. pos \in Position /\ attempts[pos] \in Seq(Outcome)
      BY <1>2 DEF Admit
    <2>2. Consumed(pos) \in Nat
      BY ONLY <2>1 DEF Consumed
    <2>3. phase' \in {"giveup", "try"}
      BY <1>2 DEF Admit
    <2>4. left' = 0 \/ left' = MaxRetries
          \/ (left' = Limit - Consumed(pos) - 1 /\ ~ (Consumed(pos) >= Limit) /\ left' <= MaxRetries)
      BY ONLY <1>2, <2>2, CountAssumption DEF Admit, Lower
    <2>5. left' \in 0..MaxRetries
      BY ONLY <2>2, <2>4, CountAssumption
    <2>6. UNCHANGED <<disk, runs, stage, pos, stop, interrupts>>
      BY <1>2 DEF Admit
    <2> QED
      BY <2>3, <2>5, <2>6
  <1>3. CASE StartAttempt
    <2>1. attempts' \in [Position -> Seq(Outcome)]
      <3>1. Append(attempts[pos], "started") \in Seq(Outcome)
        BY <1>3 DEF StartAttempt
      <3> QED
        BY <1>3, <3>1 DEF StartAttempt
    <2>2. phase' \in {"try", "call", "giveup"} /\ (left' = left \/ (left > 0 /\ left' = left - 1))
      BY ONLY <1>3 DEF StartAttempt, Retry
    <2>3. left' \in 0..MaxRetries
      BY <2>2
    <2>4. UNCHANGED <<saved, file, trigger, raw, cost, disposition, runs, stage,
                      pos, stop, interrupts>>
      BY <1>3 DEF StartAttempt
    <2> QED
      BY <2>1, <2>2, <2>3, <2>4
  <1>4. CASE FailAttempt
    <2>1. attempts' \in [Position -> Seq(Outcome)]
      BY <1>4 DEF FailAttempt, FinishAttempt, WorkerInv
    <2>2. phase' \in {"try", "giveup"} /\ (left' = left \/ (left > 0 /\ left' = left - 1))
      BY ONLY <1>4 DEF FailAttempt, Retry
    <2>3. left' \in 0..MaxRetries
      BY <2>2
    <2>4. UNCHANGED <<saved, file, trigger, raw, cost, disposition, runs, stage,
                      pos, stop, interrupts>>
      BY <1>4 DEF FailAttempt
    <2> QED
      BY <2>1, <2>2, <2>3, <2>4
  <1>5. CASE CompleteAttempt
    <2>1. PICK outcome \in {"exact", "inexact"} : FinishAttempt(outcome)
      BY <1>5 DEF CompleteAttempt
    <2>2. attempts' \in [Position -> Seq(Outcome)]
      BY <1>5, <2>1 DEF CompleteAttempt, FinishAttempt, WorkerInv
    <2>3. phase' = "save"
          /\ UNCHANGED <<saved, file, trigger, raw, cost, disposition, runs, stage,
                         pos, left, stop, interrupts>>
      BY <1>5 DEF CompleteAttempt
    <2> QED
      BY <2>2, <2>3
  <1>6. CASE SaveResult
    <2>1. /\ pos \in Position /\ attempts[pos] # <<>> /\ attempts[pos] \in Seq(Outcome)
          /\ Len(attempts[pos]) <= Limit
      BY <1>6 DEF SaveResult, BudgetHolds, WorkerInv
    <2>2. Len(attempts[pos]) \in 1..Limit
      BY ONLY <2>1, CountAssumption
    <2>3. Len(attempts[pos]) \in Result
      BY ONLY <2>2 DEF Result
    <2>4. saved' = [saved EXCEPT ![pos] = Len(attempts[pos])]
      BY <1>6 DEF SaveResult, SavedResult
    <2>5. saved' \in [Position -> Result]
      <3>1. saved \in [Position -> Result]
        OBVIOUS
      <3> QED
        BY ONLY <2>1, <2>3, <2>4, <3>1
    <2>6. pos' \in 1..(N + 1) /\ left' \in 0..MaxRetries
      BY <1>6, <2>1 DEF SaveResult, Next1
    <2>7. /\ phase' = "next"
          /\ UNCHANGED <<attempts, file, trigger, raw, cost, disposition, runs, stage,
                         stop, interrupts>>
      BY ONLY <1>6 DEF SaveResult, Next1
    <2> QED
      BY <2>5, <2>6, <2>7
  <1>7. CASE GiveUp
    <2>1. saved' \in [Position -> Result]
      <3>1. Infra \in Result
        BY DEF Result
      <3> QED
        BY <1>7, <3>1 DEF GiveUp
    <2>2. /\ phase' \in {"stop", "next"} /\ pos \in Position
          /\ pos' = pos \/ pos' = pos + 1
          /\ left' = left \/ left' = 0
      BY ONLY <1>7 DEF GiveUp, Next1, At
    <2>3. pos' \in 1..(N + 1) /\ left' \in 0..MaxRetries
      BY <2>2
    <2> QED
      BY <1>7, <2>1, <2>2, <2>3 DEF GiveUp
  <1>8. CASE CreateTrigger
    BY <1>8 DEF CreateTrigger, Set
  <1>9. CASE WriteTrigger
    BY <1>9 DEF WriteTrigger, Set, Next1
  <1> QED
    BY <1>1, <1>2, <1>3, <1>4, <1>5, <1>6, <1>7, <1>8, <1>9 DEF Work

(* The sealed lineage names an attempt of every retained result.           *)
LEMMA LineageType ==
    ASSUME TypeOK, BudgetHolds, HasLineage PROVE Lineage \in [Position -> 0..Limit]
  <1> SUFFICES ASSUME NEW p \in Position
               PROVE  (IF raw[p] = Infra THEN LastFailed(p) ELSE raw[p]) \in 0..Limit
    BY DEF Lineage
  <1>1. CASE raw[p] = Infra
    BY <1>1, LastFailedFailed DEF HasLineage
  <1>2. CASE raw[p] # Infra
    BY <1>2 DEF TypeOK, Result
  <1> QED
    BY <1>1, <1>2

(* The command's actions and the interruptions.                            *)
LEMMA CommandType ==
    ASSUME IInv, Next, ~Work PROVE TypeOK'
  <1> USE DEF IInv, TypeOK, disk, worker, Outcome, Result, File, FileState,
              Goto, Set, Terminal
  <1>1. CASE Begin
    BY <1>1 DEF Begin
  <1>2. CASE Resume
    BY <1>2 DEF Resume
  <1>3. CASE Launch
    <2>1. saved' \in [Position -> Result]
      <3>1. Nothing \in Result
        BY DEF Result
      <3> QED
        BY <1>3, <3>1 DEF Launch, Kept
    <2>2. /\ pos' = pos \/ pos' = 1
          /\ left' = left \/ left' = 0
          /\ stop' = stop \/ stop' = StoppedBefore
      BY <1>3, Zenon DEF Launch
    <2>3. /\ stage' \in {"fail", "tau"} /\ phase' \in {phase, "next"}
          /\ UNCHANGED <<attempts, file, trigger, raw, cost, disposition, runs, interrupts>>
      BY <1>3 DEF Launch
    <2>4. pos' \in 1..(N + 1) /\ left' \in 0..MaxRetries
      BY <2>2
    <2>5. stop' \in BOOLEAN
      BY <2>2, Zenon DEF StoppedBefore
    <2> QED
      BY <2>1, <2>3, <2>4, <2>5
  <1>4. CASE TauDone \/ CreateRaw \/ WriteRaw \/ Ingest
    <2>1. CASE TauDone
      BY <2>1 DEF TauDone
    <2>2. CASE CreateRaw
      BY <2>2 DEF CreateRaw
    <2>3. CASE WriteRaw
      BY <2>3 DEF WriteRaw
    <2>4. CASE Ingest
      BY <2>4 DEF Ingest
    <2> QED
      BY <1>4, <2>1, <2>2, <2>3, <2>4
  <1>5. CASE Seal
    BY <1>5 DEF Seal, AfterCosts
  <1>6. CASE WriteCost
    <2>1. cost' \in [Position -> 0..Limit]
      BY <1>6, LineageType DEF WriteCost, EvidenceInv
    <2> QED
      BY <1>6, <2>1 DEF WriteCost
  <1>7. CASE CreateBatch \/ WriteBatch
    <2>1. CASE CreateBatch
      BY <2>1 DEF CreateBatch
    <2>2. CASE WriteBatch
      BY <2>2 DEF WriteBatch
    <2> QED
      BY <1>7, <2>1, <2>2
  <1>8. CASE Complete \/ RecordFailure
    <2>1. stage # "idle"
      BY <1>8 DEF Complete, RecordFailure
    <2>2. Len(runs) \in DOMAIN runs
      BY <2>1 DEF RunsInv
    <2>3. /\ runs' = runs \/ \E state \in {"completed", "failed"} :
                                runs' = [runs EXCEPT ![Len(runs)] = state]
          /\ stage' \in {"idle", "fail"} /\ UNCHANGED <<disk, worker, interrupts>>
      BY <1>8 DEF Complete, RecordFailure
    <2>4. runs' \in Seq({"started", "completed", "failed"})
      <3> DEFINE E == {"started", "completed", "failed"}
      <3>1. ASSUME NEW state \in E PROVE [runs EXCEPT ![Len(runs)] = state] \in Seq(E)
        <4>1. runs \in Seq(E)
          OBVIOUS
        <4> QED
          BY <4>1, <2>2, ExceptSeq
      <3> QED
        BY <2>3, <3>1
    <2> QED
      BY <2>3, <2>4
  <1>9. CASE Raise \/ Crash
    <2>1. /\ interrupts' \in 0..MaxInterrupts /\ pos' \in 1..(N + 1) /\ left' \in 0..MaxRetries
          /\ phase' = "off" /\ stop' = FALSE
      <3>1. Interrupt
        BY <1>9 DEF Raise, Crash
      <3>2. pos' = 1 /\ left' = 0 /\ phase' = "off" /\ stop' = FALSE
            /\ interrupts' = interrupts + 1 /\ interrupts < MaxInterrupts
        BY <3>1 DEF Interrupt
      <3>3. interrupts' \in 0..MaxInterrupts
        BY <3>2
      <3>4. 1 \in 1..(N + 1) /\ 0 \in 0..MaxRetries
        OBVIOUS
      <3> QED
        BY <3>2, <3>3, <3>4
    <2>2. stage' \in {"idle", "fail"} /\ UNCHANGED <<disk, runs>>
      BY <1>9 DEF Raise, Crash
    <2> QED
      BY <2>1, <2>2
  <1> QED
    BY <1>1, <1>2, <1>3, <1>4, <1>5, <1>6, <1>7, <1>8, <1>9 DEF Next, Progress

(* Every step keeps the types.                                             *)
LEMMA NextType == ASSUME IInv, [Next]_vars PROVE TypeOK'
  <1>1. CASE UNCHANGED vars
    BY <1>1 DEF IInv, TypeOK, vars, disk, worker
  <1> QED
    BY <1>1, WorkType, CommandType
-----------------------------------------------------------------------------
(* The attempts and the checkpoint.                                        *)

(* Only three actions write the task-attempt ledger.                       *)
LEMMA AttemptsFrame ==
    ASSUME [Next]_vars
    PROVE  StartAttempt \/ FailAttempt \/ CompleteAttempt \/ UNCHANGED attempts
  BY DEF vars, disk, Next, Progress, Work, Begin, Resume, Launch, Skip, Admit, SaveResult,
         GiveUp, CreateTrigger, WriteTrigger, TauDone, CreateRaw, WriteRaw, Ingest, Seal,
         WriteCost, CreateBatch, WriteBatch, Complete, RecordFailure, Raise, Crash

(* Only three actions write the checkpoint.                                *)
LEMMA SavedFrame ==
    ASSUME [Next]_vars
    PROVE  Launch \/ SaveResult \/ GiveUp \/ UNCHANGED saved
  BY DEF vars, disk, Next, Progress, Work, Begin, Resume, Skip, Admit, StartAttempt,
         FailAttempt, CompleteAttempt, CreateTrigger, WriteTrigger, TauDone, CreateRaw,
         WriteRaw, Ingest, Seal, WriteCost, CreateBatch, WriteBatch, Complete,
         RecordFailure, Raise, Crash

(* An attempt that starts is the last one of its position.                 *)
LEMMA StartEffect ==
    ASSUME IInv, StartAttempt
    PROVE  /\ pos \in Position
           /\ \A p \in Position \ {pos} : attempts'[p] = attempts[p]
           /\ \/ UNCHANGED attempts
              \/ /\ Len(attempts'[pos]) = Len(attempts[pos]) + 1 /\ Len(attempts[pos]) < Limit
                 /\ attempts'[pos] # <<>> /\ attempts'[pos][Len(attempts'[pos])] = "started"
  <1>1. pos \in Position
    BY DEF StartAttempt, At
  <1>2. attempts[pos] \in Seq(Outcome) /\ attempts \in [Position -> Seq(Outcome)]
    BY <1>1 DEF IInv, TypeOK
  <1>3. CASE Consumed(pos) < Limit
    <2>1. attempts' = [attempts EXCEPT ![pos] = Append(attempts[pos], "started")]
      BY <1>3 DEF StartAttempt
    <2>2. /\ attempts'[pos] = Append(attempts[pos], "started")
          /\ \A p \in Position \ {pos} : attempts'[p] = attempts[p]
      BY <1>1, <1>2, <2>1
    <2>3. "started" \in Outcome
      BY DEF Outcome
    <2>4. /\ Len(attempts'[pos]) = Len(attempts[pos]) + 1
          /\ attempts'[pos][Len(attempts[pos]) + 1] = "started"
      BY <1>2, <2>2, <2>3, AppendProperties
    <2>5. Len(attempts[pos]) \in Nat
      BY <1>2
    <2>6. attempts'[pos] # <<>>
      BY <2>4, <2>5
    <2> QED
      BY <1>1, <1>3, <2>2, <2>4, <2>6 DEF Consumed
  <1>4. CASE ~ (Consumed(pos) < Limit)
    BY <1>1, <1>4 DEF StartAttempt
  <1> QED
    BY <1>3, <1>4

(* An attempt that ends changes nothing but the last event of its position.*)
LEMMA FinishEffect ==
    ASSUME IInv, At("call"), NEW outcome \in Outcome, FinishAttempt(outcome)
    PROVE  /\ pos \in Position /\ attempts'[pos] # <<>>
           /\ \A p \in Position : Len(attempts'[p]) = Len(attempts[p])
           /\ \A p \in Position \ {pos} : attempts'[p] = attempts[p]
           /\ attempts'[pos][Len(attempts'[pos])] = outcome
  <1>1. pos \in Position /\ attempts[pos] # <<>>
    BY DEF IInv, WorkerInv, At
  <1>2. attempts[pos] \in Seq(Outcome) /\ attempts \in [Position -> Seq(Outcome)]
    BY <1>1 DEF IInv, TypeOK
  <1>3. Len(attempts[pos]) \in 1..Len(attempts[pos])
    BY <1>1, <1>2
  <1> DEFINE ended == [attempts[pos] EXCEPT ![Len(attempts[pos])] = outcome]
  <1>4. /\ attempts'[pos] = ended
        /\ \A p \in Position \ {pos} : attempts'[p] = attempts[p]
    BY <1>1, <1>2 DEF FinishAttempt
  <1>5. /\ Len(ended) = Len(attempts[pos]) /\ ended[Len(attempts[pos])] = outcome
        /\ ended \in Seq(Outcome)
    BY <1>2, <1>3, ExceptSeq
  <1> QED
    BY <1>1, <1>3, <1>4, <1>5

(* What the end of an attempt does to the ledger.                          *)
LEMMA FinishStep ==
    ASSUME IInv, FailAttempt \/ CompleteAttempt
    PROVE  \E outcome \in Outcome : At("call") /\ FinishAttempt(outcome) /\ UNCHANGED saved
  BY DEF FailAttempt, CompleteAttempt, Outcome

(* No step exceeds the budget of a position.                               *)
LEMMA BudgetStep == ASSUME IInv, [Next]_vars PROVE BudgetHolds'
  <1>1. CASE StartAttempt
    <2> SUFFICES ASSUME NEW p \in Position PROVE Len(attempts'[p]) <= Limit
      BY DEF BudgetHolds
    <2>1. Len(attempts[p]) <= Limit /\ attempts[pos] \in Seq(Outcome)
      BY <1>1, StartEffect DEF IInv, TypeOK, BudgetHolds
    <2>2. Len(attempts[pos]) \in Nat
      BY <2>1
    <2> QED
      BY <1>1, <2>1, <2>2, StartEffect
  <1>2. CASE FailAttempt \/ CompleteAttempt
    BY <1>2, FinishStep, FinishEffect DEF IInv, BudgetHolds
  <1>3. CASE UNCHANGED attempts
    BY <1>3 DEF IInv, BudgetHolds
  <1> QED
    BY <1>1, <1>2, <1>3, AttemptsFrame

(* The attempts of a position change only while it has no result.          *)
LEMMA AttemptsOfOpen ==
    ASSUME IInv, [Next]_vars, NEW p \in Position, saved[p] # Nothing
    PROVE  attempts'[p] = attempts[p]
  <1>1. CASE StartAttempt
    BY <1>1, StartEffect DEF StartAttempt, At, IInv, WorkerInv
  <1>2. CASE FailAttempt \/ CompleteAttempt
    BY <1>2, FinishStep, FinishEffect DEF At, IInv, WorkerInv
  <1> QED
    BY <1>1, <1>2, AttemptsFrame

(* No step separates a saved success from its last attempt.                *)
LEMMA ResultStep == ASSUME IInv, [Next]_vars PROVE ResultIsLastAttempt'
  <1> SUFFICES ASSUME NEW p \in Position, saved'[p] > 0
               PROVE  /\ saved'[p] = Len(attempts'[p])
                      /\ attempts'[p][saved'[p]] \in {"exact", "inexact"}
    BY DEF ResultIsLastAttempt
  <1>1. CASE saved[p] = saved'[p]
    <2>1. attempts'[p] = attempts[p]
      BY <1>1, AttemptsOfOpen
    <2> QED
      BY <1>1, <2>1 DEF IInv, ResultIsLastAttempt
  <1>2. CASE Launch /\ saved'[p] # saved[p]
    <2>1. saved'[p] \in {Nothing, saved[p]}
      BY <1>2 DEF Launch, Kept
    <2> QED
      BY <1>2, <2>1
  <1>3. CASE SaveResult /\ saved'[p] # saved[p]
    <2>1. p = pos /\ saved'[p] = Len(attempts[p]) /\ UNCHANGED attempts
      BY <1>3 DEF SaveResult, SavedResult, At, IInv, TypeOK
    <2>2. attempts[pos][Len(attempts[pos])] \in {"exact", "inexact"}
      BY <1>3 DEF SaveResult, At, IInv, WorkerInv, Last
    <2> QED
      BY <2>1, <2>2
  <1>4. CASE GiveUp /\ saved'[p] # saved[p]
    <2>1. saved'[p] = -1
      BY <1>4 DEF GiveUp, IInv, TypeOK
    <2> QED
      BY <2>1
  <1> QED
    BY <1>1, <1>2, <1>3, <1>4, SavedFrame
-----------------------------------------------------------------------------
(* The worker and the trigger.                                             *)

(* Everything but the worker's actions and the launch leaves the command   *)
(* without a worker.                                                       *)
LEMMA CommandFrame ==
    ASSUME IInv, [Next]_vars, ~Work, ~Launch
    PROVE  \/ UNCHANGED <<stage, worker>> /\ UNCHANGED <<attempts, saved, file>>
           \/ stage' # "tau" /\ phase' = "off" /\ UNCHANGED <<attempts, saved>>
  <1>1. CASE UNCHANGED vars
    BY <1>1 DEF vars, disk, worker
  <1>2. CASE Begin \/ Resume \/ CreateRaw \/ WriteRaw \/ Ingest \/ Seal
    BY <1>2 DEF Begin, Resume, CreateRaw, WriteRaw, Ingest, Seal, AfterCosts, Goto, disk,
                worker, IInv, WorkerInv
  <1>3. CASE WriteCost \/ CreateBatch \/ WriteBatch \/ Complete \/ RecordFailure
    BY <1>3 DEF WriteCost, CreateBatch, WriteBatch, Complete, RecordFailure, Goto, disk,
                worker, IInv, WorkerInv
  <1>4. CASE TauDone \/ Raise \/ Crash
    BY <1>4 DEF TauDone, Raise, Crash, Interrupt, Goto, disk, worker
  <1> QED
    BY <1>1, <1>2, <1>3, <1>4 DEF Next, Progress

(* No step makes the worker wrong about its position.                      *)
LEMMA WorkerStep == ASSUME IInv, [Next]_vars PROVE WorkerInv'
  <1> USE DEF IInv, WorkerInv, At, Last, Next1
  <1>1. CASE Skip \/ SaveResult \/ WriteTrigger
    BY <1>1 DEF Skip, SaveResult, WriteTrigger
  <1>2. CASE Admit \/ CreateTrigger
    BY <1>2 DEF Admit, CreateTrigger, disk
  <1>3. CASE StartAttempt
    <2>1. pos \in Position /\ attempts \in [Position -> Seq(Outcome)]
      BY <1>3 DEF StartAttempt, TypeOK
    <2>2. CASE Consumed(pos) < Limit
      <3>1. attempts'[pos] = Append(attempts[pos], "started")
        BY <1>3, <2>1, <2>2 DEF StartAttempt
      <3>2. attempts'[pos] # attempts[pos]
        BY <2>1, <3>1
      <3> QED
        BY <1>3, <2>2, <3>2, StartEffect DEF StartAttempt
    <2>3. CASE ~ (Consumed(pos) < Limit)
      BY <1>3, <2>3 DEF StartAttempt, Retry
    <2> QED
      BY <2>2, <2>3
  <1>4. CASE FailAttempt
    BY <1>4 DEF FailAttempt, Retry
  <1>5. CASE CompleteAttempt
    <2>1. PICK outcome \in {"exact", "inexact"} : FinishAttempt(outcome)
      BY <1>5 DEF CompleteAttempt
    <2>2. attempts'[pos] # <<>> /\ attempts'[pos][Len(attempts'[pos])] = outcome
      BY <1>5, <2>1, FinishEffect DEF CompleteAttempt, Outcome
    <2> QED
      BY <1>5, <2>1, <2>2 DEF CompleteAttempt
  <1>6. CASE GiveUp
    BY <1>6 DEF GiveUp
  <1>7. CASE Launch
    BY <1>7 DEF Launch, Goto, worker
  <1>8. CASE ~Work /\ ~Launch
    BY <1>8, CommandFrame DEF worker
  <1> QED
    BY <1>1, <1>2, <1>3, <1>4, <1>5, <1>6, <1>7, <1>8 DEF Work

(* No step lets the worker go on once a trigger exists.                    *)
LEMMA TriggerStep == ASSUME IInv, [Next]_vars PROVE TriggerInv'
  <1> USE DEF IInv, WorkerInv, TriggerInv, At, Next1
  <1>1. CASE Skip \/ Admit
    BY <1>1 DEF Skip, Admit, Guarded, disk
  <1>2. CASE StartAttempt \/ FailAttempt
    BY <1>2 DEF StartAttempt, FailAttempt, Retry
  <1>3. CASE CompleteAttempt \/ SaveResult \/ GiveUp
    BY <1>3 DEF CompleteAttempt, SaveResult, GiveUp
  <1>4. CASE CreateTrigger \/ WriteTrigger
    BY <1>4 DEF CreateTrigger, WriteTrigger
  <1>5. CASE Launch
    <2>1. file["trigger"] \in FileState
      BY DEF TypeOK, File
    <2> QED
      BY <1>5, <2>1 DEF Launch, StoppedBefore, Goto, worker, FileState
  <1>6. CASE ~Work /\ ~Launch
    BY <1>6, CommandFrame DEF worker
  <1> QED
    BY <1>1, <1>2, <1>3, <1>4, <1>5, <1>6 DEF Work

-----------------------------------------------------------------------------
(* The files and what they hold.                                           *)

(* The worker writes no file but the trigger.                              *)
LEMMA WorkFiles ==
    ASSUME IInv, Work
    PROVE  /\ stage = "tau" /\ stage' = "tau"
           /\ \A f \in {"raw", "cost", "batch"} : file'[f] = file[f]
           /\ UNCHANGED <<raw, cost, disposition, runs>>
  <1> USE DEF IInv, TypeOK, File, At, disk, Set
  <1>1. CASE Skip \/ Admit \/ StartAttempt \/ FailAttempt \/ CompleteAttempt
    BY <1>1 DEF Skip, Admit, StartAttempt, FailAttempt, CompleteAttempt
  <1>2. CASE SaveResult \/ GiveUp \/ CreateTrigger \/ WriteTrigger
    BY <1>2 DEF SaveResult, GiveUp, CreateTrigger, WriteTrigger
  <1> QED
    BY <1>1, <1>2 DEF Work

(* No step makes a file before those it needs.                             *)
LEMMA FilesStep == ASSUME IInv, [Next]_vars PROVE FilesInv'
  <1> USE DEF IInv, FilesInv
  <1>0. file \in [File -> FileState]
    BY DEF TypeOK
  <1>1. CASE Work
    BY <1>1, WorkFiles
  <1>2. CASE Begin \/ Resume \/ Launch
    BY <1>0, <1>2 DEF Begin, Resume, Launch, ToBeRun, Goto, disk, File, FileState
  <1>3. CASE TauDone \/ Ingest
    BY <1>3 DEF TauDone, Ingest, Goto, disk
  <1>4. CASE CreateRaw \/ WriteRaw
    BY <1>0, <1>4 DEF CreateRaw, WriteRaw, Goto, Set, File
  <1>5. CASE Seal
    BY <1>0, <1>5 DEF Seal, AfterCosts, Goto, Set, File, FileState
  <1>6. CASE WriteCost
    BY <1>0, <1>6 DEF WriteCost, Goto, Set, File
  <1>7. CASE CreateBatch \/ WriteBatch
    BY <1>0, <1>7 DEF CreateBatch, WriteBatch, Goto, Set, File
  <1>8. CASE Complete \/ RecordFailure \/ Raise \/ Crash
    BY <1>8 DEF Complete, RecordFailure, Raise, Crash, Goto, disk
  <1>9. CASE UNCHANGED vars
    BY <1>9 DEF vars, disk
  <1> QED
    BY <1>1, <1>2, <1>3, <1>4, <1>5, <1>6, <1>7, <1>8, <1>9 DEF Next, Progress

(* Once a raw result is there, tau3 is not launched and the attempts and   *)
(* the checkpoint stay.                                                    *)
LEMMA PaidStep ==
    ASSUME IInv, [Next]_vars, file["raw"] # "absent"
    PROVE  stage' # "tau" /\ UNCHANGED <<attempts, saved>>
  <1>1. ~Work
    BY WorkFiles DEF IInv, FilesInv
  <1>2. CASE Launch
    BY <1>2 DEF Launch, ToBeRun
  <1>3. CASE ~Launch
    BY <1>1, <1>3, CommandFrame DEF IInv, FilesInv, worker
  <1> QED
    BY <1>2, <1>3
(* Of the retained and the sealed, each changes in one action only.        *)
LEMMA EvidenceFrame ==
    ASSUME IInv, [Next]_vars
    PROVE  /\ WriteRaw \/ UNCHANGED raw
           /\ WriteCost \/ UNCHANGED cost
           /\ WriteBatch \/ UNCHANGED disposition
  <1>1. CASE Work
    BY <1>1, WorkFiles, Zenon DEF Work, Skip, Admit, StartAttempt, FailAttempt,
       CompleteAttempt, SaveResult, GiveUp, CreateTrigger, WriteTrigger, disk
  <1>2. CASE ~Work
    BY <1>2 DEF Next, Progress, vars, disk, Begin, Resume, Launch, TauDone, CreateRaw,
                WriteRaw, Ingest, Seal, WriteCost, CreateBatch, WriteBatch, Complete,
                RecordFailure, Raise, Crash
  <1> QED
    BY <1>1, <1>2

(* Once the raw result is whole, a file that is whole stays so.            *)
LEMMA WholeStays ==
    ASSUME IInv, [Next]_vars
    PROVE  \A f \in {"raw", "cost", "batch"} : file[f] = "whole" => file'[f] = "whole"
  <1> USE DEF IInv, FilesInv
  <1>1. CASE Work
    BY <1>1, WorkFiles
  <1>2. CASE CreateRaw \/ WriteRaw \/ Seal \/ WriteCost \/ CreateBatch \/ WriteBatch
    BY <1>2 DEF CreateRaw, WriteRaw, Seal, WriteCost, CreateBatch, WriteBatch, Goto, Set,
                TypeOK, File
  <1>3. CASE ~Work /\ UNCHANGED file
    BY <1>3
  <1> QED
    BY <1>1, <1>2, <1>3 DEF Next, Progress, vars, disk, Begin, Resume, Launch, TauDone,
       Ingest, Complete, RecordFailure, Raise, Crash

(* A file becomes whole only in the action that writes it.                 *)
LEMMA WholeFrame ==
    ASSUME IInv, [Next]_vars
    PROVE  /\ file'["raw"] = "whole" => file["raw"] = "whole" \/ WriteRaw
           /\ file'["cost"] = "whole" => file["cost"] = "whole" \/ WriteCost
           /\ file'["batch"] = "whole" => file["batch"] = "whole" \/ WriteBatch
           /\ stage' = "sealing" => stage = "sealing" \/ Seal
  <1> USE DEF IInv, TypeOK, File
  <1>1. CASE Work
    BY <1>1, WorkFiles
  <1>2. CASE Begin \/ Resume \/ Launch \/ TauDone \/ Ingest
    BY <1>2 DEF Begin, Resume, Launch, TauDone, Ingest, Goto, disk
  <1>3. CASE CreateRaw \/ WriteRaw \/ Seal \/ WriteCost
    BY <1>3 DEF CreateRaw, WriteRaw, Seal, WriteCost, Goto, Set
  <1>4. CASE CreateBatch \/ WriteBatch
    BY <1>4 DEF CreateBatch, WriteBatch, Goto, Set
  <1>5. CASE Complete \/ RecordFailure \/ Raise \/ Crash \/ UNCHANGED vars
    BY <1>5 DEF Complete, RecordFailure, Raise, Crash, Goto, disk, vars
  <1> QED
    BY <1>1, <1>2, <1>3, <1>4, <1>5 DEF Next, Progress

(* No step lets what is retained or sealed disagree with its origin.       *)
LEMMA EvidenceStep == ASSUME IInv, [Next]_vars PROVE EvidenceInv'
  <1> USE DEF IInv
  (* The results and attempts stand still once the costs are being sealed. *)
  <1>0. ASSUME file["cost"] # "absent"
        PROVE  UNCHANGED <<attempts, saved, raw>> /\ Lineage' = Lineage
               /\ HasLineage' = HasLineage
    <2>1. UNCHANGED <<attempts, saved, raw>>
      BY <1>0, PaidStep, EvidenceFrame DEF FilesInv, WriteRaw
    <2> QED
      BY <2>1 DEF Lineage, HasLineage, LastFailed, FailedAttempts
  <1>1. (file["raw"] = "whole" => raw = saved)'
    <2>1. CASE WriteRaw
      BY <2>1 DEF WriteRaw
    <2>2. CASE ~WriteRaw
      BY <2>2, PaidStep, EvidenceFrame, WholeFrame DEF EvidenceInv
    <2> QED
      BY <2>1, <2>2
  <1>2. (stage = "sealing" => HasLineage)'
    <2>1. CASE Seal /\ stage' = "sealing"
      <3>1. HasLineage /\ UNCHANGED <<attempts, raw>>
        BY <2>1 DEF Seal, Goto, AfterCosts
      <3> QED
        BY <3>1 DEF HasLineage, FailedAttempts
    <2>2. CASE stage = "sealing"
      BY <1>0, <2>2 DEF FilesInv, EvidenceInv
    <2> QED
      BY <2>1, <2>2, WholeFrame
  <1>3. (file["cost"] = "whole" => HasLineage /\ cost = Lineage)'
    <2>1. CASE WriteCost
      <3>1. HasLineage /\ cost' = Lineage /\ file["cost"] = "torn"
        BY <2>1 DEF WriteCost, FilesInv, EvidenceInv
      <3> QED
        BY <1>0, <3>1
    <2>2. CASE ~WriteCost /\ file["cost"] = "whole"
      BY <1>0, <2>2, EvidenceFrame DEF EvidenceInv
    <2> QED
      BY <2>1, <2>2, WholeFrame
  <1>4. ((file["batch"] = "whole" /\ disposition = "complete") =>
            \A p \in Position : ~Holds(p))'
    <2>1. CASE WriteBatch
      <3>1. UNCHANGED <<attempts, raw, cost>>
        BY <2>1 DEF WriteBatch
      <3>2. disposition' = "complete" => \A p \in Position : ~Holds(p)
        BY <2>1 DEF WriteBatch
      <3> QED
        BY <3>1, <3>2 DEF Holds
    <2>2. CASE ~WriteBatch /\ file["batch"] = "whole"
      <3>1. file["cost"] = "whole"
        BY <2>2 DEF FilesInv
      <3>2. UNCHANGED <<attempts, raw, cost, disposition>>
        BY <1>0, <2>2, <3>1, EvidenceFrame DEF WriteCost, FilesInv
      <3> QED
        BY <2>2, <3>2 DEF Holds, EvidenceInv
    <2> QED
      BY <2>1, <2>2, WholeFrame
  <1> QED
    BY <1>1, <1>2, <1>3, <1>4 DEF EvidenceInv
(* No step completes a run that is not sealed.                             *)
LEMMA RunsStep == ASSUME IInv, [Next]_vars PROVE RunsInv'
  <1> USE DEF IInv, RunsInv
  <1>0. runs \in Seq({"started", "completed", "failed"})
    BY DEF TypeOK
  <1>1. file["batch"] = "whole" => file'["batch"] = "whole"
    BY WholeStays
  <1>2. CASE UNCHANGED runs /\ (stage = "idle" => stage' = "idle")
    BY <1>1, <1>2
  <1>3. CASE Begin
    <2>1. runs' = Append(runs, "started") /\ stage' = "begun"
      BY <1>3 DEF Begin, Goto
    <2>2. "started" \in {"started", "completed", "failed"}
      OBVIOUS
    <2>3. /\ runs' # <<>> /\ Len(runs') = Len(runs) + 1
          /\ \A i \in 1..Len(runs) : runs'[i] = runs[i]
          /\ runs'[Len(runs) + 1] = "started"
          /\ DOMAIN runs' = 1..Len(runs') /\ DOMAIN runs = 1..Len(runs)
      BY <1>0, <2>1, <2>2, AppendProperties
    <2>4. \A i \in DOMAIN runs' : runs'[i] = "completed" => i \in DOMAIN runs /\ runs[i] = "completed"
      BY <1>0, <2>3
    <2> QED
      BY <1>1, <2>1, <2>3, <2>4
  <1>4. CASE Complete \/ RecordFailure
    <2>1. runs # <<>> /\ Len(runs) \in DOMAIN runs
      BY <1>0, <1>4 DEF Complete, RecordFailure
    <2>2. /\ runs' = runs \/ runs' = [runs EXCEPT ![Len(runs)] = "completed"]
                          \/ runs' = [runs EXCEPT ![Len(runs)] = "failed"]
          /\ runs' = [runs EXCEPT ![Len(runs)] = "completed"] => Complete \/ runs' = runs
      BY <1>4 DEF Complete, RecordFailure, Terminal
    <2>3. CASE Complete
      <3>1. file["batch"] = "whole"
        BY <2>3 DEF Complete, FilesInv
      <3>2. runs' # <<>>
        BY <1>0, <2>1, <2>2
      <3> QED
        BY <1>1, <3>1, <3>2
    <2>4. CASE RecordFailure
      <3>1. runs' = [runs EXCEPT ![Len(runs)] = "failed"] /\ stage' = "idle"
        BY <2>4 DEF RecordFailure, Terminal, Goto
      <3>2. \A i \in DOMAIN runs' : runs'[i] = "completed" => i \in DOMAIN runs /\ runs[i] = "completed"
        BY <1>0, <2>1, <3>1
      <3> QED
        BY <1>1, <3>1, <3>2
    <2> QED
      BY <1>4, <2>3, <2>4
  <1>5. CASE Work
    BY <1>5, <1>2, WorkFiles
  <1>6. CASE ~Work /\ ~Begin /\ ~Complete /\ ~RecordFailure
    BY <1>6, <1>2 DEF Next, Progress, vars, disk, Resume, Launch, TauDone, CreateRaw, WriteRaw,
       Ingest, Seal, WriteCost, CreateBatch, WriteBatch, Raise, Crash, Goto
  <1> QED
    BY <1>3, <1>4, <1>5, <1>6

-----------------------------------------------------------------------------
(* The frontier of the queue.                                              *)

(* One invocation's retries can use up the budget of a position, as the    *)
(* frozen values do (max_retries 1, protocol.py:43; limit 2 in every       *)
(* configuration): without it a trigger may name a position that was tried *)
(* less often than the limit.                                              *)
RetriesReachLimit == MaxRetries + 1 >= Limit

(* run_with_retry has the retries left that the budget of the position     *)
(* still allows, so it gives up only a position that used up its budget.   *)
RetriesLeft ==
    /\ phase = "try" => left >= Limit - Len(attempts[pos]) - 1
    /\ phase = "call" => left >= Limit - Len(attempts[pos])
    /\ phase \in {"giveup", "stop", "trigger"} => Len(attempts[pos]) >= Limit

(* A position the worker may leave behind: it has a result, and not one    *)
(* that the next invocation takes up again.                                *)
Behind(p) == saved[p] # Nothing /\ (InfraAgain => saved[p] > 0)

(* Under the policy a position starts only when those before it are done,  *)
(* and the worker that gave up one has not been beyond it.                 *)
StopAtFront ==
    phase \in {"stop", "trigger"} =>
        FailFast /\ \A p \in Position : p > pos => attempts[p] = <<>>

StartedInOrder ==
    FailFast => \A p, q \in Position : q < p /\ attempts[p] # <<>> => Behind(q)

PassedAreBehind ==
    (FailFast /\ phase # "off" /\ ~stop) => \A q \in Position : q < pos => Behind(q)

NoInfraAhead ==
    (/\ FailFast /\ InfraAgain /\ ~stop
     /\ phase \in {"next", "try", "call", "save", "giveup"}) =>
        \A q \in Position : saved[q] # Infra

FrontierInv ==
    /\ RetriesLeft /\ StopAtFront /\ StartedInOrder /\ PassedAreBehind /\ NoInfraAhead
    /\ file["trigger"] = "whole" => trigger \in Position
    /\ NextPositionNotStarted

(* The attempts of a position are a sequence, empty when it has none.      *)
LEMMA Lengths ==
    ASSUME IInv, NEW p \in Position
    PROVE  /\ attempts[p] \in Seq(Outcome) /\ Len(attempts[p]) \in Nat
           /\ attempts[p] = <<>> <=> Len(attempts[p]) = 0
  BY DEF IInv, TypeOK

(* An attempt is begun and retried only as often as the budget allows.     *)
LEMMA RetriesStep ==
    ASSUME IInv, FrontierInv, [Next]_vars, RetriesReachLimit
    PROVE  RetriesLeft'
  <1> USE DEF FrontierInv, RetriesLeft, At, Next1
  <1>0. left \in Nat /\ left \in Int
    BY DEF IInv, TypeOK
  <1>1. CASE Skip \/ SaveResult \/ WriteTrigger
    BY <1>1 DEF Skip, SaveResult, WriteTrigger
  <1>2. CASE Admit
    <2>1. pos \in Position /\ Len(attempts[pos]) \in Nat
      BY <1>2, Lengths DEF Admit
    <2> QED
      BY <1>2, <2>1 DEF Admit, Consumed, Lower, disk, RetriesReachLimit
  <1>3. CASE StartAttempt
    <2>1. pos \in Position /\ Len(attempts[pos]) \in Nat
      BY <1>3, Lengths DEF StartAttempt
    <2>2. CASE Consumed(pos) < Limit
      <3>1. attempts'[pos] = Append(attempts[pos], "started") /\ "started" \in Outcome
        BY <1>3, <2>1, <2>2 DEF StartAttempt, IInv, TypeOK, Outcome
      <3>2. Len(attempts'[pos]) = Len(attempts[pos]) + 1
        BY <2>1, <3>1, Lengths, AppendProperties
      <3>3. phase = "try" /\ phase' = "call" /\ UNCHANGED <<pos, left>>
        BY <1>3, <2>2 DEF StartAttempt
      <3>4. left >= Limit - Len(attempts[pos]) - 1
        BY <3>3
      <3>5. left >= Limit - Len(attempts'[pos])
        <4>1. \A n \in Nat : left >= Limit - n - 1 => left >= Limit - (n + 1)
          BY <1>0
        <4> QED
          BY <2>1, <3>2, <3>4, <4>1, Zenon
      <3> QED
        BY <3>3, <3>5
    <2>3. CASE ~ (Consumed(pos) < Limit)
      BY <1>0, <1>3, <2>1, <2>3 DEF StartAttempt, Retry, Consumed
    <2> QED
      BY <2>2, <2>3
  <1>4. CASE FailAttempt
    <2>1. pos \in Position /\ Len(attempts[pos]) \in Nat
      BY <1>4, Lengths DEF FailAttempt
    <2>2. Len(attempts'[pos]) = Len(attempts[pos])
      BY <1>4, <2>1, FinishStep, FinishEffect
    <2> QED
      BY <1>0, <1>4, <2>1, <2>2 DEF FailAttempt, Retry
  <1>5. CASE CompleteAttempt
    BY <1>5 DEF CompleteAttempt
  <1>6. CASE GiveUp \/ CreateTrigger
    BY <1>6 DEF GiveUp, CreateTrigger
  <1>7. CASE Launch
    BY <1>7 DEF Launch, worker, IInv, WorkerInv
  <1>8. CASE ~Work /\ ~Launch
    BY <1>8, CommandFrame DEF worker
  <1> QED
    BY <1>1, <1>2, <1>3, <1>4, <1>5, <1>6, <1>7, <1>8 DEF Work

(* A position that may be left behind stays so.                            *)
LEMMA BehindStays ==
    ASSUME IInv, [Next]_vars, NEW q \in Position, Behind(q)
    PROVE  Behind(q)'
  <1> USE DEF Behind
  <1>1. saved \in [Position -> Result]
    BY DEF IInv, TypeOK
  <1>2. CASE Launch
    BY <1>1, <1>2 DEF Launch, Kept
  <1>3. CASE SaveResult \/ GiveUp
    <2>1. pos # q
      BY <1>3 DEF SaveResult, GiveUp, At, IInv, WorkerInv
    <2> QED
      BY <1>1, <1>3, <2>1 DEF SaveResult, GiveUp
  <1>4. CASE UNCHANGED saved
    BY <1>4
  <1> QED
    BY <1>2, <1>3, <1>4, SavedFrame

(* A position starts only when the worker is at it.                        *)
LEMMA StartsAtFront ==
    ASSUME IInv, [Next]_vars, NEW p \in Position, attempts[p] = <<>>, attempts'[p] # <<>>
    PROVE  StartAttempt /\ p = pos
  <1>1. CASE StartAttempt
    BY <1>1, StartEffect
  <1>2. CASE FailAttempt \/ CompleteAttempt
    <2>1. attempts[pos] # <<>>
      BY <1>2 DEF FailAttempt, CompleteAttempt, At, IInv, WorkerInv
    <2> QED
      BY <1>2, <2>1, FinishStep, FinishEffect
  <1> QED
    BY <1>1, <1>2, AttemptsFrame

(* Under the policy the positions start in the order of the queue.         *)
LEMMA OrderStep ==
    ASSUME IInv, FrontierInv, [Next]_vars
    PROVE  StartedInOrder'
  <1> SUFFICES ASSUME FailFast, NEW p \in Position, NEW q \in Position,
                      q < p, attempts'[p] # <<>>
               PROVE  Behind(q)'
    BY DEF StartedInOrder
  <1>1. CASE attempts[p] # <<>>
    BY <1>1, BehindStays DEF FrontierInv, StartedInOrder
  <1>2. CASE attempts[p] = <<>>
    <2>1. StartAttempt /\ p = pos
      BY <1>2, StartsAtFront
    <2>2. Behind(q)
      BY <2>1 DEF FrontierInv, PassedAreBehind, StartAttempt, At, IInv, TriggerInv
    <2> QED
      BY <2>2, BehindStays
  <1> QED
    BY <1>1, <1>2

(* The worker that gives up a position has not been beyond it.             *)
LEMMA StopStep ==
    ASSUME IInv, FrontierInv, [Next]_vars
    PROVE  StopAtFront'
  <1> USE DEF FrontierInv, StopAtFront, At
  <1>1. CASE GiveUp
    <2>1. FailFast => \A p \in Position : p > pos => attempts[p] = <<>>
      <3>1. FailFast => ~Behind(pos)
        BY <1>1 DEF GiveUp, IInv, WorkerInv, Behind
      <3>2. FailFast => \A p \in Position : pos < p => attempts[p] = <<>>
        BY <1>1, <3>1 DEF GiveUp, StartedInOrder
      <3> QED
        BY <1>1, <3>2 DEF GiveUp
    <2> QED
      BY <1>1, <2>1 DEF GiveUp, Next1
  <1>2. CASE CreateTrigger
    BY <1>2 DEF CreateTrigger
  <1>3. CASE Skip \/ Admit \/ StartAttempt \/ FailAttempt
    BY <1>3 DEF Skip, Admit, StartAttempt, FailAttempt, Next1, Retry
  <1>4. CASE CompleteAttempt \/ SaveResult \/ WriteTrigger
    BY <1>4 DEF CompleteAttempt, SaveResult, WriteTrigger, Next1
  <1>5. CASE Launch
    BY <1>5 DEF Launch, worker, IInv, WorkerInv
  <1>6. CASE ~Work /\ ~Launch
    BY <1>6, CommandFrame DEF worker
  <1> QED
    BY <1>1, <1>2, <1>3, <1>4, <1>5, <1>6 DEF Work

(* What the worker has passed may be left behind.                          *)
LEMMA PassedStep ==
    ASSUME IInv, FrontierInv, [Next]_vars
    PROVE  PassedAreBehind'
  <1> SUFFICES ASSUME FailFast, phase' # "off", ~stop', NEW q \in Position, q < pos'
               PROVE  Behind(q)'
    BY DEF PassedAreBehind
  <1>1. pos \in Int /\ q \in Int /\ saved \in [Position -> Result]
    BY DEF IInv, TypeOK
  <1>2. CASE Skip \/ SaveResult
    <2>1. phase # "off" /\ ~stop /\ pos \in Position /\ pos' = pos + 1
      BY <1>2 DEF Skip, SaveResult, Next1, At
    <2>2. CASE q < pos
      BY <2>1, <2>2, BehindStays DEF FrontierInv, PassedAreBehind
    <2>3. CASE q = pos /\ Skip
      <3>1. saved[q] # Nothing /\ (InfraAgain => saved[q] # Infra)
        BY <2>1, <2>3 DEF Skip, Guarded, At, FrontierInv, NoInfraAhead
      <3>2. saved[q] \in Result
        BY <1>1
      <3>3. Behind(q)
        BY <3>1, <3>2 DEF Behind, Result
      <3> QED
        BY <3>3, BehindStays
    <2>4. CASE q = pos /\ SaveResult
      <3>1. saved'[q] = Len(attempts[q]) /\ attempts[q] # <<>>
        BY <1>1, <2>4 DEF SaveResult, SavedResult, At, IInv, WorkerInv
      <3>2. saved'[q] > 0
        BY <3>1, Lengths
      <3> QED
        BY <3>2 DEF Behind
    <2> QED
      BY <1>1, <1>2, <2>1, <2>2, <2>3, <2>4
  <1>3. CASE Launch
    BY <1>3 DEF Launch, worker, IInv, WorkerInv
  <1>4. CASE GiveUp
    BY <1>4, BehindStays DEF GiveUp, At, FrontierInv, PassedAreBehind
  <1>5. CASE CreateTrigger \/ WriteTrigger
    BY <1>5 DEF CreateTrigger, WriteTrigger, At, IInv, TriggerInv
  <1>6. CASE Admit \/ StartAttempt \/ FailAttempt \/ CompleteAttempt
    <2>1. phase # "off" /\ UNCHANGED <<pos, stop>>
      BY <1>6 DEF Admit, StartAttempt, FailAttempt, CompleteAttempt, At
    <2> QED
      BY <2>1, BehindStays DEF FrontierInv, PassedAreBehind
  <1>7. CASE ~Work /\ ~Launch
    <2>1. UNCHANGED worker
      BY <1>7, CommandFrame
    <2> QED
      BY <2>1, BehindStays DEF worker, FrontierInv, PassedAreBehind
  <1> QED
    BY <1>2, <1>3, <1>4, <1>5, <1>6, <1>7 DEF Work

(* An invocation that takes up infrastructure errors again meets none.     *)
LEMMA InfraStep ==
    ASSUME IInv, FrontierInv, [Next]_vars
    PROVE  NoInfraAhead'
  <1> USE DEF FrontierInv, NoInfraAhead, At, Next1
  <1>1. saved \in [Position -> Result]
    BY DEF IInv, TypeOK
  <1>2. CASE Launch
    BY <1>1, <1>2 DEF Launch, Kept, worker, IInv, WorkerInv
  <1>3. CASE SaveResult
    <2>1. saved' = [saved EXCEPT ![pos] = Len(attempts[pos])] /\ Len(attempts[pos]) \in Nat
      BY <1>3, Lengths DEF SaveResult, SavedResult
    <2> QED
      BY <1>1, <1>3, <2>1 DEF SaveResult
  <1>4. CASE GiveUp
    BY <1>4 DEF GiveUp
  <1>5. CASE CreateTrigger \/ WriteTrigger
    BY <1>5 DEF CreateTrigger, WriteTrigger, IInv, TriggerInv
  <1>6. CASE Skip \/ Admit
    BY <1>6 DEF Skip, Admit, disk
  <1>7. CASE StartAttempt \/ FailAttempt \/ CompleteAttempt
    BY <1>7 DEF StartAttempt, FailAttempt, CompleteAttempt
  <1>8. CASE ~Work /\ ~Launch
    BY <1>8, CommandFrame DEF worker
  <1> QED
    BY <1>2, <1>3, <1>4, <1>5, <1>6, <1>7, <1>8 DEF Work

(* The trigger is written in one action.                                   *)
LEMMA TriggerFrame ==
    ASSUME IInv, [Next]_vars, file'["trigger"] = "whole", ~WriteTrigger
    PROVE  file["trigger"] = "whole" /\ UNCHANGED <<trigger, attempts>>
  <1> USE DEF IInv, TypeOK, File
  <1>1. file["trigger"] = "whole" /\ UNCHANGED trigger
    <2>1. CASE Skip \/ Admit \/ StartAttempt \/ FailAttempt \/ CompleteAttempt
      BY <2>1 DEF Skip, Admit, StartAttempt, FailAttempt, CompleteAttempt, disk
    <2>2. CASE SaveResult \/ GiveUp \/ CreateTrigger
      BY <2>2 DEF SaveResult, GiveUp, CreateTrigger, Set
    <2>3. CASE Begin \/ Resume \/ Launch \/ TauDone \/ Ingest
      BY <2>3 DEF Begin, Resume, Launch, TauDone, Ingest, disk
    <2>4. CASE CreateRaw \/ WriteRaw \/ Seal \/ WriteCost
      BY <2>4 DEF CreateRaw, WriteRaw, Seal, WriteCost, Set
    <2>5. CASE CreateBatch \/ WriteBatch
      BY <2>5 DEF CreateBatch, WriteBatch, Set
    <2>6. CASE Complete \/ RecordFailure \/ Raise \/ Crash \/ UNCHANGED vars
      BY <2>6 DEF Complete, RecordFailure, Raise, Crash, disk, vars
    <2> QED
      BY <2>1, <2>2, <2>3, <2>4, <2>5, <2>6 DEF Next, Progress, Work
  <1>2. ~StartAttempt /\ ~FailAttempt /\ ~CompleteAttempt
    BY <1>1 DEF TriggerInv, StartAttempt, FailAttempt, CompleteAttempt, At
  <1> QED
    BY <1>1, <1>2, AttemptsFrame

(* A trigger tells the truth when it is written, and nothing starts after. *)
LEMMA NotStartedStep ==
    ASSUME IInv, FrontierInv, [Next]_vars
    PROVE  /\ (file["trigger"] = "whole" => trigger \in Position)'
           /\ NextPositionNotStarted'
  <1>1. CASE WriteTrigger
    <2>1. /\ pos \in Position /\ phase = "trigger" /\ trigger' = pos /\ UNCHANGED attempts
      BY <1>1 DEF WriteTrigger, At
    <2>2. Len(attempts[pos]) >= Limit /\ Len(attempts[pos]) <= Limit
      BY <2>1 DEF FrontierInv, RetriesLeft, IInv, BudgetHolds
    <2>3. Len(attempts[pos]) = Limit
      BY <2>1, <2>2, Lengths
    <2>4. \A p \in Position : p > pos => attempts[p] = <<>>
      BY <2>1 DEF FrontierInv, StopAtFront
    <2> QED
      BY <2>1, <2>3, <2>4 DEF NextPositionNotStarted
  <1>2. CASE ~WriteTrigger
    BY <1>2, TriggerFrame DEF FrontierInv, NextPositionNotStarted
  <1> QED
    BY <1>1, <1>2

-----------------------------------------------------------------------------
(* Successes that were paid for and lost.                                  *)

(* The attempts are numbered within the budget, so the lost ones can be    *)
(* counted.                                                                *)
LEMMA UnsavedFinite ==
    /\ IsFiniteSet(Unsaved) /\ Cardinality(Unsaved) \in Nat
    /\ IsFiniteSet(Unsaved') /\ Cardinality(Unsaved') \in Nat
  <1>1. IsFiniteSet(1..N) /\ IsFiniteSet(1..Limit)
    BY FS_Interval
  <1>2. IsFiniteSet(Position \X (1..Limit))
    BY <1>1, FS_Product
  <1>3. /\ Unsaved \in SUBSET (Position \X (1..Limit))
        /\ Unsaved' \in SUBSET (Position \X (1..Limit))
    BY DEF Unsaved
  <1>4. IsFiniteSet(Unsaved) /\ IsFiniteSet(Unsaved')
    BY <1>2, <1>3, FS_Subset
  <1> QED
    BY <1>4, FS_CardinalityType

(* An attempt that completes adds itself at most.                          *)
LEMMA CompleteAddsOne ==
    ASSUME IInv, CompleteAttempt
    PROVE  Unsaved' \subseteq Unsaved \cup {<<pos, Len(attempts[pos])>>}
  <1>1. PICK outcome \in {"exact", "inexact"} : FinishAttempt(outcome)
    BY DEF CompleteAttempt
  <1>2. /\ pos \in Position /\ UNCHANGED saved /\ outcome \in Outcome
        /\ attempts \in [Position -> Seq(Outcome)] /\ attempts[pos] # <<>>
    BY DEF CompleteAttempt, At, IInv, TypeOK, WorkerInv, Outcome
  <1> DEFINE n == Len(attempts[pos])
             ended == [attempts[pos] EXCEPT ![n] = outcome]
  <1>3. n \in 1..n /\ attempts[pos] \in Seq(Outcome)
    BY <1>2
  <1>4. /\ attempts'[pos] = ended
        /\ \A p \in Position \ {pos} : attempts'[p] = attempts[p]
    BY <1>1, <1>2 DEF FinishAttempt
  <1>5. Len(ended) = n /\ \A k \in 1..n : k # n => ended[k] = attempts[pos][k]
    BY <1>2, <1>3, ExceptSeq
  <1> SUFFICES ASSUME NEW a \in Unsaved', a # <<pos, n>>
               PROVE  a \in Unsaved
    OBVIOUS
  <1>6. PICK p \in Position, k \in 1..Limit : a = <<p, k>>
    BY DEF Unsaved
  <1>7. /\ k <= Len(attempts'[p]) /\ attempts'[p][k] \in {"exact", "inexact"}
        /\ saved[p] # k
    BY <1>2, <1>6 DEF Unsaved, Unused
  <1>8. CASE p = pos
    <2>1. k # n /\ k \in 1..n
      BY <1>3, <1>4, <1>5, <1>6, <1>7, <1>8
    <2>2. attempts'[p][k] = attempts[p][k]
      BY <1>4, <1>5, <1>8, <2>1
    <2> QED
      BY <1>6, <1>7, <1>8, <2>1, <2>2 DEF Unsaved, Unused
  <1>9. CASE p # pos
    BY <1>4, <1>6, <1>7, <1>9 DEF Unsaved, Unused
  <1> QED
    BY <1>8, <1>9

(* Saving the result of an attempt takes it out.                           *)
LEMMA SaveRemovesOne ==
    ASSUME IInv, SaveResult
    PROVE  /\ <<pos, Len(attempts[pos])>> \in Unsaved
           /\ Unsaved' \subseteq Unsaved \ {<<pos, Len(attempts[pos])>>}
  <1>1. /\ pos \in Position /\ UNCHANGED attempts /\ saved[pos] = 0
        /\ saved' = [saved EXCEPT ![pos] = Len(attempts[pos])]
        /\ saved \in [Position -> Result]
        /\ attempts[pos] \in Seq(Outcome) /\ attempts[pos] # <<>>
        /\ attempts[pos][Len(attempts[pos])] \in {"exact", "inexact"}
        /\ Len(attempts[pos]) <= Limit
    BY DEF SaveResult, SavedResult, At, IInv, TypeOK, WorkerInv, Last, BudgetHolds
  <1>2. Len(attempts[pos]) \in 1..Limit
    BY <1>1
  <1>3. <<pos, Len(attempts[pos])>> \in Unsaved
    BY <1>1, <1>2 DEF Unsaved, Unused
  <1>4. ASSUME NEW a \in Unsaved'
        PROVE  a \in Unsaved /\ a # <<pos, Len(attempts[pos])>>
    <2>1. PICK p \in Position, k \in 1..Limit : a = <<p, k>>
      BY DEF Unsaved
    <2>2. /\ k <= Len(attempts[p]) /\ attempts[p][k] \in {"exact", "inexact"}
          /\ saved'[p] # k
      BY <1>1, <2>1, <1>4 DEF Unsaved, Unused
    <2>3. CASE p = pos
      BY <1>1, <2>1, <2>2, <2>3 DEF Unsaved, Unused
    <2>4. CASE p # pos
      BY <1>1, <2>1, <2>2, <2>4 DEF Unsaved, Unused
    <2> QED
      BY <2>3, <2>4
  <1> QED
    BY <1>3, <1>4

(* No other step loses one: a start and a failure are no success, and a    *)
(* resumed invocation keeps the successes of the checkpoint.               *)
LEMMA NoOtherLoss ==
    ASSUME IInv, [Next]_vars, ~CompleteAttempt, ~SaveResult
    PROVE  Unsaved' \subseteq Unsaved
  <1> SUFFICES ASSUME NEW a \in Unsaved' PROVE a \in Unsaved
    OBVIOUS
  <1>1. PICK p \in Position, k \in 1..Limit : a = <<p, k>>
    BY DEF Unsaved
  <1>2. /\ k <= Len(attempts'[p]) /\ attempts'[p][k] \in {"exact", "inexact"}
        /\ saved'[p] # k
    BY <1>1 DEF Unsaved, Unused
  <1>3. /\ attempts \in [Position -> Seq(Outcome)] /\ saved \in [Position -> Result]
        /\ attempts[p] \in Seq(Outcome)
    BY DEF IInv, TypeOK
  <1>4. saved[p] # k
    <2>1. CASE Launch
      BY <1>2, <1>3, <2>1 DEF Launch, Kept
    <2>2. CASE GiveUp
      BY <1>2, <1>3, <2>2 DEF GiveUp, At, IInv, WorkerInv
    <2>3. CASE UNCHANGED saved
      BY <1>2, <2>3
    <2> QED
      BY <2>1, <2>2, <2>3, SavedFrame
  <1>5. k <= Len(attempts[p]) /\ attempts[p][k] \in {"exact", "inexact"}
    <2>1. CASE UNCHANGED attempts
      BY <1>2, <2>1
    <2>2. CASE StartAttempt /\ attempts' # attempts
      <3>1. /\ pos \in Position
            /\ attempts' = [attempts EXCEPT ![pos] = Append(attempts[pos], "started")]
        BY <2>2 DEF StartAttempt, At
      <3>2. CASE p = pos
        <4>1. attempts'[p] = Append(attempts[p], "started") /\ "started" \in Outcome
          BY <1>3, <3>1, <3>2 DEF Outcome
        <4>2. /\ Len(attempts'[p]) = Len(attempts[p]) + 1
              /\ \A i \in 1..Len(attempts[p]) : attempts'[p][i] = attempts[p][i]
              /\ attempts'[p][Len(attempts[p]) + 1] = "started"
          BY <1>3, <4>1, AppendProperties
        <4>3. k # Len(attempts[p]) + 1
          BY <1>2, <4>2
        <4>4. k \in 1..Len(attempts[p])
          BY <1>2, <1>3, <4>2, <4>3
        <4> QED
          BY <1>2, <4>2, <4>4
      <3>3. CASE p # pos
        BY <1>2, <1>3, <3>1, <3>3
      <3> QED
        BY <3>2, <3>3
    <2>3. CASE FailAttempt
      <3>1. /\ pos \in Position /\ attempts[pos] # <<>>
            /\ attempts' = [attempts EXCEPT ![pos] = [@ EXCEPT ![Len(@)] = "failed"]]
        BY <2>3 DEF FailAttempt, FinishAttempt, At, IInv, WorkerInv
      <3>2. CASE p = pos
        <4> DEFINE n == Len(attempts[p])
        <4>1. /\ attempts'[p] = [attempts[p] EXCEPT ![n] = "failed"]
              /\ n \in 1..n /\ "failed" \in Outcome
          BY <1>3, <3>1, <3>2 DEF Outcome
        <4>2. /\ Len(attempts'[p]) = n
              /\ \A i \in 1..n : attempts'[p][i] = IF i = n THEN "failed" ELSE attempts[p][i]
          BY <1>3, <4>1, ExceptSeq
        <4>3. k \in 1..n
          BY <1>2, <1>3, <4>2
        <4> QED
          BY <1>2, <4>2, <4>3
      <3>3. CASE p # pos
        BY <1>2, <1>3, <3>1, <3>3
      <3> QED
        BY <3>2, <3>3
    <2> QED
      BY <2>1, <2>2, <2>3, AttemptsFrame
  <1> QED
    BY <1>1, <1>4, <1>5 DEF Unsaved, Unused

(* What the loss of successes is bounded by never shrinks but when one is  *)
(* saved.                                                                  *)
Allowance == interrupts + IF phase = "save" THEN 1 ELSE 0

LEMMA AllowanceStep ==
    ASSUME IInv, [Next]_vars
    PROVE  /\ Allowance \in Nat /\ Allowance' \in Nat
           /\ CompleteAttempt => Allowance' = Allowance + 1
           /\ SaveResult => Allowance' = Allowance - 1
           /\ ~CompleteAttempt /\ ~SaveResult => Allowance' >= Allowance
  <1>0. interrupts \in Nat /\ interrupts' \in Nat
    BY NextType DEF IInv, TypeOK
  <1>1. Allowance \in Nat /\ Allowance' \in Nat
    <2>1. Allowance = interrupts + 0 \/ Allowance = interrupts + 1
      BY DEF Allowance
    <2>2. Allowance' = interrupts' + 0 \/ Allowance' = interrupts' + 1
      BY DEF Allowance
    <2> QED
      BY <1>0, <2>1, <2>2
  <1>2. CompleteAttempt => Allowance' = Allowance + 1
    BY <1>0 DEF Allowance, CompleteAttempt, At
  <1>3. SaveResult => Allowance' = Allowance - 1
    BY <1>0 DEF Allowance, SaveResult, At, Next1
  <1>4. CASE Raise \/ Crash
    <2>1. interrupts' = interrupts + 1
      BY <1>4 DEF Raise, Crash, Interrupt
    <2> QED
      BY <1>0, <1>1, <1>2, <1>3, <2>1 DEF Allowance
  <1>5. ASSUME ~Raise, ~Crash, ~CompleteAttempt, ~SaveResult
        PROVE  interrupts' = interrupts /\ (phase # "save" \/ phase' = phase)
    <2>1. CASE Work
      BY <1>5, <2>1 DEF Work, Skip, Admit, StartAttempt, FailAttempt, GiveUp, CreateTrigger,
                        WriteTrigger, At
    <2>2. CASE Begin \/ Resume \/ CreateRaw \/ WriteRaw \/ Ingest \/ Seal
      BY <2>2 DEF Begin, Resume, CreateRaw, WriteRaw, Ingest, Seal, worker
    <2>3. CASE WriteCost \/ CreateBatch \/ WriteBatch \/ Complete \/ RecordFailure
      BY <2>3 DEF WriteCost, CreateBatch, WriteBatch, Complete, RecordFailure, worker
    <2>4. CASE TauDone \/ UNCHANGED vars
      BY <2>4 DEF TauDone, vars, worker
    <2>5. CASE Launch
      BY <2>5 DEF Launch, IInv, WorkerInv
    <2> QED
      BY <1>5, <2>1, <2>2, <2>3, <2>4, <2>5 DEF Next, Progress
  <1>6. CASE ~Raise /\ ~Crash
    <2>1. ~CompleteAttempt /\ ~SaveResult => Allowance' >= Allowance
      BY <1>0, <1>5, <1>6 DEF Allowance
    <2> QED
      BY <1>1, <1>2, <1>3, <2>1
  <1> QED
    BY <1>4, <1>6

(* No step loses a success but an interruption.                            *)
LEMMA LossStep ==
    ASSUME IInv, RepeatNeedsInterruption, [Next]_vars
    PROVE  RepeatNeedsInterruption'
  <1> DEFINE a == <<pos, Len(attempts[pos])>>
  <1> HIDE DEF a
  <1>1. /\ IsFiniteSet(Unsaved) /\ Cardinality(Unsaved) \in Nat
        /\ IsFiniteSet(Unsaved') /\ Cardinality(Unsaved') \in Nat
    BY UnsavedFinite
  <1>2. Cardinality(Unsaved) <= Allowance /\ Allowance \in Nat /\ Allowance' \in Nat
    BY AllowanceStep DEF RepeatNeedsInterruption, Allowance
  <1>3. CASE CompleteAttempt
    <2>1. Unsaved' \in SUBSET (Unsaved \cup {a})
      BY <1>3, CompleteAddsOne DEF a
    <2>2. /\ IsFiniteSet(Unsaved \cup {a})
          /\ Cardinality(Unsaved \cup {a}) =
               IF a \in Unsaved THEN Cardinality(Unsaved) ELSE Cardinality(Unsaved) + 1
      BY ONLY <1>1, FS_AddElement
    <2>3. Cardinality(Unsaved') <= Cardinality(Unsaved \cup {a})
      BY <2>1, <2>2, FS_Subset
    <2>4. Cardinality(Unsaved \cup {a}) \in Nat
      BY <2>2, FS_CardinalityType
    <2>5. Cardinality(Unsaved') <= Allowance'
      BY <1>1, <1>2, <1>3, <2>2, <2>3, <2>4, AllowanceStep
    <2> QED
      BY <2>5 DEF RepeatNeedsInterruption, Allowance
  <1>4. CASE SaveResult
    <2>1. a \in Unsaved /\ Unsaved' \in SUBSET (Unsaved \ {a})
      BY <1>4, SaveRemovesOne DEF a
    <2>2. IsFiniteSet(Unsaved \ {a}) /\ Cardinality(Unsaved \ {a}) = Cardinality(Unsaved) - 1
      BY <1>1, <2>1, FS_RemoveElement
    <2>3. Cardinality(Unsaved') <= Cardinality(Unsaved \ {a})
      BY <2>1, <2>2, FS_Subset
    <2>4. Cardinality(Unsaved') <= Allowance'
      BY <1>1, <1>2, <1>4, <2>2, <2>3, AllowanceStep
    <2> QED
      BY <2>4 DEF RepeatNeedsInterruption, Allowance
  <1>5. CASE ~CompleteAttempt /\ ~SaveResult
    <2>1. Unsaved' \in SUBSET Unsaved
      BY <1>5, NoOtherLoss
    <2>2. Cardinality(Unsaved') <= Cardinality(Unsaved)
      BY <1>1, <2>1, FS_Subset
    <2>3. Cardinality(Unsaved') <= Allowance'
      BY <1>1, <1>2, <1>5, <2>2, AllowanceStep
    <2> QED
      BY <2>3 DEF RepeatNeedsInterruption, Allowance
  <1> QED
    BY <1>3, <1>4, <1>5

-----------------------------------------------------------------------------
(* The theorems.                                                           *)

(* IInv is an invariant: it holds at first and every step keeps it.        *)
THEOREM Invariance == Spec => []IInv
  <1>1. IInv /\ [Next]_vars => IInv'
    BY NextType, BudgetStep, ResultStep, WorkerStep, TriggerStep, FilesStep, EvidenceStep,
       RunsStep DEF IInv
  <1> QED
    BY InitIInv, <1>1, PTL DEF Spec

(* The state is well typed.                                                *)
THEOREM TypeCorrect == Spec => []TypeOK
  BY Invariance, PTL DEF IInv

(* No position is ever attempted more often than the frozen limit, however *)
(* often the command is interrupted and repeated (tau3_evidence.py:353).   *)
THEOREM BudgetIsGlobal == Spec => []BudgetHolds
  BY Invariance, PTL DEF IInv

(* A success in the checkpoint is the position's last attempt, which       *)
(* completed: no attempt follows it once it is saved (tau3_evidence.py:    *)
(* 399, :435-451).                                                         *)
THEOREM SuccessEndsAttempts == Spec => []ResultIsLastAttempt
  BY Invariance, PTL DEF IInv

(* Of the successes that were paid for, one interruption costs at most one *)
(* (tau3_evidence.py:435-455): nothing else makes the command pay for a    *)
(* position again that it had a success of.                                *)
THEOREM LossNeedsInterruption == Spec => []RepeatNeedsInterruption
  <1>1. Init => RepeatNeedsInterruption
    <2> SUFFICES ASSUME Init PROVE RepeatNeedsInterruption
      OBVIOUS
    <2>1. Unsaved = {}
      BY DEF Init, Unsaved, Unused
    <2>2. Cardinality(Unsaved) = 0
      BY <2>1, FS_EmptySet
    <2> QED
      BY <2>2 DEF Init, RepeatNeedsInterruption
  <1>2. IInv /\ RepeatNeedsInterruption /\ [Next]_vars => RepeatNeedsInterruption'
    BY LossStep
  <1> QED
    BY Invariance, <1>1, <1>2, PTL DEF Spec

(* A COMPLETED event stands for a sealed batch (batch.py:551).             *)
THEOREM CompletionIsSealed == Spec => []CompletedIsSealed
  <1>1. IInv => CompletedIsSealed
    BY DEF IInv, RunsInv, FilesInv, CompletedIsSealed
  <1> QED
    BY Invariance, <1>1, PTL

(* A sealed batch agrees with the retained results, the attempts they come *)
(* from and the exactness of their costs (ledger.py:954-1060, batch.py:    *)
(* 560-605): nothing that runs after the seal takes its evidence away.     *)
THEOREM SealedEvidence == Spec => []SealIsBacked
  <1>1. ASSUME IInv PROVE SealIsBacked
    <2>0. CompletedIsSealed
      BY <1>1 DEF IInv, RunsInv, FilesInv, CompletedIsSealed
    <2> SUFFICES ASSUME file["batch"] = "whole" PROVE SealIsBacked
      BY <2>0 DEF SealIsBacked
    <2>1. file["raw"] = "whole" /\ file["cost"] = "whole" /\ raw = saved
      BY <1>1 DEF IInv, FilesInv, EvidenceInv
    <2>2. HasLineage /\ cost = Lineage
      BY <1>1, <2>1 DEF IInv, EvidenceInv
    <2> SUFFICES ASSUME NEW p \in Position
                 PROVE  /\ raw[p] > 0 => cost[p] = raw[p]
                        /\ raw[p] = Infra => attempts[p][cost[p]] = "failed"
                        /\ disposition = "complete" =>
                              raw[p] > 0 /\ attempts[p][raw[p]] = "exact"
      BY <2>0, <2>1 DEF SealIsBacked
    <2>3. cost[p] = IF raw[p] = Infra THEN LastFailed(p) ELSE raw[p]
      BY <2>2 DEF Lineage
    <2>4. ASSUME raw[p] = Infra PROVE attempts[p][cost[p]] = "failed"
      <3>1. LastFailed(p) \in FailedAttempts(p)
        BY <1>1, <2>2, <2>4, LastFailedFailed DEF HasLineage, IInv
      <3> QED
        BY <2>3, <2>4, <3>1 DEF FailedAttempts
    <2>5. ASSUME disposition = "complete" PROVE raw[p] > 0 /\ attempts[p][raw[p]] = "exact"
      <3>1. ~Holds(p)
        BY <1>1, <2>5 DEF IInv, EvidenceInv
      <3>2. raw[p] \in Result
        BY <1>1 DEF IInv, TypeOK
      <3> QED
        BY <2>3, <3>1, <3>2 DEF Holds, Result
    <2> QED
      BY <2>3, <2>4, <2>5
  <1> QED
    BY Invariance, <1>1, PTL

(* No step launches tau3 again, or touches the attempts or the results     *)
(* they gave, once a raw result exists (batch.py:363).                     *)
THEOREM PaidOnce == Spec => NoPaidRepeat
  <1>1. IInv /\ [Next]_vars =>
            [file["raw"] # "absent" => stage' # "tau" /\ UNCHANGED <<attempts, saved>>]_vars
    BY PaidStep
  <1> QED
    BY Invariance, <1>1, PTL DEF Spec, NoPaidRepeat

(* No attempt starts or ends once the trigger is whole, in the invocation  *)
(* that wrote it or in a later one (tau3_evidence.py:336-338, :498-505).   *)
THEOREM QueueStaysStopped == Spec => TriggerStopsQueue
  <1>1. IInv /\ [Next]_vars => [file["trigger"] = "whole" => UNCHANGED attempts]_vars
    <2> SUFFICES ASSUME IInv, [Next]_vars, file["trigger"] = "whole"
                 PROVE  UNCHANGED attempts
      OBVIOUS
    <2>1. ~StartAttempt /\ ~FailAttempt /\ ~CompleteAttempt
      BY DEF IInv, TriggerInv, StartAttempt, FailAttempt, CompleteAttempt, At
    <2> QED
      BY <2>1, AttemptsFrame
  <1> QED
    BY Invariance, <1>1, PTL DEF Spec, TriggerStopsQueue

(* When the retries of one invocation can use up the budget, a trigger on  *)
(* disk says the truth: its position had all its attempts and no position  *)
(* after it was ever started, by this invocation or an earlier one         *)
(* (tau3_evidence.py:533-545).                                             *)
THEOREM TriggerTellsTruth ==
    ASSUME RetriesReachLimit PROVE Spec => []NextPositionNotStarted
  <1>1. Init => FrontierInv
    BY DEF Init, FrontierInv, RetriesLeft, StopAtFront, StartedInOrder, PassedAreBehind,
           NoInfraAhead, NextPositionNotStarted, File
  <1>2. IInv /\ FrontierInv /\ [Next]_vars => FrontierInv'
    BY RetriesStep, OrderStep, StopStep, PassedStep, InfraStep, NotStartedStep DEF FrontierInv
  <1>3. FrontierInv => NextPositionNotStarted
    BY DEF FrontierInv
  <1> QED
    BY Invariance, <1>1, <1>2, <1>3, PTL DEF Spec
=============================================================================
