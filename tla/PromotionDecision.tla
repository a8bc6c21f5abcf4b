--------------------------- MODULE PromotionDecision ---------------------------
(***************************************************************************)
(* What the results of the paid runs decide: which of them are scored, what *)
(* a batch says of its snapshot, which candidate the selection governs, and *)
(* what the gates recommend about it after the release stages.  The order  *)
(* of the experiment is kept, its files and commands are FormalExperiment's. *)
(* Costs and latencies are small numbers; a mean is compared as a total,    *)
(* since all batches that are compared have the same number of runs, and a  *)
(* median is kept twice its size.                                           *)
(***************************************************************************)
EXTENDS Integers, Sequences, FiniteSetsExt

CONSTANTS
    Count,         \* candidates of the plan; number k has the updater's rank k
    Id,            \* candidate -> its place in the order of candidate ids
    TasksOf,       \* stage -> tasks of its frozen pool
    TrialsOf,      \* stage -> trials of each task
    Habit,         \* bound: how the runs of a snapshot usually go
    Surprises,     \* bound: stage -> how single runs of it may go otherwise
    MaxSurprises,  \* bound: how many runs do
    Limit,         \* policy of the selection and thresholds of the gates
    NoBatch        \* what stands for a batch that is not sealed

Candidate == 1..Count
Snap == 0..Count
Release == {"release_id", "release_ood", "replay"}
Stage == {"update_check", "selection"} \union Release

ASSUME CountAssumption == Count \in Nat \ {0}
ASSUME IdAssumption == Id \in [Candidate -> Candidate] /\ IsInjective(Id)
ASSUME PoolAssumption ==
    /\ DOMAIN TasksOf = Stage /\ \A s \in Stage : IsFiniteSet(TasksOf[s])
    /\ TrialsOf \in [Stage -> Nat \ {0}]
    /\ TasksOf["selection"] # {}

KnownSurprise == {"flip", "retry", "timeout", "cut", "slow", "infra"}
ASSUME BoundAssumption ==
    /\ Habit \subseteq [success : BOOLEAN, cost : Nat, latency : Nat]
    /\ Surprises \in [Stage -> SUBSET KnownSurprise]
    /\ MaxSurprises \in Nat

Quotient == [num : Nat \ {0}, den : Nat \ {0}]
ASSUME LimitAssumption ==
    Limit \in [whole : Quotient, p95 : Quotient, cost : Quotient, latency : Quotient,
               retries : Nat, timeouts : Nat, id : Int, ood : Int, replay : Int]

Pairs(s) == TasksOf[s] \X (1..TrialsOf[s])

RunType ==
    [valid : BOOLEAN, success : BOOLEAN, cost : Nat, latency : Nat,
     retries : 0..1, timeouts : 0..1]
ASSUME NoBatchAssumption == \A s \in Stage : NoBatch \notin [Pairs(s) -> RunType]

VARIABLES
    habit,      \* how the runs of each snapshot usually go
    batch,      \* <<stage, snapshot>> -> its runs, once the batch is sealed
    selection,  \* what the selection says, once it is sealed
    roles,      \* the trial counts of the role assignment
    decision,   \* role -> what the gates recommend
    left        \* surprises that may still come

vars == <<habit, batch, selection, roles, decision, left>>

-----------------------------------------------------------------------------
(* Runs and batches. *)

NoSelection == [native |-> 0, governed |-> Count + 1]

\* the attempts of one position: the repeated ones, and the last, which is a record.
\* A timeout ends an attempt that is repeated, or ("cut") the simulation itself
Run(h, surprise) ==
    [valid |-> surprise # "infra",
     success |-> surprise \notin {"infra", "cut"} /\ h.success # (surprise = "flip"),
     cost |-> h.cost,
     latency |-> IF surprise = "slow" THEN 2 * h.latency + 1 ELSE h.latency,
     retries |-> IF surprise \in {"retry", "timeout"} THEN 1 ELSE 0,
     timeouts |-> IF surprise \in {"timeout", "cut"} THEN 1 ELSE 0]

Sum(b, P, f(_)) == SumFunctionOnSet([p \in P |-> f(b[p])], P)
Latencies(b, P) == [p \in P |-> b[p].latency]

Scored_Everything(b) == DOMAIN b

\* an infrastructure error is no result
Scored(b) == {p \in DOMAIN b : b[p].valid}

\* disposition_matches_summary: every pair of the frozen pool is scored
Complete(s, b) == b # NoBatch /\ Scored(b) = TasksOf[s] \X (1..TrialsOf[s])

Stable(s, b) ==
    {t \in TasksOf[s] : \A i \in 1..TrialsOf[s] : <<t, i>> \in Scored(b) /\ b[<<t, i>>].success}

Successes(b, t) == Cardinality({p \in Scored(b) : p[1] = t /\ b[p].success})

\* the value at place i when those of v stand in ascending order
Ascending(v, i) ==
    Min({x \in Range(v) : Cardinality({p \in DOMAIN v : v[p] <= x}) >= i})

\* the median, twice
Median2(v) ==
    LET n == Cardinality(DOMAIN v) IN
    CASE n = 0 -> 0
      [] n % 2 = 1 -> 2 * Ascending(v, n \div 2 + 1)
      [] OTHER -> Ascending(v, n \div 2) + Ascending(v, n \div 2 + 1)

NearestRank(v, percentile) == Ascending(v, (Cardinality(DOMAIN v) * percentile + 99) \div 100)

-----------------------------------------------------------------------------
(* Selection: what a batch says of its snapshot, who is eligible, who is first. *)

Measures(b) ==
    LET all == DOMAIN b
        latencies == Latencies(b, all)
    IN [stable |-> Stable("selection", b),
        retries |-> Sum(b, all, LAMBDA r : r.retries),
        timeouts |-> Sum(b, all, LAMBDA r : r.timeouts),
        whole |-> Sum(b, all, LAMBDA r : (1 + r.retries) * r.cost),
        cost |-> Sum(b, Scored(b), LAMBDA r : r.cost),
        p50 |-> Median2(Latencies(b, Scored(b))),
        p95 |-> NearestRank(latencies, 95),
        max |-> Ascending(latencies, Cardinality(all))]

WithinRatio(value, baseline, limit) ==
    IF baseline = 0 THEN value = 0 ELSE value * limit.den <= limit.num * baseline

Regressed(e, base) == base.stable \ e.stable

Eligible(e, base) ==
    /\ Regressed(e, base) = {}
    /\ Cardinality(e.stable) > Cardinality(base.stable)
    /\ WithinRatio(e.whole, base.whole, Limit.whole)
    /\ WithinRatio(e.p95, base.p95, Limit.p95)
    /\ e.retries <= base.retries + Limit.retries
    /\ e.timeouts <= base.timeouts + Limit.timeouts

Key_FewestStable(k, e) ==
    <<Cardinality(e.stable), e.timeouts, e.retries, e.p95, e.max, e.whole, e.cost, e.p50, Id[k]>>

Key_IgnoresTail(k, e) ==
    <<-Cardinality(e.stable), e.timeouts, e.retries, e.whole, e.cost, e.p50, Id[k]>>

Key(k, e) ==
    <<-Cardinality(e.stable), e.timeouts, e.retries, e.p95, e.max, e.whole, e.cost, e.p50, Id[k]>>

Before(x, y) == \E i \in DOMAIN x : x[i] < y[i] /\ \A j \in 1..i - 1 : x[j] = y[j]

\* the candidate the selection governs, from the batches b; 0 when it abstains
GovernedWinner(b) ==
    LET of == [k \in Snap |-> Measures(b[<<"selection", k>>])]
        eligible == {k \in Candidate : Eligible(of[k], of[0])}
    IN IF eligible = {} THEN 0
       ELSE CHOOSE k \in eligible :
                \A j \in eligible \ {k} : Before(Key(k, of[k]), Key(j, of[j]))

NativeWinner == CHOOSE k \in Candidate : \A j \in Candidate : k <= j

-----------------------------------------------------------------------------
(* The gates, about candidate k against the baseline, from the batches b. *)

Net(b, k, s) ==
    Cardinality(Stable(s, b[<<s, k>>])) - Cardinality(Stable(s, b[<<s, 0>>]))

\* compare: tasks the baseline has for sure and the candidate not once
Catastrophic(b, k) ==
    {e \in UNION {{s} \X TasksOf[s] : s \in Release} :
        e[2] \in Stable(e[1], b[<<e[1], 0>>]) /\ Successes(b[<<e[1], k>>], e[2]) = 0}

\* _runtime_metrics, over the release stages
CostOf(b, k) ==
    SumFunctionOnSet(
        [s \in Release |-> Sum(b[<<s, k>>], Scored(b[<<s, k>>]), LAMBDA r : r.cost)], Release)

LatencyOf(b, k) ==
    Median2([e \in UNION {{s} \X DOMAIN b[<<s, k>>] : s \in Release} |->
                b[<<e[1], k>>][e[2]].latency])

\* in the formal experiment nothing fills these in
LeakageHits == 0
CriticalViolations == 0

\* the ratio of the gates is one when both are zero
Ratio(value, baseline, limit) ==
    IF baseline = 0 THEN value = 0 /\ limit.den <= limit.num
    ELSE value * limit.den <= limit.num * baseline

DecisionOrder == <<"evaluation_integrity", "leakage", "critical_violation", "id_effect",
                   "ood_noninferiority", "replay", "reliability", "cost", "latency">>

Passes(gate, b, k) ==
    CASE gate \in {"evaluation_integrity", "reliability"} ->
             \A s \in Release, i \in {0, k} : Complete(s, b[<<s, i>>])
      [] gate = "leakage" -> LeakageHits = 0
      [] gate = "critical_violation" -> CriticalViolations = 0
      [] gate = "id_effect" -> Net(b, k, "release_id") >= Limit.id
      [] gate = "ood_noninferiority" -> Net(b, k, "release_ood") >= Limit.ood
      [] gate = "replay" -> Net(b, k, "replay") >= Limit.replay /\ Catastrophic(b, k) = {}
      [] gate = "cost" -> Ratio(CostOf(b, k), CostOf(b, 0), Limit.cost)
      [] gate = "latency" -> Ratio(LatencyOf(b, k), LatencyOf(b, 0), Limit.latency)

\* the first gate that fails decides
Decide(b, k) ==
    LET failed == {i \in DOMAIN DecisionOrder : ~Passes(DecisionOrder[i], b, k)}
    IN CASE failed = {} -> "ship"
         [] failed # {} /\ DecisionOrder[Min(failed)] = "leakage" -> "reject"
         [] OTHER -> "hold"

-----------------------------------------------------------------------------
(* The experiment. *)

Sealed(s, k) == batch[<<s, k>>] # NoBatch
AllComplete(stages, snapshots) == \A s \in stages, k \in snapshots : Complete(s, batch[<<s, k>>])
Selected == selection # NoSelection

Init ==
    /\ habit \in [Snap -> Habit]
    /\ batch = [b \in Stage \X Snap |-> NoBatch]
    /\ selection = NoSelection
    /\ roles = [executed |-> 0, reused |-> 0]
    /\ decision = [r \in {"native", "agentloopgate"} |-> "none"]
    /\ left = MaxSurprises

\* batches in the order the experiment pays for them, up to one that is held
EvaluationSchedule ==
    [i \in 1..2 * (Count + 1) |->
        IF i <= Count + 1 THEN <<"update_check", i - 1>> ELSE <<"selection", i - Count - 2>>]

ReleaseSchedule ==
    LET snapshots == <<0, selection.native>>
            \o IF selection.governed = selection.native THEN <<>> ELSE <<selection.governed>>
        stages == <<"release_id", "release_ood", "replay">>
    IN [i \in 1..3 * Len(snapshots) |-> <<stages[((i - 1) % 3) + 1], snapshots[(i - 1) \div 3 + 1]>>]

\* the next batch of a schedule is run; single runs of it may go otherwise
RunNext(schedule) ==
    \E i \in DOMAIN schedule :
        LET s == schedule[i][1]
            k == schedule[i][2]
        IN /\ ~Sealed(s, k)
           /\ \A j \in 1..i - 1 : Complete(schedule[j][1], batch[schedule[j]])
           /\ \E odd \in SUBSET Pairs(s) :
                 \E how \in [odd -> Surprises[s]] :
                    /\ Cardinality(odd) <= left
                    /\ left' = left - Cardinality(odd)
                    /\ batch' = [batch EXCEPT ![<<s, k>>] =
                            [p \in Pairs(s) |->
                                Run(habit[k], IF p \in odd THEN how[p] ELSE "none")]]
           /\ UNCHANGED <<habit, selection, roles, decision>>

RunEvaluation == ~Selected /\ RunNext(EvaluationSchedule)

\* _select, from complete batches only
Select ==
    /\ ~Selected
    /\ AllComplete({"update_check", "selection"}, Snap)
    /\ selection' = [native |-> NativeWinner, governed |-> GovernedWinner(batch)]
    /\ UNCHANGED <<habit, batch, roles, decision, left>>

\* a selection that abstains ends the experiment
MayRelease == Selected /\ selection.governed # 0

(* The role assignment: trials the study plans, and those that are executed. *)

Variants(s) == IF s \in Release THEN 3 ELSE Count + 1
Trials(s) == Cardinality(TasksOf[s]) * TrialsOf[s]
TrialsPerSnapshot(stages) == SumFunctionOnSet([s \in stages |-> Trials(s)], stages)
Logical == SumFunctionOnSet([s \in Stage |-> Trials(s) * Variants(s)], Stage)

PhysicalSnapshots_PerRole == 3

PhysicalSnapshots == 1 + Cardinality({selection.native, selection.governed})

AssignRoles ==
    /\ MayRelease
    /\ roles.executed = 0
    /\ LET executed == Logical - (3 - PhysicalSnapshots) * TrialsPerSnapshot(Release)
       IN roles' = [executed |-> executed, reused |-> Logical - executed]
    /\ UNCHANGED <<habit, batch, selection, decision, left>>

RunRelease == MayRelease /\ roles.executed # 0 /\ RunNext(ReleaseSchedule)

\* _decide_selected for both roles, after the last release batch
DecideRoles ==
    /\ MayRelease
    /\ decision["agentloopgate"] = "none"
    /\ AllComplete(Release, {0, selection.native, selection.governed})
    /\ decision' = [native |-> Decide(batch, selection.native),
                    agentloopgate |-> Decide(batch, selection.governed)]
    /\ UNCHANGED <<habit, batch, selection, roles, left>>

Next == RunEvaluation \/ Select \/ AssignRoles \/ RunRelease \/ DecideRoles

Spec == Init /\ [][Next]_vars

-----------------------------------------------------------------------------
(* Properties. *)

\* Type invariant.
TypeOK ==
    /\ habit \in [Snap -> Habit]
    /\ \A b \in Stage \X Snap :
          batch[b] # NoBatch => batch[b] \in [Pairs(b[1]) -> RunType]
    /\ selection.native \in Snap /\ selection.governed \in 0..Count + 1
    /\ roles.executed \in 0..Logical /\ roles.reused \in 0..Logical
    /\ \A r \in DOMAIN decision : decision[r] \in {"none", "ship", "hold", "reject"}
    /\ left \in 0..MaxSurprises

\* A run that broke down on the infrastructure neither helps nor hurts anybody:
\* nothing is selected or decided from a batch that holds one (summarize,
\* disposition_matches_summary, _completed_stage).
InfraNeverDecides ==
    LET used == (IF Selected THEN {"update_check", "selection"} \X Snap ELSE {})
                    \union {b \in Release \X Snap :
                               /\ decision["agentloopgate"] # "none"
                               /\ b[2] \in {0, selection.native, selection.governed}}
    IN \A b \in used : \A p \in DOMAIN batch[b] : batch[b][p].valid

Better(b, s, k, p) == [b EXCEPT ![<<s, k>>][p].success = TRUE]

\* No candidate is worse off for one run that went better: what was selected
\* would still be selected, and what is shipped would still be shipped
\* (_select_with_baseline, GateEngine.decide).
BetterRunNeverHurts ==
    /\ MayRelease =>
          LET k == selection.governed IN
          \A p \in DOMAIN batch[<<"selection", k>>] :
              GovernedWinner(Better(batch, "selection", k, p)) = k
    /\ decision["agentloopgate"] = "ship" =>
          LET k == selection.governed IN
          \A s \in Release : \A p \in DOMAIN batch[<<s, k>>] :
              Decide(Better(batch, s, k, p), k) = "ship"

Worse(e) == <<-Cardinality(e.stable), e.timeouts, e.retries, e.p95, e.max, e.whole, e.cost, e.p50>>

\* No other eligible candidate is as good in every respect the selection looks
\* at and better in one (_select_with_baseline, the ranking policy).
SelectedIsUndominated ==
    MayRelease =>
        LET of == [k \in Snap |-> Measures(batch[<<"selection", k>>])]
            mine == Worse(of[selection.governed])
        IN \A k \in Candidate :
              Eligible(of[k], of[0]) =>
                  LET other == Worse(of[k]) IN
                  (\A i \in DOMAIN mine : other[i] <= mine[i]) => other = mine

\* The number of executed trials that the role assignment states before the
\* release is the number the experiment has executed when it decides: evidence
\* that both roles share is counted once (_build_role_assignment, run).
ExecutedIsCounted ==
    decision["agentloopgate"] # "none" =>
        /\ roles.executed =
              SumFunctionOnSet([b \in Stage \X Snap |->
                  IF batch[b] = NoBatch THEN 0 ELSE Cardinality(DOMAIN batch[b])], Stage \X Snap)
        /\ roles.executed + roles.reused = Logical
=============================================================================
