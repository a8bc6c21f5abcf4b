------------------------- MODULE CandidateProposals -------------------------
(***************************************************************************)
(* From the failures of the Update-Source batch to the candidates that are *)
(* evaluated: the diagnosis of formal records, the turns the failure       *)
(* bundles take before the external updater, the check of every patch      *)
(* against the mutation policy and the trust kernel frozen for the         *)
(* experiment, the choice of a diverse subset and the child snapshots.     *)
(* FormalExperiment has the files of this path and how it dies inside a    *)
(* registration; here a registration is one step, and what is proposed and *)
(* why is the state.                                                       *)
(***************************************************************************)
EXTENDS Naturals, Sequences, FiniteSets, SequencesExt

CONSTANTS
    R,               \* runs of the Update-Source batch, one for every task
    Observations,    \* what the evidence of a run may show
    HighRisk,        \* runs of tasks that are declared high-risk
    Patches,         \* name -> a patch the updater may produce
    Budget,          \* protocol.updater_proposal_budget
    CandidateCount,  \* config.candidate_count
    MinFamilies,     \* config.min_asset_families
    MaxTroubles      \* bound: deaths, updater failures, edits of the kernel

Run == 1..R
Kinds == {"free", "unseen", "other", "unmatched", "some", "all"}

ASSUME RunAssumption == R \in Nat \ {0} /\ HighRisk \subseteq Run
ASSUME ObservationAssumption ==
    Observations \subseteq [valid : BOOLEAN, success : BOOLEAN,
                            db : {"match", "mismatch", "absent"}, tools : Kinds]
ASSUME PlanAssumption == {Budget, CandidateCount, MinFamilies} \subseteq Nat \ {0}
ASSUME TroubleAssumption == MaxTroubles \in Nat

-----------------------------------------------------------------------------
(* What is frozen: the assets of the harness, the mutation policy and what *)
(* the diagnosis makes of a type of failure.                               *)

Families == {"prompt", "context", "retrieval", "tools", "orchestration", "middleware"}

Risk == [f \in Families |-> CASE f \in {"prompt", "context"} -> "L"
                              [] f = "middleware" -> "H"
                              [] OTHER -> "M"]
Patchable == Families \ {"middleware"}
PolicyLimit == [files |-> 4, lines |-> 160]

\* only the types a formal record can be given
Targets ==
    [tool_discovery_error |-> {"tools", "context"}, tool_selection_error |-> {"tools"},
     tool_parameter_error |-> {"tools", "prompt"},
     state_verification_error |-> {"orchestration", "prompt"}, unknown |-> {"prompt"},
     spec_or_evaluator_issue |-> {"middleware"}, infra_failure |-> {"middleware"}]
Types == DOMAIN Targets
BundleLimit ==
    [t \in Types |-> CASE t = "state_verification_error" -> [files |-> 4, lines |-> 160]
                       [] t = "unknown" -> [files |-> 2, lines |-> 80]
                       [] t = "spec_or_evaluator_issue" -> [files |-> 1, lines |-> 40]
                       [] OTHER -> [files |-> 3, lines |-> 120]]

\* files: the asset families, "protected" or "stray" paths a patch touches;
\* fits: it applies to the files of the parent; means: what its text amounts to
ASSUME PatchAssumption ==
    \A n \in DOMAIN Patches :
        /\ Patches[n].files \in SUBSET (Families \union {"protected", "stray"}) \ {{}}
        /\ Patches[n].count \in Nat /\ Patches[n].lines \in Nat
        /\ {Patches[n].parses, Patches[n].leaks, Patches[n].binds, Patches[n].fits}
              \subseteq BOOLEAN

Id == Types \X (1..Budget)   \* bundle and index give the candidate its name
Nobody == [is |-> "none", patch |-> "none", kernel |-> 0]

VARIABLES
    saw,      \* run -> what its evidence shows
    ranking,  \* diagnosis.json: types of the bundles by priority
    kernel,   \* revision of the trust-kernel files in the working tree
    frozen,   \* revision in trust_kernel.json, 0 when there is none
    fate,     \* candidate -> what the registry or the rejections retain of it
    paid,     \* candidates the updater was started for
    plan,     \* proposal_plan.json
    built,    \* candidates with a child snapshot
    pc, turn, index, draft, seen, left

retained == <<ranking, frozen, fate, paid, plan, built>>
local == <<turn, index, draft, seen>>
vars == <<saw, kernel, retained, pc, local, left>>

-----------------------------------------------------------------------------
(* The members of a list that are in a set, in their order. *)

\* the number at place n when those of I stand in ascending order
Place(I, n) == Min({x \in I : Cardinality({y \in I : y <= x}) >= n})

Kept(s, S) ==
    LET I == {i \in DOMAIN s : s[i] \in S}
    IN [n \in 1..Cardinality(I) |-> s[Place(I, n)]]

-----------------------------------------------------------------------------
(* The diagnosis. *)

Failed(r) == ~saw[r].success
Conflict(o) == o.valid /\ o.db = "mismatch" /\ o.tools = "all"

\* the signals of a formal record in the order the classifier asks for them
Signals(o) ==
    <<<<~o.valid, "infra_failure">>, <<Conflict(o), "spec_or_evaluator_issue">>,
      <<o.tools = "unseen", "tool_discovery_error">>,
      <<o.tools = "other", "tool_selection_error">>,
      <<o.tools = "unmatched", "tool_parameter_error">>,
      <<o.db = "mismatch", "state_verification_error">>, <<TRUE, "unknown">>>>
Classify(o) == SelectInSeq(Signals(o), LAMBDA s : s[1])
TypeOf(r) == Signals(saw[r])[Classify(saw[r])][2]

Incidents == {r \in Run : Failed(r) /\ Conflict(saw[r])}
Found == {TypeOf(r) : r \in {r \in Run : Failed(r)}}
Affected(t) == {r \in Run : Failed(r) /\ TypeOf(r) = t}
Impact(t) == IF Affected(t) \intersect HighRisk = {} THEN 1 ELSE 2
Priority(t) == Cardinality(Affected(t)) * Impact(t)

\* bundles of one priority stand in the order of their digests
Rankings ==
    {s \in [1..Cardinality(Found) -> Found] :
        /\ IsInjective(s)
        /\ \A i, j \in DOMAIN s : i < j => Priority(s[i]) >= Priority(s[j])}

Eligible_KeepsInfra == Kept(ranking, Types \ {"spec_or_evaluator_issue"})

Eligible == Kept(ranking, Types \ {"infra_failure", "spec_or_evaluator_issue"})

-----------------------------------------------------------------------------
(* The check of a patch for a bundle of type t. *)

Fingerprint(p) == <<p.files, p.means>>
TooLarge_IgnoresBundle(p, t) == p.count > PolicyLimit.files \/ p.lines > PolicyLimit.lines

TooLarge(p, t) ==
    \/ p.count > Min({PolicyLimit.files, BundleLimit[t].files})
    \/ p.lines > Min({PolicyLimit.lines, BundleLimit[t].lines})

Unbound(p) == "tools" \in p.files /\ ~(p.fits /\ p.binds)
Unregistered(p) == ~(p.files \subseteq Families)
Forbidden(p) == \E f \in p.files : f \notin Patchable /\ Risk[f] # "H"

\* the protected paths lie outside the registered assets
Rejected(p, t) ==
    \/ ~p.parses
    \/ kernel # frozen
    \/ Unregistered(p)
    \/ Forbidden(p)
    \/ p.leaks
    \/ Unbound(p)
    \/ TooLarge(p, t)

\* the registry also refuses what a candidate of the same bundle already says
Duplicate(p, t) ==
    \E k \in 1..Budget :
        LET other == fate[<<t, k>>] IN
        other.is \in {"checked", "held"} /\ Fingerprint(Patches[other.patch]) = Fingerprint(p)

Registered(n, t) ==
    LET p == Patches[n] IN
    [is |-> IF Rejected(p, t) \/ Duplicate(p, t) THEN "rejected"
            ELSE IF \E f \in p.files : Risk[f] = "H" THEN "held" ELSE "checked",
     patch |-> n, kernel |-> kernel]

-----------------------------------------------------------------------------
(* The command. *)

Init ==
    /\ saw \in [Run -> Observations]
    /\ ranking = <<>> /\ kernel = 1 /\ frozen = 0
    /\ fate = [id \in Id |-> Nobody] /\ paid = {} /\ plan = <<>> /\ built = {}
    /\ pc = "idle" /\ turn = 0 /\ index = 1 /\ draft = "none" /\ seen = <<>>
    /\ left = MaxTroubles

Running == pc \notin {"idle", "blocked", "done"}

Fresh == turn' = 0 /\ index' = 1 /\ draft' = "none" /\ seen' = <<>>

\* the same command starts, again after it was blocked or had finished
Begin ==
    /\ ~Running /\ pc' = "diagnose" /\ Fresh
    /\ UNCHANGED <<saw, kernel, retained, left>>

Diagnose ==
    /\ pc = "diagnose" /\ pc' = "gate"
    /\ ranking' \in (IF ranking = <<>> THEN Rankings ELSE {ranking})
    /\ UNCHANGED <<saw, kernel, frozen, fate, paid, plan, built, local, left>>

Refuse ==
    /\ pc = "gate" /\ (Incidents # {} \/ Eligible = <<>>)
    /\ pc' = "blocked"
    /\ UNCHANGED <<saw, kernel, retained, local, left>>

OpenRegistry ==
    /\ pc = "gate" /\ Incidents = {} /\ Eligible # <<>>
    /\ frozen' = IF frozen = 0 THEN kernel ELSE frozen
    /\ pc' = "turn"
    /\ UNCHANGED <<saw, kernel, ranking, fate, paid, plan, built, local, left>>

\* the bundle whose turn it is, and how often it has been by now
BundleOf_First(k) == Eligible[1]

BundleOf(k) == Eligible[(k % Len(Eligible)) + 1]

Bundle == BundleOf(turn)
Count == Cardinality({k \in 0..turn : BundleOf(k) = Bundle})
Current == <<Bundle, index>>

TakeTurn ==
    /\ pc = "turn" /\ turn < Budget
    /\ pc' = "propose" /\ index' = 1
    /\ UNCHANGED <<saw, kernel, retained, turn, draft, seen, left>>

Exhausted ==
    /\ pc = "turn" /\ turn = Budget
    /\ pc' = "blocked"
    /\ UNCHANGED <<saw, kernel, retained, local, left>>

\* a candidate or a rejection of that name is kept from before
Known ==
    /\ pc = "propose" /\ index <= Count /\ fate[Current] # Nobody
    /\ index' = index + 1
    /\ UNCHANGED <<saw, kernel, retained, pc, turn, draft, seen, left>>

\* the parent holds files of each family a bundle targets: one that holds none
\* would fail every command (ahe.py:930-931)
\* the updater sees copies of the targeted files of the parent and may change
\* them or add files: a patch of nothing else applies to the parent
AskUpdater ==
    /\ pc = "propose" /\ index <= Count /\ fate[Current] = Nobody
    /\ \E n \in DOMAIN Patches :
          /\ Patches[n].files \subseteq Targets[Bundle] => Patches[n].fits
          /\ draft' = n
    /\ paid' = paid \union {Current}
    /\ pc' = "check"
    /\ UNCHANGED <<saw, kernel, ranking, frozen, fate, plan, built, turn, index, seen, left>>

UpdaterFails ==
    /\ pc = "propose" /\ index <= Count /\ fate[Current] = Nobody /\ left > 0
    /\ paid' = paid \union {Current}
    /\ pc' = "idle" /\ left' = left - 1 /\ Fresh
    /\ UNCHANGED <<saw, kernel, ranking, frozen, fate, plan, built>>

Register ==
    /\ pc = "check"
    /\ fate' = [fate EXCEPT ![Current] = Registered(draft, Bundle)]
    /\ pc' = "propose" /\ index' = index + 1 /\ draft' = "none"
    /\ UNCHANGED <<saw, kernel, ranking, frozen, paid, plan, built, turn, seen, left>>

-----------------------------------------------------------------------------
(* The plan and its children. *)

With(status) == {id \in Id : fate[id].is = status}
Returned == Kept([k \in 1..Count |-> <<Bundle, k>>], Id \ With("rejected"))
SeenNow == seen \o Kept(Returned, Id \ ToSet(seen))

Executable(s) == Kept(s, With("checked"))
FamiliesOf(S) == UNION {Patches[fate[id].patch].files : id \in S}
Diverse(S) == Cardinality(FamiliesOf(S)) >= MinFamilies
Enough_More(e) == Len(e) > CandidateCount /\ Diverse(ToSet(e))

Enough(e) == Len(e) >= CandidateCount /\ Diverse(ToSet(e))

\* positions of the first combination, in the order of emission, that has
\* enough families
DiverseSubsets(e) ==
    {S \in SUBSET DOMAIN e : Cardinality(S) = CandidateCount /\ Diverse({e[i] : i \in S})}
Earlier(S, T) == Min((S \ T) \union (T \ S)) \in S
DiverseSubset(e) ==
    LET all == DiverseSubsets(e)
        first == CHOOSE S \in all : \A T \in all \ {S} : Earlier(S, T)
    IN [i \in 1..CandidateCount |-> e[Place(first, i)]]

Collect ==
    /\ pc = "propose" /\ index > Count
    /\ seen' = SeenNow
    /\ LET e == Executable(SeenNow) IN
       IF ~Enough(e)
       THEN turn' = turn + 1 /\ pc' = "turn" /\ UNCHANGED plan
       ELSE IF DiverseSubsets(e) = {} \/ plan \notin {<<>>, DiverseSubset(e)}
       THEN pc' = "blocked" /\ UNCHANGED <<turn, plan>>
       ELSE plan' = DiverseSubset(e) /\ pc' = "build" /\ UNCHANGED turn
    /\ UNCHANGED <<saw, kernel, ranking, frozen, fate, paid, built, index, draft, left>>

Unbuilt == Kept(plan, Id \ built)

\* git applies the patch to the files of the parent, or the command ends here,
\* this time and every time
Build ==
    /\ pc = "build" /\ Unbuilt # <<>>
    /\ IF Patches[fate[Head(Unbuilt)].patch].fits
       THEN built' = built \union {Head(Unbuilt)} /\ UNCHANGED pc
       ELSE pc' = "blocked" /\ UNCHANGED built
    /\ UNCHANGED <<saw, kernel, ranking, frozen, fate, paid, plan, local, left>>

Finish ==
    /\ pc = "build" /\ Unbuilt = <<>>
    /\ pc' = "done"
    /\ UNCHANGED <<saw, kernel, retained, local, left>>

Die ==
    /\ Running /\ left > 0
    /\ pc' = "idle" /\ left' = left - 1 /\ Fresh
    /\ UNCHANGED <<saw, kernel, retained>>

\* somebody edits a file of the trust kernel, or takes the edit back
EditKernel ==
    /\ Running /\ left > 0
    /\ kernel' = 3 - kernel /\ left' = left - 1
    /\ UNCHANGED <<saw, retained, pc, local>>

Next ==
    \/ Begin \/ Diagnose \/ Refuse \/ OpenRegistry \/ TakeTurn \/ Exhausted \/ Known
    \/ AskUpdater \/ UpdaterFails \/ Register \/ Collect \/ Build \/ Finish
    \/ Die \/ EditKernel

Spec == Init /\ [][Next]_vars

-----------------------------------------------------------------------------
(* Properties. *)

\* Over all restarts the bundles are served in turn: one of higher priority is
\* never behind, nor more than one proposal ahead, and no more proposals are
\* decided than the protocol has budget for.
Tried(t) == Cardinality({k \in 1..Budget : fate[<<t, k>>] # Nobody})
TurnsAreFair ==
    /\ \A i, j \in DOMAIN Eligible :
          i < j => Tried(Eligible[i]) - Tried(Eligible[j]) \in 0..1
    /\ Cardinality({id \in Id : fate[id] # Nobody}) <= Budget

\* Whatever was edited or taken back meanwhile, a checked candidate is within
\* both budgets of its own bundle, touches nothing but patchable assets, fits the
\* runtime tool schema, and was checked while the trust kernel was the frozen one.
WithinPolicy(id) ==
    LET p == Patches[fate[id].patch] IN
    /\ fate[id].kernel = frozen
    /\ p.parses /\ ~p.leaks /\ p.files \subseteq Families \ {"middleware"}
    /\ "tools" \in p.files => p.fits /\ p.binds
    /\ \A limit \in {PolicyLimit, BundleLimit[id[1]]} :
          p.count <= limit.files /\ p.lines <= limit.lines
CheckedIsWithinPolicy ==
    \A id \in Id : fate[id].is = "checked" => WithinPolicy(id)

\* Whatever was held, rejected or tried again on the way, the plan holds the
\* number of candidates and of asset families the configuration asks for; each is
\* checked, answers failures of the agent and not of the infrastructure, and
\* differs from the others of its bundle; and no run of the batch is one the
\* evaluator fails although every action of it matches (SPEC 5.2, 5.6).
PlanIsComplete ==
    plan # <<>> =>
        /\ Cardinality(ToSet(plan)) = CandidateCount
        /\ Cardinality(FamiliesOf(ToSet(plan))) >= MinFamilies
        /\ \A a, b \in ToSet(plan) :
              /\ fate[a].is = "checked"
              /\ \E r \in Run : saw[r].valid /\ ~saw[r].success /\ TypeOf(r) = a[1]
              /\ Fingerprint(Patches[fate[a].patch]) = Fingerprint(Patches[fate[b].patch])
                    => a = b \/ a[1] # b[1]
        /\ \A r \in Run : ~(saw[r].valid /\ ~saw[r].success /\ saw[r].db = "mismatch"
                              /\ saw[r].tools = "all")

\* The experiment is blocked for good only for a cause that is on disk: an
\* incident, nothing to act on, a budget spent without enough executable
\* candidates, a planned patch that does not apply to the parent, or a
\* configuration that asks for more families than candidates and gets them from
\* no choice of so few.
NotEnough ==
    LET S == With("checked") IN
    /\ Cardinality({id \in Id : fate[id] # Nobody}) = Budget
    /\ Cardinality(S) < CandidateCount \/ Cardinality(FamiliesOf(S)) < MinFamilies
NoChoice ==
    /\ MinFamilies > CandidateCount /\ Diverse(With("checked"))
    /\ \A S \in SUBSET With("checked") : Cardinality(S) = CandidateCount => ~Diverse(S)
BlockedForCause ==
    pc = "blocked" =>
        \/ Incidents # {} \/ Eligible = <<>>
        \/ NotEnough
        \/ NoChoice
        \/ \E id \in ToSet(plan) : ~Patches[fate[id].patch].fits
=============================================================================
