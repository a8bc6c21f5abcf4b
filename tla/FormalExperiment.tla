--------------------------- MODULE FormalExperiment ---------------------------
(***************************************************************************)
(* The formal experiment: `agentloopgate experiment run`, from the frozen  *)
(* baseline over proposals, evaluation and selection to one outcome, in    *)
(* schema 1.2 with protocol 2.0.  Everything it does is kept in files that *)
(* are written once, and the same command is the recovery path: it walks   *)
(* through all stages again and verifies what is there.  Beside it the     *)
(* owner authorizes paid stages, a person runs single stages or edits the  *)
(* source, and the command may die anywhere.  A paid batch is one step     *)
(* here: FormalBatch says how it is interrupted and resumed.               *)
(***************************************************************************)
EXTENDS Integers, Sequences, FiniteSets, SequencesExt

CONSTANTS
    Budget,          \* protocol.updater_proposal_budget
    Families,        \* slot -> the asset families its proposal changes
    CandidateCount,  \* config.candidate_count
    MinFamilies,     \* config.min_asset_families
    ReleaseStages,   \* the release stages and the replay, in order
    Trouble,         \* bound: the kinds of trouble that may come, of KnownTrouble
    MaxTroubles      \* bound: how often something of those kinds happens

Slot == 1..Budget            \* one proposal of the updater
Snap == 0..Budget            \* 0 is the evaluation baseline, k the child of slot k

ASSUME BudgetAssumption == Budget \in Nat \ {0}
ASSUME FamilyAssumption == DOMAIN Families = Slot /\ \A k \in Slot : IsFiniteSet(Families[k])
ASSUME CountAssumption == CandidateCount \in 1..Budget /\ MinFamilies \in 1..Budget
ASSUME StageAssumption ==
    ReleaseStages \in Seq({"release_id", "release_ood", "replay"}) /\ ReleaseStages # <<>>

\* a command that dies or leaves the file of the moment half written, an updater
\* that fails or cannot be reached, a source or a live harness that is edited, a
\* batch run by `experiment stage`, one sealed as HOLD or, before the release,
\* with calls nobody knows the price of
KnownTrouble == {"death", "torn", "failure", "edit", "drift", "stage", "hold", "inexact"}

ASSUME BoundAssumption == Trouble \subseteq KnownTrouble /\ MaxTroubles \in Nat

Release == Range(ReleaseStages)
Stage == {"update_source", "update_check", "selection"} \union Release
Progress == <<"checked", "update_evaluated", "selection_evaluated", "release_evaluated">>
Final == {"held", "ship_recommended"}
Status == Range(Progress) \union Final
Artifact == {"diagnosis", "plan", "selection", "lineage", "ablation", "roles", "analysis",
             "native", "agentloopgate", "report", "outcome", "hold"}

\* every file that is written once: artifacts of the experiment, and the
\* lifecycle evidence of a candidate's status
Paper == (Artifact \X {0}) \union (Status \X Slot)

VARIABLES
    \* what the updater and the registry retain
    slot,       \* slot -> none | partial | refusing | refused | status of the candidate
    meta,       \* slots with runs/updaters/ahe/<candidate>/run_metadata.json
    spent,      \* updater attempts on disk: still open, ended exact, ended partial
    snap,       \* snapshot -> none | partial | whole
    base,       \* source revision the baseline was captured from
    \* what the experiment retains
    batch,      \* <<stage, snapshot>> -> how the paid batch was sealed, or none
    whole,      \* papers on disk
    broken,     \* papers of which a write left a part
    says,       \* what the papers say
    \* the people around it
    auth,       \* paid authorizations of the owner, by scope
    rev,        \* revision of the execution source in the working tree
    live,       \* whether harness/ holds the files of the baseline, once there is one
    \* the running command
    pc, at, verdict, seen, work, answer,
    edited,     \* whether the source was ever changed
    left        \* how often something may still go wrong

registry == <<slot, meta, spent, snap, base>>
evidence == <<batch, whole, broken, says>>
people == <<auth, rev, live>>
local == <<at, verdict, seen, work>>
troubles == <<edited, left>>
vars == <<registry, evidence, people, pc, local, answer, troubles>>

-----------------------------------------------------------------------------
(* What the command reads off the disk. *)

NoRelease == [governed |-> 0, rev |-> 0]
NoCost == [open |-> 0, exact |-> 0, partial |-> 0]

Executable == {k \in seen : slot[k] # "held"}
Diverse(S) == Cardinality(UNION {Families[k] : k \in S}) >= MinFamilies
Enough == Cardinality(Executable) >= CandidateCount /\ Diverse(Executable)

\* the first combination in the order of emission with enough families
Earlier(S, T) == Min((S \ T) \union (T \ S)) \in S
DiverseSubsets == {S \in SUBSET Executable : Cardinality(S) = CandidateCount /\ Diverse(S)}
First(S) == \A T \in DiverseSubsets \ {S} : Earlier(S, T)

Chosen == says.plan
Better == {k \in Chosen : batch[<<"selection", k>>] = "better"}
Native == Min(Chosen)
Governed == IF Better = {} THEN 0 ELSE Min(Better)

\* the decision of the gates about a candidate, from its release batches; only
\* the leakage gate rejects, and here its count is always zero
Decision(k) ==
    IF \E s \in Release : batch[<<s, k>>] = "weak" THEN "held" ELSE "ship_recommended"

Roles == {says.native, says.governed}
PreReleaseAuthorized == auth.pre = rev
ReleaseAuthorized ==
    auth.release = [governed |-> says.governed, rev |-> rev] /\ <<"selection", 0>> \in whole

-----------------------------------------------------------------------------
(* The work of the command after the proposals, as a queue of jobs. *)

Store(k) == [do |-> "store", name |-> "snapshot", on |-> k]
Batch(s, k) == [do |-> "batch", name |-> s, on |-> k]
Advance(k, s) == [do |-> "advance", name |-> s, on |-> k]
Seal(a) == [do |-> "seal", name |-> a, on |-> 0]

Ordered(S) == FlattenSeq([k \in Slot |-> IF k \in S THEN <<k>> ELSE <<>>])
Each(o, Jobs(_)) == FlattenSeq([i \in DOMAIN o |-> Jobs(o[i])])

EvaluationWork ==
    LET o == Ordered(Chosen) IN
    Each(o, LAMBDA k : <<Store(k)>>)
        \o <<Batch("update_check", 0)>>
        \o Each(o, LAMBDA k : <<Batch("update_check", k), Advance(k, "update_evaluated")>>)
        \o <<Batch("selection", 0)>>
        \o Each(o, LAMBDA k : <<Batch("selection", k), Advance(k, "selection_evaluated")>>)
        \o <<Seal("selection")>>

HoldWork ==
    <<Seal("lineage")>>
        \o Each(Ordered(Chosen), LAMBDA k : <<Advance(k, "held")>>)
        \o <<Seal("hold")>>

RoleOrder_NativeOnly == <<says.native>>

RoleOrder ==
    IF says.native = says.governed THEN <<says.native>> ELSE <<says.native, says.governed>>

\* the second loop of the code goes through a set, in the order o
ReleaseWork(o) ==
    <<Seal("ablation"), Seal("roles")>>
        \o Each(<<0>> \o RoleOrder,
                LAMBDA k : [i \in DOMAIN ReleaseStages |-> Batch(ReleaseStages[i], k)])
        \o Each(o, LAMBDA k : <<Advance(k, "release_evaluated")>>)
        \o <<Seal("analysis"), Seal("lineage"), Seal("native"), Seal("agentloopgate")>>

DecisionWork ==
    Each(RoleOrder, LAMBDA k : <<Advance(k, Decision(k))>>) \o <<Seal("report"), Seal("outcome")>>

-----------------------------------------------------------------------------
Init ==
    /\ slot = [k \in Slot |-> "none"] /\ meta = {} /\ spent = NoCost
    /\ snap = [k \in Snap |-> "none"] /\ base = 0
    /\ batch = [b \in Stage \X Snap |-> "none"]
    /\ whole = {} /\ broken = {}
    /\ says = [plan |-> {}, native |-> 0, governed |-> 0, ablation |-> 0, cost |-> NoCost]
    /\ auth = [pre |-> 0, release |-> NoRelease] /\ rev = 1 /\ live = TRUE
    /\ pc = "idle" /\ at = 0 /\ verdict = "none" /\ seen = {} /\ work = <<>>
    /\ answer = "none"
    /\ edited = FALSE /\ left = MaxTroubles

\* the command ends, with its answer
End(why) ==
    /\ pc' = "idle" /\ at' = 0 /\ verdict' = "none" /\ seen' = {} /\ work' = <<>>
    /\ answer' = why

Stay == UNCHANGED <<pc, local, answer>>
Go(place) == pc' = place /\ UNCHANGED <<local, answer>>
KeepDisk == UNCHANGED <<registry, evidence>>

\* something goes wrong
Happens(T) ==
    /\ T \subseteq Trouble /\ Cardinality(T) <= left
    /\ left' = left - Cardinality(T)
    /\ edited' = (edited \/ "edit" \in T)

Written(paper) == paper \in whole \union broken

WriteOnce_Exclusive(paper, same, new, after) ==
    /\ IF Written(paper)
       THEN UNCHANGED <<whole, says>> /\ End("blocked")
       ELSE whole' = whole \union {paper} /\ says' = new /\ after
    /\ UNCHANGED <<registry, batch, broken, people, troubles>>

\* _write_once: a file that is there must be whole and say the same; the
\* command goes on with `after`, and ends blocked otherwise
WriteOnce(paper, same, new, after) ==
    /\ IF Written(paper)
       THEN UNCHANGED <<whole, says>>
       ELSE whole' = whole \union {paper} /\ says' = new
    /\ IF paper \in broken \/ (paper \in whole /\ ~same) THEN End("blocked") ELSE after
    /\ UNCHANGED <<registry, batch, broken, people, troubles>>

-----------------------------------------------------------------------------
(* The people. *)

Running == pc # "idle"

\* approving a paid stage; an authorization that is there is only verified
AuthorizePreRelease ==
    /\ auth.pre = 0
    /\ auth' = [auth EXCEPT !.pre = rev]
    /\ UNCHANGED <<registry, evidence, rev, live, pc, local, answer, troubles>>

AuthorizeRelease ==
    /\ auth.release = NoRelease
    /\ ~Written(<<"hold", 0>>)
    /\ <<"selection", 0>> \in whole
    /\ says.governed # 0
    /\ auth' = [auth EXCEPT !.release = [governed |-> says.governed, rev |-> rev]]
    /\ UNCHANGED <<registry, evidence, rev, live, pc, local, answer, troubles>>

\* the execution source is changed, or changed back
EditSource ==
    /\ rev' = 3 - rev
    /\ Happens({"edit"})
    /\ UNCHANGED <<registry, evidence, auth, live, pc, local, answer>>

\* harness/ is changed, or changed back: it is not part of the execution source
EditHarness ==
    /\ snap[0] = "whole"
    /\ live' = ~live
    /\ Happens({"drift"})
    /\ UNCHANGED <<registry, evidence, auth, rev, pc, local, answer>>

-----------------------------------------------------------------------------
(* Start of the command, and the outcomes that are already there. *)

Start_IgnoresHold ==
    /\ ~Running
    /\ ~Written(<<"outcome", 0>>)
    /\ IF PreReleaseAuthorized THEN Go("baseline") ELSE End("unauthorized")
    /\ KeepDisk
    /\ UNCHANGED <<people, troubles>>

\* inspect_formal_preflight, then the files that say the experiment is over
Start ==
    /\ ~Running
    /\ ~Written(<<"outcome", 0>>) /\ ~Written(<<"hold", 0>>)
    /\ IF PreReleaseAuthorized THEN Go("baseline") ELSE End("unauthorized")
    /\ KeepDisk
    /\ UNCHANGED <<people, troubles>>

StartAgain ==
    /\ ~Running
    /\ Written(<<"outcome", 0>>) \/ Written(<<"hold", 0>>)
    /\ IF ~PreReleaseAuthorized THEN End("unauthorized") ELSE Go("again")
    /\ KeepDisk
    /\ UNCHANGED <<people, troubles>>

BatchesOf(snapshots, stages) == \A b \in stages \X snapshots : batch[b] \notin {"none", "hold"}

\* _load_verified_selection_hold
HoldStands ==
    /\ <<"hold", 0>> \notin broken
    /\ {<<"selection", 0>>, <<"lineage", 0>>} \subseteq whole
    /\ says.governed = 0
    /\ BatchesOf({0}, {"update_source"})
    /\ BatchesOf({0} \union Chosen, {"update_check", "selection"})
    /\ \A k \in Chosen : snap[k] = "whole" /\ slot[k] = "held"
    /\ says.cost = spent
    /\ \A b \in Release \X Snap : batch[b] = "none"

\* _load_verified_outcome
OutcomeStands ==
    /\ <<"outcome", 0>> \notin broken
    /\ {"lineage", "native", "agentloopgate", "roles", "analysis", "ablation", "report"}
           \X {0} \subseteq whole
    /\ BatchesOf({0}, {"update_source"})
    /\ BatchesOf({0} \union Chosen, {"update_check", "selection"})
    /\ BatchesOf({0} \union Roles, Release)
    /\ \A k \in Chosen : snap[k] = "whole"

VerifyAgain ==
    /\ pc = "again"
    /\ LET hold == Written(<<"hold", 0>>)
           outcome == Written(<<"outcome", 0>>)
       IN End(IF /\ ~(hold /\ outcome)
                 /\ snap[0] = "whole" /\ base = rev
                 /\ IF hold THEN HoldStands ELSE OutcomeStands
              THEN "decided" ELSE "blocked")
    /\ KeepDisk
    /\ UNCHANGED <<people, troubles>>

\* ensure_baseline: a baseline that does not verify is captured from harness/;
\* what its directory holds already makes that fail, and so does a harness/ that
\* differs from it (verify_live)
EnsureBaseline ==
    /\ pc = "baseline"
    /\ IF snap[0] = "none"
       THEN /\ snap' = [snap EXCEPT ![0] = "whole"]
            /\ base' = rev
            /\ Go("source")
       ELSE /\ UNCHANGED <<snap, base>>
            /\ CASE snap[0] # "whole" \/ base # rev -> End("blocked")
                 [] snap[0] = "whole" /\ base = rev /\ ~live -> End("drifted")
                 [] OTHER -> Go("source")
    /\ UNCHANGED <<slot, meta, spent, evidence, people, troubles>>

\* `experiment baseline-freeze`, which needs no authorization
FreezeBaseline ==
    /\ snap[0] = "none"
    /\ snap' = [snap EXCEPT ![0] = "whole"]
    /\ base' = rev
    /\ UNCHANGED <<slot, meta, spent, evidence, people, pc, local, answer, troubles>>

-----------------------------------------------------------------------------
(* Paid batches. *)

Results(s, k) ==
    {"hold"} \union
    CASE s = "selection" /\ k # 0 -> {"better", "same", "inexact"}
      [] s \in Release /\ k # 0 -> {"pass", "weak"}
      [] s \in Release /\ k = 0 -> {"complete"}
      [] OTHER -> {"complete", "inexact"}

MayRun_AnyScope(s, k) ==
    /\ snap[k] = "whole" /\ snap[0] = "whole"
    /\ base = rev
    /\ PreReleaseAuthorized

MayRun(s, k) ==
    /\ snap[k] = "whole" /\ snap[0] = "whole"
    /\ base = rev
    /\ IF s \in Release
       THEN /\ ~Written(<<"hold", 0>>)
            /\ ReleaseAuthorized
            /\ says.governed # 0
       ELSE PreReleaseAuthorized

\* run_stage: sealed evidence is verified and reused, otherwise the batch is paid for
PayBatch(s, k, who) ==
    \E r \in Results(s, k) :
        /\ batch' = [batch EXCEPT ![<<s, k>>] = r]
        /\ Happens(who \union ({r} \intersect {"hold", "inexact"}))

\* _completed_stage, to be done before `after`
RunStage(s, k, after) ==
    /\ MayRun(s, k)
    /\ batch[<<s, k>>] = "none"
    /\ PayBatch(s, k, {})
    /\ IF batch'[<<s, k>>] = "hold" THEN End("held") ELSE after
    /\ UNCHANGED <<registry, whole, broken, says, people>>

ReuseStage(s, k, after) ==
    /\ MayRun(s, k)
    /\ batch[<<s, k>>] # "none"
    /\ IF batch[<<s, k>>] = "hold" THEN End("held") ELSE after
    /\ KeepDisk
    /\ UNCHANGED <<people, troubles>>

RefuseStage(s, k) ==
    /\ ~MayRun(s, k)
    /\ End(IF snap[k] = "whole" THEN "unauthorized" ELSE "blocked")
    /\ KeepDisk
    /\ UNCHANGED <<people, troubles>>

CompletedStage(s, k, after) ==
    RunStage(s, k, after) \/ ReuseStage(s, k, after) \/ RefuseStage(s, k)

SourceBatch == pc = "source" /\ CompletedStage("update_source", 0, Go("diagnose"))

\* `experiment stage`, beside the command or instead of it
StageCommand(s, k) ==
    /\ PreReleaseAuthorized
    /\ MayRun(s, k)
    /\ batch[<<s, k>>] = "none"
    /\ PayBatch(s, k, {"stage"})
    /\ UNCHANGED <<registry, whole, broken, says, people, pc, local, answer>>

-----------------------------------------------------------------------------
(* Proposals: the slots of the budget in order, until the candidates suffice. *)

Diagnose ==
    /\ pc = "diagnose"
    /\ WriteOnce(<<"diagnosis", 0>>, TRUE, says, Go("authorize"))

\* verify_updater_generation_authorization: once, before the first proposal; the
\* provider's address is looked up, which may fail
AuthorizeUpdater ==
    /\ pc = "authorize"
    /\ \/ /\ IF PreReleaseAuthorized /\ base = rev
             THEN pc' = "propose" /\ at' = 1 /\ UNCHANGED <<verdict, seen, work, answer>>
             ELSE End("unauthorized")
          /\ UNCHANGED troubles
       \/ End("unauthorized") /\ Happens({"failure"})
    /\ KeepDisk
    /\ UNCHANGED people

See == seen' = seen \union {at} /\ pc' = "choose" /\ UNCHANGED <<at, verdict, work, answer>>

LoadProposal_Forgets ==
    /\ pc = "propose"
    /\ slot[at] # "none"
    /\ IF (slot[at] \in Status /\ at \in meta) \/ slot[at] = "refused"
       THEN Go("choose")
       ELSE End("blocked")
    /\ KeepDisk
    /\ UNCHANGED <<people, troubles>>

LoadProposal ==
    /\ pc = "propose"
    /\ slot[at] # "none"
    /\ CASE slot[at] \in Status /\ at \in meta -> See
         [] slot[at] = "refused" -> Go("choose")
         [] OTHER -> End("blocked")
    /\ KeepDisk
    /\ UNCHANGED <<people, troubles>>

\* AheExternalRunner.run: started.json, the paid subprocess, terminal.json
StartUpdater ==
    /\ pc = "propose"
    /\ slot[at] = "none"
    /\ spent' = [spent EXCEPT !.open = @ + 1]
    /\ Go("updating")
    /\ UNCHANGED <<slot, meta, snap, base, evidence, people, troubles>>

EndUpdater(cost) ==
    /\ pc = "updating"
    /\ spent' = [spent EXCEPT !.open = @ - 1, ![cost] = @ + 1]
    /\ UNCHANGED <<slot, meta, snap, base, evidence, people>>

UpdaterReturns ==
    /\ EndUpdater("exact")
    /\ \E v \in {"checked", "held", "refused"} : verdict' = v
    /\ pc' = "register"
    /\ UNCHANGED <<at, seen, work, answer, troubles>>

UpdaterFails ==
    /\ \E cost \in {"exact", "partial"} : EndUpdater(cost)
    /\ End("failed")
    /\ Happens({"failure"})

\* CandidateRegistry.register or _preserve_rejection makes the directory first
MakeDirectory ==
    /\ pc = "register"
    /\ slot' = [slot EXCEPT ![at] = IF verdict = "refused" THEN "refusing" ELSE "partial"]
    /\ Go("event")
    /\ UNCHANGED <<meta, spent, snap, base, evidence, people, troubles>>

Register ==
    /\ pc = "event"
    /\ slot' = [slot EXCEPT ![at] = verdict]
    /\ Go(IF verdict = "refused" THEN "choose" ELSE "metadata")
    /\ UNCHANGED <<meta, spent, snap, base, evidence, people, troubles>>

PreserveRaw ==
    /\ pc = "metadata"
    /\ meta' = meta \union {at}
    /\ See
    /\ UNCHANGED <<slot, spent, snap, base, evidence, people, troubles>>

NextProposal ==
    /\ pc = "choose"
    /\ ~Enough \/ DiverseSubsets = {}
    /\ IF ~Enough /\ at < Budget
       THEN pc' = "propose" /\ at' = at + 1 /\ UNCHANGED <<verdict, seen, work, answer>>
       ELSE End("exhausted")
    /\ KeepDisk
    /\ UNCHANGED <<people, troubles>>

WritePlan ==
    /\ pc = "choose"
    /\ Enough /\ DiverseSubsets # {}
    /\ \E subset \in DiverseSubsets :
          /\ First(subset)
          /\ WriteOnce(<<"plan", 0>>, says.plan = subset, [says EXCEPT !.plan = subset],
                       Go("planned"))

Plan ==
    /\ pc = "planned"
    /\ pc' = "evaluation" /\ work' = EvaluationWork
    /\ UNCHANGED <<at, verdict, seen, answer>>
    /\ KeepDisk
    /\ UNCHANGED <<people, troubles>>

-----------------------------------------------------------------------------
(* Evaluation, selection, release and the seals, job by job. *)

Phase == {"evaluation", "hold", "release", "decision"}
Job == Head(work)
Doing(what) == pc \in Phase /\ work # <<>> /\ Job.do = what
Done == work' = Tail(work) /\ UNCHANGED <<pc, at, verdict, seen, answer>>

\* create_child and _store_snapshot
StoreChild ==
    /\ Doing("store")
    /\ LET k == Job.on IN
           IF slot[k] = "held" \/ snap[0] # "whole" \/ snap[k] = "partial"
           THEN End("blocked") /\ UNCHANGED snap
           ELSE snap' = [snap EXCEPT ![k] = "whole"] /\ Done
    /\ UNCHANGED <<slot, meta, spent, base, evidence, people, troubles>>

RunBatch == Doing("batch") /\ CompletedStage(Job.name, Job.on, Done)

Rank(s) == CHOOSE i \in DOMAIN Progress : Progress[i] = s

\* _TRANSITIONS, for the statuses the experiment reaches
Allowed(from, to) ==
    \/ from \in Range(Progress) /\ to = "held"
    \/ from \in Range(Progress) /\ to \in Range(Progress) /\ Rank(to) = Rank(from) + 1
    \/ from = "release_evaluated" /\ to = "ship_recommended"
    \/ from = "ship_recommended" /\ to = "held"

Passed_Exact(from, to) == from = to

\* _advance: what of a candidate's status lets the resumed command go on
Passed(from, to) ==
    \/ from = to
    \/ from = "held" /\ to \in Range(Progress)
    \/ {from, to} \subseteq Range(Progress) /\ Rank(from) > Rank(to)

WriteLifecycle ==
    /\ Doing("advance")
    /\ ~Written(<<Job.name, Job.on>>)
    /\ WriteOnce(<<Job.name, Job.on>>, TRUE, says, Stay)

Transition ==
    /\ Doing("advance")
    /\ Written(<<Job.name, Job.on>>)
    /\ LET k == Job.on
           from == slot[k]
           lifecycle == <<Job.name, k>> \in whole
           held == from = "held" /\ Job.name # "held" => <<"held", k>> \in whole
       IN CASE lifecycle /\ from \in Status /\ held /\ Passed(from, Job.name) ->
                   Done /\ UNCHANGED slot
            [] lifecycle /\ from \in Status /\ held /\ Allowed(from, Job.name) ->
                   Done /\ slot' = [slot EXCEPT ![k] = Job.name]
            [] OTHER -> End("blocked") /\ UNCHANGED slot
    /\ UNCHANGED <<meta, spent, snap, base, evidence, people, troubles>>

\* _selection_operational_evidence: a call without a terminal event, in whichever
\* attempt, must be in none of the batches it compares, although a batch seals
\* with one
Inexact == {k \in {0} \union Chosen : batch[<<"selection", k>>] = "inexact"}

\* _exact_batch_model_cost: a HOLD outcome asks the same of every batch it lists
Listed ==
    {<<"update_source", 0>>} \union ({"update_check", "selection"} \X ({0} \union Chosen))

Unpriced == {b \in Listed : batch[b] = "inexact"}

\* what a sealed artifact says, and whether its step refuses to be taken
Content ==
    CASE Job.name = "selection" -> [says EXCEPT !.native = Native, !.governed = Governed]
      [] Job.name = "ablation" -> [says EXCEPT !.ablation = rev]
      [] Job.name = "hold" -> [says EXCEPT !.cost = spent]
      [] OTHER -> says

Same ==
    CASE Job.name = "selection" -> says.native = Native /\ says.governed = Governed
      [] Job.name = "ablation" -> says.ablation = rev
      [] Job.name = "hold" -> says.cost = spent
      [] OTHER -> TRUE

Refused ==
    \/ Job.name = "selection" /\ Inexact # {}
    \/ Job.name = "roles" /\ (snap[0] # "whole" \/ base # rev)
    \/ Job.name = "hold" /\ (says.governed # 0 \/ Unpriced # {})

SealArtifact ==
    /\ Doing("seal")
    /\ IF Refused
       THEN End("blocked") /\ KeepDisk /\ UNCHANGED <<people, troubles>>
       ELSE WriteOnce(<<Job.name, 0>>, Same, Content, Done)

\* run, after the selection, after the decisions and at its end
NextPhase(from, to, jobs) ==
    /\ pc = from /\ work = <<>>
    /\ pc' = to /\ work' = jobs
    /\ UNCHANGED <<at, verdict, seen, answer>>
    /\ KeepDisk
    /\ UNCHANGED <<people, troubles>>

BranchHold == says.governed = 0 /\ NextPhase("evaluation", "hold", HoldWork)

BranchRelease ==
    /\ says.governed # 0
    /\ \E o \in {RoleOrder, Reverse(RoleOrder)} :
          NextPhase("evaluation", "release", ReleaseWork(o))

Conclude == NextPhase("release", "decision", DecisionWork)

Decided ==
    /\ pc \in {"hold", "decision"} /\ work = <<>>
    /\ End("decided")
    /\ KeepDisk
    /\ UNCHANGED <<people, troubles>>

-----------------------------------------------------------------------------
(* The command dies. *)

Interrupt ==
    /\ Running
    /\ End("died")
    /\ Happens({"death"})
    /\ KeepDisk
    /\ UNCHANGED people

\* the paper the next step writes
Pending ==
    CASE pc = "diagnose" -> {<<"diagnosis", 0>>}
      [] pc = "choose" /\ Enough /\ DiverseSubsets # {} -> {<<"plan", 0>>}
      [] Doing("advance") -> {<<Job.name, Job.on>>}
      [] Doing("seal") /\ ~Refused -> {<<Job.name, 0>>}
      [] OTHER -> {}

TearPaper ==
    /\ \E paper \in Pending :
          /\ ~Written(paper)
          /\ broken' = broken \union {paper}
    /\ UNCHANGED <<slot, snap>>

\* _store_snapshot copies the files before the manifest
TearSnapshot ==
    /\ \E k \in Snap :
          /\ snap[k] = "none"
          /\ (pc = "baseline" /\ k = 0) \/ (Doing("store") /\ k = Job.on)
          /\ snap' = [snap EXCEPT ![k] = "partial"]
    /\ UNCHANGED <<slot, broken>>

\* the newest event of a candidate cannot be read
TearEvent ==
    /\ Doing("advance") /\ <<Job.name, Job.on>> \in whole
    /\ Allowed(slot[Job.on], Job.name)
    /\ slot' = [slot EXCEPT ![Job.on] = "partial"]
    /\ UNCHANGED <<snap, broken>>

Tear ==
    /\ Happens({"torn"})
    /\ TearPaper \/ TearSnapshot \/ TearEvent
    /\ End("died")
    /\ UNCHANGED <<meta, spent, base, batch, whole, says, people>>

-----------------------------------------------------------------------------
Propose ==
    \/ Diagnose \/ AuthorizeUpdater \/ LoadProposal \/ StartUpdater \/ UpdaterReturns
    \/ UpdaterFails \/ MakeDirectory \/ Register \/ PreserveRaw \/ NextProposal
    \/ WritePlan \/ Plan

Evaluate ==
    \/ StoreChild \/ RunBatch \/ WriteLifecycle \/ Transition \/ SealArtifact
    \/ BranchHold \/ BranchRelease \/ Conclude \/ Decided

Command == VerifyAgain \/ EnsureBaseline \/ SourceBatch \/ Propose \/ Evaluate

People ==
    \/ AuthorizePreRelease \/ AuthorizeRelease \/ EditSource \/ EditHarness
    \/ FreezeBaseline
    \/ \E s \in Stage, k \in Snap : StageCommand(s, k)

Next == Start \/ StartAgain \/ Command \/ People \/ Interrupt \/ Tear

Spec == Init /\ [][Next]_vars

\* a command that runs is scheduled; for liveness somebody repeats the command
\* and the owner answers it, as its error messages ask for
GuidedSpec ==
    /\ Spec
    /\ WF_vars(Command) /\ WF_vars(Start \/ StartAgain)
    /\ WF_vars(AuthorizePreRelease) /\ WF_vars(AuthorizeRelease)

-----------------------------------------------------------------------------
(* Properties. *)

CostTotals == [open : Nat, exact : Nat, partial : Nat]

\* Type invariant.
TypeOK ==
    /\ slot \in [Slot -> {"none", "partial", "refusing", "refused"} \union Status]
    /\ meta \subseteq Slot
    /\ spent \in CostTotals
    /\ snap \in [Snap -> {"none", "partial", "whole"}] /\ base \in 0..2
    /\ batch \in [Stage \X Snap ->
                    {"none", "hold", "inexact", "complete", "better", "same", "pass", "weak"}]
    /\ whole \subseteq Paper /\ broken \subseteq Paper
    /\ says \in [plan : SUBSET Slot, native : Snap, governed : Snap, ablation : 0..2,
                 cost : CostTotals]
    /\ auth \in [pre : 0..2, release : [governed : Snap, rev : 0..2]]
    /\ rev \in 1..2 /\ live \in BOOLEAN /\ edited \in BOOLEAN /\ left \in Nat
    /\ pc \in {"idle", "again", "baseline", "source", "diagnose", "authorize", "propose",
               "updating", "register", "event", "metadata", "choose", "planned"} \union Phase
    /\ at \in Snap /\ seen \subseteq Slot
    /\ verdict \in {"none", "checked", "held", "refused"}
    /\ answer \in {"none", "unauthorized", "blocked", "drifted", "held", "failed",
                   "exhausted", "died", "decided"}

\* A sealed outcome rests on everything that went before it: the batches of all
\* stages, the snapshots, the decisions, and the registry says of both
\* candidates what the decisions say (run :320-678).
OutcomeIsBacked ==
    <<"outcome", 0>> \in whole =>
        /\ OutcomeStands
        /\ \A k \in Roles : slot[k] = Decision(k) \/ slot[k] = "partial"

\* The costs a HOLD outcome reports are all that was ever spent on the updater:
\* no later command pays again (_load_verified_selection_hold).
HoldCostStands == <<"hold", 0>> \in whole => says.cost = spent

\* what an earlier command or a person can have left behind that keeps every
\* later command from going on
Residue ==
    \/ broken # {}
    \/ \E k \in Snap : snap[k] = "partial"
    \/ \E k \in Slot : slot[k] \in {"partial", "refusing"}
    \/ \E k \in Slot \ meta : slot[k] \in Status
    \/ /\ \E k \in Chosen : slot[k] \in Final
       /\ {<<"outcome", 0>>, <<"hold", 0>>} \intersect whole = {}
    \/ Inexact # {}
    \/ <<"selection", 0>> \in whole /\ says.governed = 0 /\ Unpriced # {}
    \/ edited

\* A command ends blocked only for a reason that is on disk: something half
\* written, a candidate whose registration was cut short, a changed source, a
\* selection batch of unknown cost, any batch of unknown cost once the selection
\* says HOLD (_exact_batch_model_cost), or a final status without its outcome.  A
\* harness/ that differs from the baseline has an answer of its own: it refuses
\* the command while it differs, and EventuallyDecides says it leaves nothing.
BlockedHasReason == answer = "blocked" => Residue

\* The documented recovery path: what a command left that died, without a torn
\* file, a changed source or a changed harness/, the same command takes up again.
SameCommandRecovers == answer \notin {"blocked", "drifted"}

\* Once the plan is sealed the updater is paid for another proposal only when a
\* candidate of the plan is already held: what is resumed is otherwise the plan
\* (_propose).
PlanIsFinal ==
    [][pc = "propose" /\ pc' = "updating" =>
          \/ <<"plan", 0>> \notin whole
          \/ \E k \in Chosen : slot[k] = "held"]_vars

\* The experiment keeps its promise: the mapping forgets commands, files and
\* statuses and keeps what was paid for, what was selected and how it ended.
Promise == INSTANCE ExperimentPromise WITH
    Evidence <- Stage \ Release,
    paid <- {b \in Stage \X Snap : batch[b] # "none"},
    selection <- IF <<"selection", 0>> \in whole THEN says.governed ELSE Budget + 1,
    outcome <- IF <<"hold", 0>> \in whole THEN "hold"
               ELSE IF <<"outcome", 0>> \in whole THEN "release" ELSE "none"

KeepsPromise == Promise!Spec

\* Repeating the same command, with the authorizations it asks for, ends in a
\* decision, unless a proposal budget is used up, a batch is sealed as HOLD,
\* something is left behind for good or harness/ never settles on the files of
\* the baseline.  That it differed for a while does no lasting harm.
EventuallyDecides ==
    []<>~Residue /\ <>[]live => []<>(answer \in {"decided", "exhausted", "held"})
=============================================================================
