# AgentLoopGate in TLA+

AgentLoopGate decides whether a proposed change of an agent harness has enough evidence to be
evaluated, released and deployed. It is a Python core with a command line (`agentloopgate/`) and a
TypeScript plugin in the harness (`integrations/deepseek-harness/`). Nearly all its state is in
files that are written once; what can go wrong is the order in which they come to be, and who dies
or runs beside whom in between. That is what these modules model.

| Part of the system | Modules | Configurations |
|---|---|---|
| snapshot activation | `HarnessDeployment` (abstract), `SnapshotActivation`, `MCSnapshotActivation`, `SnapshotProofs` | `SnapshotActivation.cfg` |
| snapshot commands and the end of a candidate's lifecycle | `SnapshotCommands` (composes the above with the registry), `MCSnapshotCommands`, `SnapshotProofs` | `SnapshotCommands.cfg` |
| formal batches: attempts, fail-fast, ledger, seal | `FormalBatch`, `FormalBatchProofs` | `FormalBatch.cfg`, `LastPosition.cfg` |
| what a batch cost: model calls, usage ledgers, reconciliation | `CostAccounting`, `CostAccountingProofs` | `CostAccounting.cfg`, `ExactCost.cfg` |
| session evidence: harness plugin and bridge | `TraceInbox`, `SessionObserver` (composes it with the plugin), `SessionObserverProofs` | `SessionObserver.cfg` |
| the whole experiment: stages, artifacts, authorizations | `ExperimentPromise` (abstract), `FormalExperiment`, `MCFormalExperiment`, `FormalExperimentProofs` | `FormalExperiment.cfg`, `ExperimentRecovery.cfg` |
| from failures to candidates: diagnosis, updater turns, patch checks | `CandidateProposals`, `MCCandidateProposals`, `CandidateProposalsProofs` | `CandidateProposals.cfg` |
| paid attempts of the updater and its credential proxy | `UpdaterAttempts`, `UpdaterAttemptsProofs` | `UpdaterAttempts.cfg` |
| metrics, selection and gates | `PromotionDecision`, `MCPromotionDecision`, `PromotionDecisionProofs` | `PromotionDecision.cfg` |

`FormalExperiment` is the frame: a paid batch is one step of it that `FormalBatch` and
`CostAccounting` take apart, its proposal loop is `CandidateProposals` seen from the files it
leaves, the updater it pays is `UpdaterAttempts`, and the results it only calls better or weak are
what `PromotionDecision` computes.

Check one with `tlc -config X.cfg M`, its proofs with `tlapm MProofs.tla`. Each module with a
`TypeOK` states the types of its state there.

## 1. The system

### Parts

**Snapshot manager** (`snapshots/manager.py`). *State:* immutable snapshots under `snapshots/`; the
activation registry `snapshots/activations/NNNN.json`; the journal
`snapshots/pending_activation.json`; a `flock` on `snapshots/.activation.lock`; the live files under
`harness/`. *Operations:* capture a baseline, create a child or an evaluation baseline, promote,
rollback, verify the live harness, recover an interrupted activation (part of each call). *Hard:*
a promotion replaces many files, and any process may die between two of them; plans are made
without the lock and used under it; requests are repeated after an uncertain answer; people edit
files meanwhile. *Correct when:* the registry is one chain of legal moves, what is live is what the
registry says unless a journal can repair it, no crash makes the journal irreconcilable, and an
answer is never about an activation that is not registered.

**Candidate registry and CLI** (`candidates/registry.py`, `cli.py`). *State:* a directory of
numbered lifecycle events per candidate, written without a lock. *Operations:* register,
transition, and the commands that combine them with the manager. *Hard:* two stores and no common
transaction. *Correct when:* the lifecycle does not run ahead of the deployment. It may stay behind:
a command that dies between the two leaves them apart, and the code does not promise to catch up.

**Formal batch** (`experiment/batch.py`, `experiment/ledger.py`, `runtime/tau3_evidence.py`).
*State:* the experiment's attempt ledger, the task-attempt ledger, tau3's checkpoint, the fail-fast
trigger, the retained raw result, the sealed costs, the batch artifact. *Operations:* a command
that runs or resumes a paid batch; hooks inside the tau3 subprocess that limit the attempts of each
position over all invocations and stop the queue at the first position that fails for good.
*Hard:* every call costs money, so a resumed command must neither pay twice nor lose evidence; it
dies anywhere; a budget is combined from retries inside and attempts outside an invocation.
*Correct when:* the budget holds globally, a result belongs to the attempt that produced it, a paid
success is lost to an interruption only and to each at most one, nothing is paid for again once
retained, the trigger tells the truth about later positions, and a sealed batch is backed by the
evidence.

**Session observer, bridge client, bridge** (`integrations/deepseek-harness/src/observer.ts`,
`bridge.ts`; `bridge/transport.py`, `bridge/service.py`). *State:* in the plugin the events seen,
pending, buffered and counted, a chain of drains, the open call; between the processes a pipe; in
the core the inbox of event batches and the trace references. *Operations:* observe, flush,
reconcile, sync, dispose; ingest, sync, verify. *Hard:* events, flushes, timeouts and the death of
the bridge process arrive while a call is awaited; a call that timed out is served later; files are
torn. *Correct when:* what counts as seen is stored, references have no gaps and stay verifiable,
the queue count is exact, drains end, and in the end the whole session is evidence. (That a loss
stays announced until then is documented and does not hold: section 10.)

**Experiment orchestrator and service** (`experiment/orchestrator.py`, `service.py`, `protocol.py`,
`study.py`). *State:* the artifacts of the stages (diagnosis, plan, selection, lineage, ablation,
roles, decisions, report, outcome or selection HOLD), the owner's authorizations, the candidates'
lifecycle evidence. *Operations:* one `run` that does or verifies each stage in order; single
stages; authorizations. *Hard:* the same command is the recovery path from everywhere, artifacts
are spread over files of two stores, and two different outcomes must never both be sealed.
*Correct when:* the experiment makes one selection and reaches one outcome that follows it, nothing
is paid before it is authorized or after it is decided, and what an interrupted command leaves is
taken up again.

**Proposals** (`orchestrator._propose`, `experiment/diagnostics.py`, `diagnosis/service.py`,
`mutation/service.py`). *State:* diagnosis, registered and rejected proposals, the frozen trust
kernel, the plan, the children. *Hard:* turns are counted anew by every command while proposals
stay. *Correct when:* bundles are served in turn over all restarts, a checked patch is within the
policy and both budgets, and a plan answers failures of the agent only.

**Updater and credential proxy** (`updaters/`). *State:* the attempts on disk, the process's own
usage ledger, the proxy's counters in the memory of the command. *Operations:* start, serve,
close, read, reconcile, seal. *Hard:* the process, the server's daemon threads, the provider and
the command go on side by side, and totals are read while threads may still run. *Correct when:*
what is reported as the exact cost is the bill, and no candidate comes from an open attempt.

**Metrics, selection, gates** (`evaluation/metrics.py`, `gates/`): functions from evidence to a
governed candidate and to SHIP / HOLD / REJECT. *Correct when:* broken runs decide nothing, a
selected candidate is not dominated, better evidence never hurts, trials are counted as executed.

**Turn client, usage ledgers, cost lineage** (`runtime/tau3_pilot.py`, `runtime/usage.py`,
`runtime/tau3_evidence.py`, `experiment/ledger.py`). *State:* two append-only call ledgers and the
sealed cost record. *Hard:* answers are lost, empty or repaired by a second call; the provider's
own retries are billed and not shown; positions are tried again. *Correct when:* a batch that
counts as complete is priced to the unit, and every gap is announced.

**Adapters, splits, traces, reporting, schemas:** sequential transformations of files or data types
without shared state; they appear as the conditions under which the modelled steps succeed.
`demo.py` and the fixtures are examples.

### How they interact

The orchestrator runs *formal batches* on snapshots of the *manager*; a batch asks the manager for
the active snapshot and starts tau3, whose agent is the harness with the *plugin*; the plugin
reports the session through the *bridge*; when the batch is sealed, the adapter picks the session's
latest reference and verifies it in the same inbox. The orchestrator's decision makes a snapshot
releasable; a person signs an approval; `snapshot promote` activates it and moves the candidate's
lifecycle. All of this is shared files; the only lock is the manager's.

## 2. Snapshot activation

`SnapshotActivation` has one action per stretch of code between two accesses to shared state that
another process, a person or a crash can separate. `log` is the registry, `journal` the pending
event (or `NoEvent`), `live` the tree under `harness/` with the `.alg.tmp` files, `lock` the flock;
`dest`, `extras`, `todo` are what `_materialize` still has to do, and `pc`, `req`, `seen`, `plan`,
`answer` are local to each process. A call goes `Enter` (lock) → `Recover` (with a journal) →
`Unlink`/`WriteTmp`/`Replace` for each file → `CheckMaterialized` → `Settle`, then `Read` → `Plan`
without the lock → `Acquire` → `Validate` → `WriteJournal` → materialize → `AppendActivation` →
`Finish`. `Interrupt` ends it anywhere; `Edit` is a person's change.

`HarnessDeployment` is what the manager promises, without lock, journal or files: a history that
grows by one legal move at a time and a harness that serves the last registered snapshot except
while one announced switch is under way. `ImplementsDeployment` is the refinement, up to
the first edit by a person (what is served after that is not the manager's doing): log ↦ history,
journal ↦ pending, the live tree ↦ serving.

`SnapshotCommands` adds the promote and rollback commands with the candidate's status from
SHIP_RECOMMENDED on: status check, manager call, `registry.transition` as load and append.

Of edits by people `EditIsKept` says: one made before a call looks at `harness/` under the lock
(`manager.py:625`) stays, although promote and rollback had looked without it; one made between that
look and the journal, or while a journal is pending, is overwritten.

Simplifications: the store of snapshots is intact and digests always match, so the check of each
written file (`manager.py:707-708`) is part of the last one; `_require_live_matches`
is one step; files are unlinked and written in any order; an interruption is the end of a process or
an exception, not the loss of written data; a temporary file is there or not; each target has one
decision, verified for good.

| Run | Shows | Bounds, and why they are enough |
|---|---|---|
| `snapshot_activation` | chain, reconcilable journal, live = active, truthful answers, an edit found under the lock is kept, refinement | 2 processes, baseline–child–grandchild with a file that is changed, deleted and brought back, 2 interruptions: enough for a crash during the recovery of a crash, beside a competitor; 2 edits: one beside a switch and one in the middle of it. The safety properties are also proved for all values |
| `snapshot_commands` | lifecycle never ahead of the deployment; a pending switch is resolved | 2 commands at once on one child, 4 activations, 1 interruption, 2 edits: one before and one in the middle of a switch. The first is also proved for all values |

*Fairness* (`CFairSpec`): a running command takes its next step, in the manager or behind it, and
commands keep coming (`WF` of `VerifyLive(p)`): every command that needs the harness starts with
`active_snapshot` or `verify_active_live`, which recovers a journal. Nobody is assumed to retry a
promotion.

## 3. Formal batches

`FormalBatch` models protocol 2.0 with direct cost lineage and one worker. On disk: `attempts` (the
task-attempt ledger, per position the last event of each attempt), `saved` (tau3's checkpoint),
`file`, `trigger`, `raw`, `cost`, `disposition` and `runs` (the experiment's attempt ledger). In
memory: `stage` of `FormalBatchRunner.run`, and `phase`, `pos`, `left`, `stop` of the worker.
`Begin`, `Resume` and `Launch` are the start of a command; `Admit`, `StartAttempt`, `FailAttempt`,
`CompleteAttempt`, `SaveResult`, `GiveUp`, `CreateTrigger`, `WriteTrigger`, `Skip` the hooks;
`CreateRaw` to `Complete` the seal; `RecordFailure` the except handler. `Raise` is any exception,
`Crash` the end of the command with its subprocess.

A success is in the task-attempt ledger before tau3 saves it: an interruption in between loses it,
and a later command pays for the position again. `RepeatNeedsInterruption` counts: never more
successes are lost than there were interruptions, over all positions and invocations.

Simplifications: one command at a time (nothing in the code enforces it: see the hazards); a ledger
line is appended by one system call; files that are created and then written may be torn; the
terminal append is atomic, and the window in which a batch is recorded COMPLETED and then FAILED is
left out; costs are the attempt each result is bound to, and whether they are exact, not amounts;
writes of the evidence store succeed or are a `Raise`; the status of the session evidence
(`batch.py:675-680`) can be incomplete for the pair of the trigger only and decides nothing that the
trigger does not. Whether tau3's `--auto-resume` takes up
infrastructure errors again is not in this repository: `InfraAgain` is a constant: the runs
take `FALSE`, the proofs hold for both values.

| Run | Shows | Bounds |
|---|---|---|
| `formal_batch` | budget, one success lost per interruption at most, trigger, seal, no repeated payment | 3 positions (before, at and after a trigger), 2 attempts each, 4 commands, 3 interruptions. All are also proved, `NextPositionNotStarted` for retries that can use up a budget (section 12) |
| `last_position` | violation, see Findings | 2 positions, no interruption |

Deadlock is not checked: after `MaxRuns` commands nothing happens any more.

## 4. Session evidence

`TraceInbox` has the files of one session: `inbox` and `refs` with their torn counterparts.
`SessionObserver` adds the plugin, single-threaded from await to await: `Emit`, `Flush`, `Dispose`
and `Load` only touch `state` and extend its chain of drains; `StartDrain`, `BatchDone`,
`Reconcile`, `ChunkDone`, `Check`, `SyncDone` are the drain at its head; `Send` opens a call;
`ServeIngest`/`ServeSync` are the bridge process, one request after the other; `Timeout` leaves the
request in the pipe to be served later; `ChildStops` ends the process, perhaps with a torn file.

Simplifications: one session, reference mode, one redaction policy (an event is its sequence
number); request ids are fresh, so the request cache is never hit, and a failure to store it is the
end of the process; an old child and its successor do not overlap. With a single observer the
bridge's `incomplete` answer is unreachable: the observer asks for a reference only when it has
ingested everything. Every event can be translated: `mapEvent` does not throw between the marks of
an event and its request (`observer.ts:83-84`, `:184-186`), which would leave it pending.

| Run | Shows | Bounds |
|---|---|---|
| `session_observer` | exact accounting, seen is stored, whole and lasting references that cover what an unloaded observer saw (`FinalEvidence`), drains end, and in the end one reference holds the whole session | 4 events through a buffer and batches of 2 (so events are dropped and reconciled in two chunks), one flush waiting, 2 timeouts, failures or reloads, 1 torn file. The three invariants are also proved |

*Fairness:* the plugin runs on (`WF(Turn)`); a call is answered or ended by `requestTimeoutMs` (`WF`
of serving, timeout and the end of the child together); the harness flushes the session at the end
of each turn (`SF(Flush)`), which `SessionBecomesEvidence` needs: the observer never retries by
itself. It asks for a reference to every event of the session, not for the mark to go: the mark can
go without the events. Faults are bounded, so they stop at some point. Deadlock is not checked: a
disposed plugin rests.

## 5. What a batch cost

`CostAccounting` follows every model call of a batch: `calls` are the two ledgers (agent and user
simulator), `attempts` the task attempts each call names, `raw` what tau3 retains, `account` the
sealed record. `billed` is the provider's bill, which the program never sees. `StartCall` appends
STARTED; `AgentAnswers`, `AgentEmpty`, `AgentRejected`, `UserAnswers`, `LoseCall` are the ways a
call ends, an empty answer being repaired by one more call; `StartAttempt`, `FailAttempt`,
`CompleteAttempt`, `GiveUp`, `Save` are the task around them, `Crash` the end of the tau3 process,
and `Seal` the reconciliation: the calls a retained result owns, what of them is known exactly, the
lower bound over everything and the grade of the whole.

Simplifications: a usable answer costs one unit at the frozen prices; one worker
(`max_concurrency` must be 1); the current protocol, where lineage is direct, only valid runs count
for completeness and both ledgers exist; `user_model_max_retries` is 0 as frozen; the fail-fast
trigger comes with the saved infrastructure result; torn ledger lines are left out; usage without a
count of cached tokens is priced as if none were (`tau3_evidence.py:177-182`), which is taken for the
bill. The lower bound assumes that tau3 displays no more for a user answer than the frozen price
(`DisplayPrice`); it may display it for an answer the ledger had no counts to price, so either of the
two sums can be the larger one.

| Run | Shows | Bounds |
|---|---|---|
| `costs` | a complete batch is priced to the unit, the total is a lower bound and announces its gaps, costs can be sealed after fewer crashes than attempts | 2 positions of 2 attempts, 2 calls per attempt, 2 troubles of any kind, 2 crashes: a lost call, a repaired answer and a hidden retry in one attempt and the next. All three are also proved for all values |
| `exact_cost` | violation, see Findings | one position of 2 attempts, one trouble |

`SealNeedsFewCrashes` is the sharp form of a limit of the code: if every attempt of a position is
interrupted, its synthetic error has no failed attempt to bind costs to and the batch cannot be
sealed.

## 6. The experiment

`FormalExperiment` is `experiment run` and what happens beside it. On disk: `slot` (per proposal
what registry and updater retain), `meta`, `spent` (updater attempts), `snap`, `base`, `batch`
(how each paid batch was sealed), `whole`/`broken` (papers that are written once, and those of
which a write left a part) and `says` (their contents that later steps compare). `pc` and `work`
are the running command: `Start`, `EnsureBaseline`, `SourceBatch`, `Diagnose`,
`AuthorizeUpdater`, the slots (`LoadProposal` … `PreserveRaw`, `NextProposal`, `WritePlan`), and
then a queue of jobs in the code's order: store a child, run a batch, advance a status (evidence
paper, then event), seal an artifact; `BranchHold`, `BranchRelease`, `Conclude` choose the next
queue. `StartAgain`/`VerifyAgain` are a command that finds an outcome. Beside it: authorizations,
`EditSource`, `EditHarness`, `FreezeBaseline`, `StageCommand` (`experiment stage`); `Interrupt` and
`Tear` end the command between steps or inside a write.

`ExperimentPromise` forgets all files: each batch is paid for at most once, the selection is made
once and after what it compares, release evidence is paid for only when a candidate was selected,
and the one outcome follows the selection. `KeepsPromise` is the refinement: `batch` ↦ paid, the
sealed selection ↦ selection, the HOLD or outcome file ↦ outcome.

Simplifications: a batch is one step; the diagnosis is actionable (`CandidateProposals` has the
other case); a deployment is registered, so that `active_snapshot` has an answer; the release
authorization binds the governed snapshot whatever `--snapshot` says; the
updater is authorized once per command, as in the code; only the leakage gate rejects, and its
count is fixed to zero for formal records, so a formal candidate is shipped or held. The second
loop of the release goes through a Python set: of its two roles either may come first. The plan is
the combination of which `First` says that no other one comes before it in the order of emission.

| Run | Shows | Bounds |
|---|---|---|
| `experiment` | outcomes rest on their evidence, costs of a HOLD stand, a blocked command has its reason on disk, a sealed plan ends payments for proposals, the promise, and a decision in the end | 3 slots, 2 candidates (the configuration asks for 3 to 6: order and choice need two), one release stage, 2 troubles of eight kinds in any combination. All but `EventuallyDecides` are also proved |
| `experiment_recovery` | violation, see Findings | one death |

*Fairness* (`GuidedSpec`): a running command goes on; somebody repeats it, and the owner gives the
authorizations its error messages ask for. Troubles are bounded, so they stop. `EventuallyDecides`
has two premises. One is that `harness/` settles on the files of the baseline: while it differs every
command is refused (`service.py:859-864`, the answer `drifted`), but nothing is left behind. The other
is that `Residue` is not there for good, the list of what blocks an experiment:

- a paper half written, or a snapshot directory whose files were copied but not its manifest;
- a candidate directory without its first event, or an event without `run_metadata.json`;
- a final status without an outcome. After a HOLD has advanced a candidate a resumed command no
  longer counts it among the executable, may pay for further proposals (the exception in
  `PlanIsFinal`) and then stops at the sealed plan;
- a source that was edited: an edit between selection and ablation conflicts with the sealed
  ablation for good, even when it is taken back;
- a batch with a call that never got a terminal event, in whichever attempt: it is sealed complete,
  but the selection demands the cost of all attempts of the batches it compares
  (`orchestrator.py:1356`), and a HOLD outcome that of every batch it lists, those of the update
  phase too (`orchestrator.py:840`).

## 7. From failures to candidates

`CandidateProposals` models what the frame leaves open: `Diagnose` classifies runs, groups them into
bundles and ranks them; `OpenRegistry` freezes the trust kernel; `TakeTurn`, `Known`, `AskUpdater`,
`UpdaterFails`, `Register` are the turns; `Collect` chooses a diverse subset, `Build` makes the
children. `Die` restarts the command, `EditKernel` changes a trust-kernel file or changes it back.

Simplifications: only types of failure a formal record can get; one task per run; the evidence on
tools is one ordered level; bundles of equal rank come in any order, since digests decide; a patch
is what its checks tell apart, and their codes are reject, hold or pass; a registration is one step;
the parent holds files of each family a bundle targets (`ahe.py:930-931` fails every command
otherwise).
Followed from the code: a kernel that differs when a paid proposal is checked rejects that proposal
for good; a patch that adds a path of the parent which was not staged passes, and then blocks every
`create_child`; duplicates are searched within a bundle only. Nothing in the configuration relates
`min_asset_families` to `candidate_count` (`experiment/service.py:89`, `:95`): where more families than
candidates are asked for, the loop can end on enough candidates with enough families of which no
choice has them, and is blocked with budget left. That is the cause `NoChoice`; the run, like the
shipped configuration, asks for no more families than candidates.

| Run | Shows | Bounds |
|---|---|---|
| `proposals` | fair turns over all restarts, checks within the frozen policy, complete plans, blocked only for cause | 2 runs of six observations, 3 proposals of five patches (passing, passing in one bundle only, held, refused, inapplicable), 2 troubles. All four are also proved |

## 8. Paid attempts of the updater

`UpdaterAttempts` interleaves four parties: the updater's process (`StartCall`, `SendRequest`,
`CompleteCall`, `FailCall`; `SendUnrecorded` is a request behind its ledger), the proxy's request
threads (`Accept`, `Refuse`, `Forward`, `Relay`, `EndThread`), the provider (`Bill`) and the command
(`StartCommand`, `MakeDirectory`, `WriteStarted`, `Launch`, then `CloseProxy`, `ReadCounts`,
`ReadUsage`, `Seal`). Threads are daemons and closing does
not wait for them. `Die` and `TearTerminal` end the command anywhere.

Simplifications: usage is one number where the code has three counters; the process's ledger is not
torn; a process that cannot be launched ends like one that failed; relaying an answer and appending
its record are one step; nothing that the process started outlives it and sends on.

| Run | Shows | Bounds |
|---|---|---|
| `updater` | what is reported exact is billed, no candidate from an open attempt, attempts end | 2 attempts with 2 calls and 2 requests of one unit each (a sum then counts its requests, so that one missing or counted twice shows): a request of a dead attempt beside one of the next. Both invariants are also proved for all values |

*Fairness:* only the command goes on (`WF(Command)`, the timeout included); the process, the
threads and the provider owe nothing, so `AttemptEnds` holds with all of them stuck.

## 9. Metrics, selection, gates

`PromotionDecision` computes everything from runs: `Scored`, `Complete` and the metrics, the native
and governed selectors with their eligibility and ranking keys, the role assignment's counts, the
gates' decision. Runs are sealed in the experiment's order (`RunEvaluation`, `Select`,
`AssignRoles`, `RunRelease`, `DecideRoles`).

Simplifications: means are compared as totals and medians as twice their value; a sorted list is seen
through the value at a place of it (`Ascending`), since nothing else is read from one; how runs go is
bounded by a habit per snapshot and a number of surprising runs (a timeout ends an attempt that is
repeated, or the simulation itself); critical violations and leakage are
absent, as in every formal record, and candidates of high risk are held at registration; criticals
in the replay are not counted.

| Run | Shows | Bounds |
|---|---|---|
| `decisions` | broken runs decide nothing, one better run never hurts, the selected is undominated, trials are counted once | 2 candidates whose ids are ranked in reverse, 3 selection tasks, 2 trials in 3 release stages, 3 habits, 2 surprises: every tie the keys can have between two candidates. The update check decides nothing and has an empty pool. All four properties are also proved |

## 10. Findings

Each is a run TLC ends with a counterexample; PROJECT.json quotes the documentation it contradicts.

- `last_position`: when the *last* position fails for good, the trigger is written although nothing
  is left to skip, and ingestion accepts a trigger only with a strict subset of the positions. The
  paid batch can never be sealed as HOLD.
- `experiment_recovery`: a command that dies between creating a candidate's directory and its first
  event leaves a name that every later command takes for a registered candidate and cannot load,
  although the same command is documented as the recovery path. Without deaths, torn writes, edits
  of the source or of `harness/` and inexact batches the documented path works: that is the theorem
  `SmoothRecovery` (section 12).
- `exact_cost`: a batch is graded exact when the calls of its *retained* attempts are, and the ledger
  notes beside it that all observed calls have exact cost. A call that ended with unknown cost in an
  attempt that was repeated is not in the total, and nothing says so.

Met while modelling, seen in the models, and not kept as runs:

- an event dropped while `trace.sync` is awaited loses its mark to the answer, which speaks of the
  events before it (`observer.ts:204`): until the next flush the observer reports nothing missing,
  although `docs/deepseek-harness.md:54-55` says that drops are marked;
- a crash between activation and lifecycle event leaves the candidate at SHIP_RECOMMENDED; the
  rollback that follows restores the parent and then reports failure (`cli.py:1393-1409`);
- promote dies between activation and lifecycle event, a rollback follows and the promote is retried
  with the same approval: the approval activates the snapshot a second time (`SPEC.md:1402`);
- equal candidates of different bundles are both registered (`registry.py:202`).

## 11. Variants

A definition named `X_Variant` is `X` with a mistake a programmer could have made (a dropped check,
a missing reset, a wrong order). No specification uses one: putting `X_Variant` in the place of `X`
makes TLC violate the property PROJECT.json pairs it with, which shows that the property depends on
that line of the code.

## 12. Proofs

Assumptions are those of the modules: sentinels are outside the sets they mark, bounds and counts are
numbers, no snapshot is its own parent, approvals name snapshots.

`SnapshotProofs` proves for any sets of processes, snapshots, files and approvals and any
bounds: type correctness, `HistoryIsChain`, `JournalReconciles`, `LiveIsActive`,
`AnswerIsRegistered`, that an activation is registered only when its bytes are live
(`RegisteredWhenInstalled`), that its files change only under a journal
(`LiveChangesUnderJournal`), `EditIsKept`, and, up to the first edit, the
refinement of `HarnessDeployment`. None of these is inductive; `IInv` adds

- `LockInv`: a process is in the locked part of the code exactly if it holds the lock,
- `LocalInv`: what a process planned without the lock is a legal move from the snapshot it saw
  (whether that snapshot is still active is only known after `Validate`),
- `JournalInv`: a pending journal announces a legal move from or to the active snapshot,
- `HolderInv`: how much of the switch the holder of the lock has done, file by file. It carries
  `LiveIsActive` across a materialization that any crash may cut short.

The proof that a step keeps `IInv` goes conjunct by conjunct, with one case per action the conjunct
can notice, and frame lemmas (`LogChange`, `JournalChange`, `LiveChange`, `OutsideStep`) for the
rest. For `EditIsKept` (`EditsAreKept`): files change only under a journal, only a call past the
check under the lock writes one, and no call gets past it while `harness/` differs
(`PastCheckChange`).

Its second part is about `SnapshotCommands`: every step of a command is one of the manager or leaves its
state alone (`CommandIInv`), so `IInv` holds for the commands too. `Command(p)` adds that a command
gets nothing but a promotion or a rollback for an answer. A lifecycle event is then appended for a
registered activation (`AnswerIsRegistered`), and what a rollback left was activated by the entry
before it (`HistoryIsChain`): `LifecycleFollowsActivation`.

`FormalBatchProofs` proves for any number of positions, budget, retries and interruptions:
type correctness, `BudgetHolds`, `ResultIsLastAttempt`, `RepeatNeedsInterruption`, `SealIsBacked`
with `CompletedIsSealed` in it, `NoPaidRepeat` and `TriggerStopsQueue`; `ResultIsLastAttempt`, that a result in the checkpoint is
its position's last attempt, is proved only. `IInv` adds `WorkerInv` (what the worker knows of its
position; the last attempt is open exactly while it is in a call), `TriggerInv` (once a trigger
exists the worker is stopped or was never started), `FilesInv` (the order in which files come to be:
nothing later than a missing one, a stage only with the files before it), `EvidenceInv` (what is
retained agrees with the checkpoint, what is sealed with its lineage) and `RunsInv`.
`LossNeedsInterruption` counts the successes no checkpoint has: `CompleteAttempt` adds one,
`SaveResult` takes it back, and the worker is in between at most once per interruption (`LossStep`).
`TriggerTellsTruth` proves `NextPositionNotStarted` with a further invariant, the frontier of the
queue: no position behind the one the worker is at was ever attempted, and one before it either has
its result or had all its attempts. That needs `RetriesReachLimit` (`MaxRetries + 1 >= Limit`) as a
hypothesis of the theorem: a position that fails for good in one invocation has then used up its
budget. The frozen values satisfy it (`protocol.py:43` allows one retry only, the experiment
protocols set a limit of two); the code accepts a larger limit, for which the property is false.

`FormalExperimentProofs` proves, for any budget, families, numbers of candidates, release stages
and troubles, `OutcomeIsBacked`, `HoldCostStands`, `PlanIsFinal` and the refinement
`KeepsPromise`. `IInv` has two halves. `DiskInv` is about the files alone: slots are used in order
and keep their metadata (`SlotInv`), what a sealed plan and selection say are candidates
(`PlanInv`), and the two properties. `ControlInv` is about the running command: what the loop over
the slots has walked over and that it goes on only while there is not enough (`LoopInv`), what
earlier phases left (`PastInv`), that the files which end the experiment are written in the last
phase only (`EndInv`), and the heart, `WorkInv`: every job of a phase is still in the queue or has
had its effect, and the seal of the phase comes last. So a seal finds all that it seals
(`OutcomeReady`, `SelectionReady`), whatever was reused from dead commands. To say that the queue
*is* the set of jobs of the phase needs what `FlattenSeq` computes; that is proved here by
induction in the form of sets (`Induction`, `FlattenExists`, `Flatten`). Effects stay because what
is on disk only grows (`Grow`); the one that does not, a candidate's status, is followed through
the release (`PassedStays`) and is final in the outcome. For `PlanIsFinal`, the candidates of a
sealed plan all lie behind a free slot, and none of them held they would be enough, with which the
loop does not go on (`PaidForPlan`). For `KeepsPromise` every step is one of the promise or quiet.

`BlockedHasReason` is about what a command finds of the commands before it: each check that can end
it "blocked" must be shown to pass, or its failure to have a reason on disk. `Residue` is not
inductive: a registration under way looks like one that was cut short. `Stuck` leaves out what the
running command is about to finish (and the final statuses written in a phase that ends the
experiment) and, once true, stays true, whatever runs next (`StuckForGood`). With `IInv`,
`HistoryInv` says what else has been left behind:

- an unedited source has the revision of the baseline and of the ablation (`EditInv`);
- a sealed selection says what the batches still say, and release batches come after one that
  selects (`SelectionInv`);
- HOLD and outcome exclude each other, and a HOLD repeats with the same selection and cost
  (`EndsInv`);
- of the jobs of a phase each is still queued or the candidate's status has reached it; none is final
  before the phase that ends the experiment, and a final one is the decision (`StatusInv`). So no
  transition is refused. It needs the order of the queue (`OrderInv`): an update check comes before
  a selection, which for a flattened list of lists is proved with `LevelInOrder` and `JoinInOrder`;
- the loop goes on only where the slots before it do not suffice (`LoopHistory`), and a sealed plan
  whose candidates are not held was chosen at a slot T which was the first to suffice
  (`PlanHistory`). So a later command stops at T too and makes the same choice (`PlanAgain`): the
  order of `combinations` has one first element (`OneIsFirst`), and statuses that move between
  "checked" and the release do not change who may be chosen.

`BlockedInv` then says that the answer "blocked" implies `Stuck`. The theorem also covers what TLC
cannot: three to six candidates, any number of stages and any number of troubles. `SmoothRecovery`
turns it round: among the eight kinds of trouble only deaths, torn writes, edits of the source or of
`harness/` and inexact batches ever block a command. Failing updaters, HOLD batches, withheld authorizations and single stages run
on the side do not, in any number.

`SessionObserverProofs` proves, for any sizes of batch and buffer and any number of events, flushes
and faults, type correctness, `SeenIsStored`, `FinalEvidence` and `QueueAccounts`. `IInv` says of
the open call (`CallInv`) that its request is the youngest in the pipe and that an answer tells what
the bridge did, however many requests of calls that timed out are served before it; of the pipe
(`WireInv`) that behind a sync nothing new can arrive: the inbox has no gap, and whatever is still
to be served before the sync is in it already, so the reference covers what the observer saw; and
of a session that was disposed of that its chain ends in a flush (`DisposalInv`). `QueueInv` is the
accounting: buffer, batches in the chain and the chunk under way have no event in common and
together are what is pending, the counter is their number and exceeds `MaxBuffer` by no more than
the batch that is being sent again. The batches of a chain, the chunks of a reconciliation and what
it adds to a batch are recursive functions in the model; what they compute is proved by induction
over sets of numbers (`Induction`), after showing that such a function exists (`FlattenExists`,
`ChunkExists`, `BackfillExists`).

`UpdaterAttemptsProofs` proves type correctness, `AcceptedIsAccounted` and `ExactIsBilled` for any
number of attempts, calls and requests and bills of any size. For the first the heart is `PhaseInv`:
after the close nothing waits at the port (`Shut`); if `counts()` then found no pending request, all
are refused or done and stay so (`Quiet`); and if `usage_totals()` then found all usages, they are
settled (`Settled`). Every step of a thread moves a request onward (`OnwardStep`), which keeps all
three. For the second `BillInv` adds the money: an attempt that was not started has no request
(`OwnerInv`); what the proxy found is never more than the bill of the attempt, and all of it if
nothing was pending and every usage was found (`TotalsInv`); and the cost of an attempt follows from
that (`CostInv`). The bill of a settled attempt never changes again, that of another only grows
(`BillsGrow`), and the bill of all requests is the sum over the attempts (`SumByOwner`). Those are
facts about sums over finite sets; the module proves them from the definition of the fold, by
induction over subsets, after showing that the recursive function in it exists (`AddsExists`) and
is unique (`AddsUnique`).

`CostAccountingProofs` proves type correctness, `CompleteIsPriced`, `TotalIsLowerBound` and
`SealNeedsFewCrashes` for any number of positions, attempts, calls, troubles and interruptions.
`IInv` says that an attempt is open exactly while the worker is in it (`WorkerInv`); that only the
last call of the attempt under way may still wait (`WaitingInv`: the code completes the call it
made last, so without this a terminal event could land on a call that is already priced); that a
call that completed was billed, and none costs more than it was, an exact one as much (`PriceInv`); that every attempt of a
position that neither failed nor has its result was interrupted, but for the one under way
(`CrashInv`, which counts them); and that the sealed record is what the ledgers give
(`AccountInv`). The properties of the record follow with sums: termwise smaller (`SumGrows`) or
equal (`SumAgrees`), split by channel (`SumUnion`), and not below the number of what is displayed
(`SumCounts`). The lemmas on sums are those of `UpdaterAttemptsProofs`.

`PromotionDecisionProofs` proves types and all four properties, for any number of candidates, pools,
trials, runs and limits. `InfraNeverDecides`: a complete batch has all its runs scored, selection and
decision ask for complete batches, and a sealed one never changes (`DecisionInv`). `IInv` adds the
types of the runs (`RunInv`) and that what the selection and the gates said is what they would still
say of the batches (`ChoiceInv`), so the other properties become facts about what they compute.
`SelectedIsUndominated`: all measures are numbers (`Measured`: a finite non-empty set of numbers has a
least and a largest one); two keys differ at the latest in the candidate's id and are in an order,
which is transitive, so one of finitely many candidates comes first (`FirstExists`) and no other can
be as good everywhere and better somewhere (`WinnerIsFirst`). `BetterRunNeverHurts`: a run that went
better changes only which tasks are stable, so the candidate stays eligible, its key only becomes
smaller, nobody else's changes (`ImprovedSelection`), and no gate that held fails
(`ImprovedDecision`). `ExecutedIsCounted`: evaluation batches exist for all snapshots, release batches
only for those with a role, and counts are sums over the stages (`CountInv`, `SumOverStages`,
`PlannedTrials`); a role shared is a batch fewer per stage, which is what `_build_role_assignment`
subtracts (`SnapshotsCounted`). The limits are assumed to be what their fields require: ratios are
positive, permitted increases not negative (`gates/models.py:151`, `schemas/models.py:189`).

`CandidateProposalsProofs` proves all four invariants of the run `proposals`, for any batch,
observations, patches and bounds. `CheckedIsWithinPolicy`: the kernel is frozen before the first
proposal, and the check compares with what was frozen (`PolicyInv`). The other three follow from
`IInv`, whose centre is `TurnInv`: there is a number T of completed turns such that

- the decided candidates are exactly those of the first T turns, over all restarts, and none of the
  turns before the last had enough (`Completed`),
- a command that counts its turns from 0 again is never beyond T, has seen what those turns left
  except rejections, and asks the updater only at turn T (`LoopInv`),
- a plan is the choice that turn T gives (`SealInv`).

`GateInv` ties decisions to a diagnosis without an incident, `DistinctInv` keeps a bundle's candidates
apart. A turn adds exactly one candidate (`TurnAdds`, `TurnsCount`), so `Register` moves T by one and
nothing else moves it. `TurnsAreFair` is then arithmetic: after q rounds and r turns the first r
bundles were served q+1 times and the others q times (`Rounds`). `PlanIsComplete` needs that the
choice in the order of `itertools.combinations` exists and is one of those with enough families
(`FirstExists`, `Chosen`). `BlockedForCause`: a seal cannot disagree with the choice (`SealInv`), and
unless more families than candidates are asked for, enough candidates with enough families hold a
choice that has them (`DiverseExists`). Lists are taken by places (`Place`, `Kept`), of which the
module proves what it needs (`KeptMembers`, `KeptAppend`); induction on numbers is done with sets
(`Least`, `Induction`). TLC checked `IInv` on a smaller instance first.

Only model-checked: every liveness property (fairness and ENABLED are beyond the prover). Every
invariant a passing run checks is also a theorem, under the hypotheses named above.

## 13. Not modelled

- Two commands on one batch at once: nothing in the code excludes it (`batch.py:418`); the model of
  a batch has one.
- Older protocols and schemas (before 2.0 and 1.2): they only verify what exists.
- The bridge's mirror mode, several redaction policies in a session, overlapping children and their
  shared buffer, the request cache.
- Contents: report rendering, traces, splits, digests and signatures, the sandbox of the updater and
  the extraction of a patch, reply parsing, capability probes. Pure functions or input and output
  without shared state.
- The fixture path (the demo and the reset check of `cli.py`, the gates without a formal protocol).

## 14. Plan

What would add most next: a second command on one `FormalBatch`; the bridge's several policies and
children.
