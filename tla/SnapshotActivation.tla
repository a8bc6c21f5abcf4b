------------------------ MODULE SnapshotActivation ------------------------
(***************************************************************************)
(* SnapshotManager (agentloopgate/snapshots/manager.py): several processes *)
(* promote, roll back and verify the live harness of one project.  They    *)
(* share the activation registry (snapshots/activations/NNNN.json), the    *)
(* journal (snapshots/pending_activation.json), the flock on               *)
(* snapshots/.activation.lock and the files under harness/.                *)
(*                                                                         *)
(* A step is what the code does between two accesses to shared state that  *)
(* another process, a person editing a file or a crash may separate.       *)
(* Definitions named X_Variant are X with a bug a programmer could have    *)
(* written; no specification uses them.  They show which mistake each      *)
(* property would catch (README.md, "Variants").                           *)
(*                                                                         *)
(* Digest checks of immutable snapshots always succeed here (the store is  *)
(* intact); JSON and digests are abstracted to values.                     *)
(***************************************************************************)
EXTENDS Naturals, Sequences, FiniteSets

CONSTANTS
    Proc,            \* processes that call the manager
    Snapshot,        \* verified snapshots in the store
    NoSnapshot,
    Parent,          \* manifest.parent_snapshot_id; NoSnapshot for a baseline
    Path,            \* files a snapshot may hold
    Content,         \* bytes of a file
    Absent,          \* no such file
    Files,           \* Files[s][x]: the bytes of x in s, or Absent
    Releasable,      \* snapshots with a verified SHIP_RECOMMENDED decision
    Approval,        \* the approvals people have signed
    NoApproval,
    NoProc,          \* nobody holds the lock
    NoEvent,         \* no activation
    MaxActivations,  \* bound: no promote or rollback is asked beyond this log
    MaxInterrupts,   \* bound: crashes and I/O errors
    MaxEdits         \* bound: edits of harness/ by people

ActivationAction == {"baseline", "promote", "rollback"}

ASSUME SentinelAssumption ==
    /\ NoSnapshot \notin Snapshot
    /\ NoProc \notin Proc
    /\ Absent \notin Content
    /\ NoApproval \notin {a.id : a \in Approval}

ASSUME StoreAssumption ==
    /\ Parent \in [Snapshot -> Snapshot \cup {NoSnapshot}]
    /\ \A s \in Snapshot : Parent[s] # s
    /\ Files \in [Snapshot -> [Path -> Content \cup {Absent}]]
    /\ Releasable \subseteq Snapshot

ASSUME ApprovalAssumption ==
    \A a \in Approval : /\ a.action \in {"promote", "rollback"}
                        /\ a.target \in Snapshot

ASSUME BoundAssumption ==
    /\ MaxActivations \in Nat
    /\ MaxInterrupts \in Nat
    /\ MaxEdits \in Nat

(* A request: a signed approval, or verify_active_live, which has none.    *)
Verify == [id |-> NoApproval, action |-> "verify", target |-> NoSnapshot]
Request == Approval \cup {Verify}

ApprovalId == {a.id : a \in Approval} \cup {NoApproval}

Event == [ordinal : Nat, action : ActivationAction, snapshot : Snapshot,
          previous : Snapshot \cup {NoSnapshot}, approval : ApprovalId]

ASSUME NoEventAssumption == NoEvent \notin Event

(* Names under harness/: each file, and the .alg.tmp written before it.    *)
Name == Path \X {"file", "tmp"}

(* What the live tree must be for _require_live_matches(s) to succeed.     *)
FileTree(s) ==
    [n \in Name |-> IF n[2] = "file" THEN Files[s][n[1]] ELSE Absent]

VARIABLES
    log,         \* the activation registry
    journal,     \* the pending activation, or NoEvent
    live,        \* the files under harness/
    lock,        \* the holder of the flock, or NoProc
    pc,          \* where each process is
    req,         \* its request
    seen,        \* the snapshot it read as active (or captures as baseline)
    plan,        \* the activation it drafted, or NoEvent
    answer,      \* the activation its last call returned, or NoEvent
    dest,        \* the snapshot the lock holder materializes
    extras,      \* names it still has to unlink
    todo,        \* files it still has to write
    interrupts,  \* crashes and I/O errors so far
    edits        \* edits by people so far

shared == <<log, journal, live, lock>>
work   == <<dest, extras, todo>>
locals == <<pc, req, seen, plan, answer>>
bounds == <<interrupts, edits>>
vars   == <<shared, work, locals, bounds>>

Latest == log[Len(log)]
Active == Latest.snapshot

(* The steps a process takes while it holds the lock.                      *)
Materializing == {"unlink", "write", "replace", "check"}
Locked == Materializing \cup
              {"recover", "settle", "validate", "journal", "append", "finish"}
PC == Locked \cup {"idle", "capture", "enter", "read", "plan", "lock"}

TypeOK ==
    /\ log \in Seq(Event)
    /\ journal \in Event \cup {NoEvent}
    /\ live \in [Name -> Content \cup {Absent}]
    /\ lock \in Proc \cup {NoProc}
    /\ pc \in [Proc -> PC]
    /\ req \in [Proc -> Request]
    /\ seen \in [Proc -> Snapshot \cup {NoSnapshot}]
    /\ plan \in [Proc -> Event \cup {NoEvent}]
    /\ answer \in [Proc -> Event \cup {NoEvent}]
    /\ dest \in Snapshot \cup {NoSnapshot}
    /\ extras \in SUBSET Name
    /\ todo \in SUBSET Path
    /\ interrupts \in 0..MaxInterrupts
    /\ edits \in 0..MaxEdits

(* The tree is what someone wrote there before the first capture: the      *)
(* bytes of a snapshot that will be the baseline.                          *)
Init ==
    /\ log = <<>>
    /\ journal = NoEvent
    /\ \E s \in Snapshot : Parent[s] = NoSnapshot /\ live = FileTree(s)
    /\ lock = NoProc
    /\ pc = [p \in Proc |-> "idle"]
    /\ req = [p \in Proc |-> Verify]
    /\ seen = [p \in Proc |-> NoSnapshot]
    /\ plan = [p \in Proc |-> NoEvent]
    /\ answer = [p \in Proc |-> NoEvent]
    /\ dest = NoSnapshot
    /\ extras = {}
    /\ todo = {}
    /\ interrupts = 0
    /\ edits = 0

-----------------------------------------------------------------------------
(* Moving on, and ending a call with an answer or (NoEvent) an exception.  *)

GoTo(p, step) == pc' = [pc EXCEPT ![p] = step]

Stop(p, result) ==
    /\ GoTo(p, "idle")
    /\ req' = [req EXCEPT ![p] = Verify]
    /\ seen' = [seen EXCEPT ![p] = NoSnapshot]
    /\ plan' = [plan EXCEPT ![p] = NoEvent]
    /\ answer' = [answer EXCEPT ![p] = result]

(* Leaving the `with self._activation_lock()` block, however it is left.   *)
Unlock ==
    /\ lock' = NoProc
    /\ dest' = NoSnapshot
    /\ extras' = {}
    /\ todo' = {}

(* The head of _materialize_live(s): files to unlink, files to write.      *)
StartMaterialize(s) ==
    /\ dest' = s
    /\ extras' = {n \in Name : live[n] # Absent /\ FileTree(s)[n] = Absent}
    /\ todo' = {x \in Path : Files[s][x] # Absent}

-----------------------------------------------------------------------------
(* create_baseline: it takes no lock.  The registry is read first, the     *)
(* live tree is captured and stored, and the activation is appended later. *)

CaptureBaseline(p, s) ==
    /\ pc[p] = "idle"
    /\ log = <<>>
    /\ Parent[s] = NoSnapshot
    /\ live = FileTree(s)
    /\ GoTo(p, "capture")
    /\ seen' = [seen EXCEPT ![p] = s]
    /\ answer' = [answer EXCEPT ![p] = NoEvent]
    /\ UNCHANGED <<shared, work, bounds, req, plan>>

BaselineEvent(s) ==
    [ordinal |-> 1, action |-> "baseline", snapshot |-> s,
     previous |-> NoSnapshot, approval |-> NoApproval]

AppendBaseline_AnyTime(p) ==
    /\ pc[p] = "capture"
    /\ log' = Append(log, BaselineEvent(seen[p]))
    /\ Stop(p, BaselineEvent(seen[p]))
    /\ UNCHANGED <<journal, live, lock, work, bounds>>

(* _append_activation raises when another baseline came first.             *)
AppendBaseline(p) ==
    /\ pc[p] = "capture"
    /\ IF log = <<>>
          THEN /\ log' = <<BaselineEvent(seen[p])>>
               /\ Stop(p, BaselineEvent(seen[p]))
          ELSE /\ UNCHANGED log
               /\ Stop(p, NoEvent)
    /\ UNCHANGED <<journal, live, lock, work, bounds>>

-----------------------------------------------------------------------------
(* The entry of promote, rollback and verify_active_live: the checks of    *)
(* the target, the approval and the decision, which read nothing that the  *)
(* steps below change.                                                     *)

Authorized(r) ==
    /\ r \in Approval
    /\ r.action = "promote" => r.target \in Releasable

Call(p, r) ==
    /\ pc[p] = "idle"
    /\ r = Verify \/ (Authorized(r) /\ Len(log) < MaxActivations)
    /\ GoTo(p, "enter")
    /\ req' = [req EXCEPT ![p] = r]
    /\ answer' = [answer EXCEPT ![p] = NoEvent]
    /\ UNCHANGED <<shared, work, bounds, seen, plan>>

(* active_snapshot starts with _recover_activation, under the lock.        *)
Enter(p) ==
    /\ pc[p] = "enter"
    /\ IF lock = NoProc
          THEN /\ lock' = p
               /\ GoTo(p, "recover")
               /\ UNCHANGED <<req, seen, plan, answer>>
          ELSE /\ Stop(p, NoEvent)
               /\ UNCHANGED lock
    /\ UNCHANGED <<log, journal, live, work, bounds>>

(* _recover_activation_locked: which snapshot a pending journal restores.  *)
Committed_Never == FALSE

Committed == log # <<>> /\ Latest = journal
Uncommitted == /\ log # <<>>
               /\ Active = journal.previous
               /\ journal.ordinal = Len(log) + 1

Restored_Previous == journal.previous

Restored == IF Committed THEN journal.snapshot ELSE journal.previous

Recover(p) ==
    /\ pc[p] = "recover"
    /\ IF journal # NoEvent /\ (Committed \/ Uncommitted)
          THEN /\ StartMaterialize(Restored)
               /\ GoTo(p, "unlink")
               /\ UNCHANGED <<lock, req, seen, plan, answer>>
          ELSE /\ Unlock
               /\ IF journal = NoEvent
                     THEN GoTo(p, "read") /\ UNCHANGED <<req, seen, plan, answer>>
                     ELSE Stop(p, NoEvent)
    /\ UNCHANGED <<log, journal, live, bounds>>

-----------------------------------------------------------------------------
(* _materialize_live, shared by recovery (plan[p] = NoEvent) and install.  *)

Unlink(p) ==
    /\ pc[p] = "unlink"
    /\ \/ \E n \in extras : /\ live[n] # Absent
                            /\ live' = [live EXCEPT ![n] = Absent]
                            /\ extras' = extras \ {n}
                            /\ UNCHANGED <<lock, dest, todo, locals>>
       \/ /\ \E n \in extras : live[n] = Absent  \* FileNotFoundError
          /\ Unlock
          /\ Stop(p, NoEvent)
          /\ UNCHANGED live
       \/ /\ extras = {}
          /\ GoTo(p, "write")
          /\ UNCHANGED <<live, lock, work, req, seen, plan, answer>>
    /\ UNCHANGED <<log, journal, bounds>>

WriteTmp(p) ==
    /\ pc[p] = "write"
    /\ \/ \E x \in todo :
             /\ live' = [live EXCEPT ![<<x, "tmp">>] = Files[dest][x]]
             /\ GoTo(p, "replace")
       \/ /\ todo = {}
          /\ GoTo(p, "check")
          /\ UNCHANGED live
    /\ UNCHANGED <<log, journal, lock, work, bounds, req, seen, plan, answer>>

(* temporary.replace(destination) renames in one step.  The digest check   *)
(* that follows (manager.py:707-708) finds a write that went wrong, which  *)
(* ends the call as Interrupt does, or an edit, which CheckMaterialized    *)
(* finds if it stays.                                                      *)
Replace(p) ==
    /\ pc[p] = "replace"
    /\ \E x \in todo :
          /\ live[<<x, "tmp">>] # Absent
          /\ live' = [live EXCEPT ![<<x, "file">>] = live[<<x, "tmp">>],
                                  ![<<x, "tmp">>] = Absent]
          /\ todo' = todo \ {x}
    /\ GoTo(p, "write")
    /\ UNCHANGED <<log, journal, lock, dest, extras, bounds,
                   req, seen, plan, answer>>

(* The final _require_live_matches; a mismatch leaves the journal behind.  *)
CheckMaterialized(p) ==
    /\ pc[p] = "check"
    /\ IF live = FileTree(dest)
          THEN /\ GoTo(p, IF plan[p] = NoEvent THEN "settle" ELSE "append")
               /\ UNCHANGED <<lock, work, req, seen, plan, answer>>
          ELSE Unlock /\ Stop(p, NoEvent)
    /\ UNCHANGED <<log, journal, live, bounds>>

(* The end of the recovery: journal.unlink(), then the lock is released.   *)
Settle(p) ==
    /\ pc[p] = "settle"
    /\ journal' = NoEvent
    /\ Unlock
    /\ GoTo(p, "read")
    /\ UNCHANGED <<log, live, bounds, req, seen, plan, answer>>

-----------------------------------------------------------------------------
(* The rest of active_snapshot reads the registry after the lock is gone.  *)

Read_KeepsEvent(p) ==
    /\ pc[p] = "read"
    /\ IF log = <<>>
          THEN Stop(p, NoEvent)
          ELSE /\ seen' = [seen EXCEPT ![p] = Latest]
               /\ GoTo(p, "plan")
               /\ UNCHANGED <<req, plan, answer>>
    /\ UNCHANGED <<shared, work, bounds>>

Read(p) ==
    /\ pc[p] = "read"
    /\ IF log = <<>>
          THEN Stop(p, NoEvent)
          ELSE /\ seen' = [seen EXCEPT ![p] = Active]
               /\ GoTo(p, "plan")
               /\ UNCHANGED <<req, plan, answer>>
    /\ UNCHANGED <<shared, work, bounds>>

Draft(r, from) ==
    [ordinal |-> Len(log) + 1, action |-> r.action, snapshot |-> r.target,
     previous |-> from, approval |-> r.id]

Adjoins_AnyParent(r, from) ==
    \/ r.action = "promote"
    \/ r.action = "rollback" /\ Parent[from] = r.target

(* promote: the target's parent is active; rollback: the active's parent   *)
(* is the target.                                                          *)
Adjoins(r, from) ==
    \/ r.action = "promote" /\ Parent[r.target] = from
    \/ r.action = "rollback" /\ Parent[from] = r.target

(* A repeated request: _last_activation, read again, is its own.           *)
Repeated(p) ==
    /\ seen[p] = req[p].target
    /\ Latest.action = req[p].action
    /\ Latest.approval = req[p].id
    /\ live = FileTree(seen[p])

(* promote, rollback and verify_active_live after active_snapshot.         *)
Plan(p) ==
    /\ pc[p] = "plan"
    /\ \/ /\ req[p] # Verify
          /\ seen[p] # req[p].target
          /\ Adjoins(req[p], seen[p])
          /\ live = FileTree(seen[p])
          /\ plan' = [plan EXCEPT ![p] = Draft(req[p], seen[p])]
          /\ GoTo(p, "lock")
          /\ UNCHANGED <<req, seen, answer>>
       \/ /\ req[p] # Verify
          /\ Repeated(p)
          /\ Stop(p, Latest)
       \/ /\ \/ req[p] = Verify
             \/ seen[p] = req[p].target /\ ~Repeated(p)
             \/ seen[p] # req[p].target /\ ~(/\ Adjoins(req[p], seen[p])
                                             /\ live = FileTree(seen[p]))
          /\ Stop(p, NoEvent)
    /\ UNCHANGED <<shared, work, bounds>>

-----------------------------------------------------------------------------
(* _activate_transaction and _activate_locked.                             *)

Acquire_Swallows(p) ==
    /\ pc[p] = "lock"
    /\ IF lock = NoProc
          THEN /\ lock' = p
               /\ GoTo(p, "validate")
               /\ UNCHANGED <<req, seen, plan, answer>>
          ELSE /\ Stop(p, plan[p])
               /\ UNCHANGED lock
    /\ UNCHANGED <<log, journal, live, work, bounds>>

Acquire(p) ==
    /\ pc[p] = "lock"
    /\ IF lock = NoProc
          THEN /\ lock' = p
               /\ GoTo(p, "validate")
               /\ UNCHANGED <<req, seen, plan, answer>>
          ELSE /\ Stop(p, NoEvent)
               /\ UNCHANGED lock
    /\ UNCHANGED <<log, journal, live, work, bounds>>

StillCurrent_LiveOnly(e) == live = FileTree(e.previous)

StillCurrent_RegistryOnly(e) ==
    /\ Active = e.previous
    /\ e.ordinal = Len(log) + 1

StillCurrent(e) ==
    /\ Active = e.previous
    /\ e.ordinal = Len(log) + 1
    /\ live = FileTree(e.previous)

Validate(p) ==
    /\ pc[p] = "validate"
    /\ IF StillCurrent(plan[p])
          THEN /\ GoTo(p, "journal")
               /\ UNCHANGED <<lock, work, req, seen, plan, answer>>
          ELSE Unlock /\ Stop(p, NoEvent)
    /\ UNCHANGED <<log, journal, live, bounds>>

(* A journal someone left between our recovery and our lock is refused.    *)
WriteJournal(p) ==
    /\ pc[p] = "journal"
    /\ IF journal = NoEvent
          THEN /\ journal' = plan[p]
               /\ StartMaterialize(plan[p].snapshot)
               /\ GoTo(p, "unlink")
               /\ UNCHANGED <<lock, req, seen, plan, answer>>
          ELSE /\ Unlock
               /\ Stop(p, NoEvent)
               /\ UNCHANGED journal
    /\ UNCHANGED <<log, live, bounds>>

(* _append_activation with its own check of the ordinal.                   *)
AppendActivation(p) ==
    /\ pc[p] = "append"
    /\ IF plan[p].ordinal = Len(log) + 1
          THEN /\ log' = Append(log, plan[p])
               /\ GoTo(p, "finish")
               /\ UNCHANGED <<lock, work, req, seen, plan, answer>>
          ELSE /\ Unlock
               /\ Stop(p, NoEvent)
               /\ UNCHANGED log
    /\ UNCHANGED <<journal, live, bounds>>

Finish(p) ==
    /\ pc[p] = "finish"
    /\ journal' = NoEvent
    /\ Unlock
    /\ Stop(p, plan[p])
    /\ UNCHANGED <<log, live, bounds>>

-----------------------------------------------------------------------------
(* The environment.                                                        *)

(* The process dies or an I/O call raises.  The kernel or the finally      *)
(* clause releases the flock; the registry, the journal and the live files *)
(* stay as they are.  (The call that recovers a journal re-raises too.)    *)
Interrupt(p) ==
    /\ interrupts < MaxInterrupts
    /\ pc[p] # "idle"
    /\ interrupts' = interrupts + 1
    /\ IF lock = p THEN Unlock ELSE UNCHANGED <<lock, work>>
    /\ Stop(p, NoEvent)
    /\ UNCHANGED <<log, journal, live, edits>>

(* A person changes, adds or deletes a file of harness/.                   *)
Edit(x, c) ==
    /\ edits < MaxEdits
    /\ live[<<x, "file">>] # c
    /\ edits' = edits + 1
    /\ live' = [live EXCEPT ![<<x, "file">>] = c]
    /\ UNCHANGED <<log, journal, lock, work, locals, interrupts>>

Step(p) ==
    \/ AppendBaseline(p)
    \/ Enter(p)
    \/ Recover(p)
    \/ Unlink(p)
    \/ WriteTmp(p)
    \/ Replace(p)
    \/ CheckMaterialized(p)
    \/ Settle(p)
    \/ Read(p)
    \/ Plan(p)
    \/ Acquire(p)
    \/ Validate(p)
    \/ WriteJournal(p)
    \/ AppendActivation(p)
    \/ Finish(p)

Next ==
    \/ \E p \in Proc : \/ Step(p)
                       \/ \E s \in Snapshot : CaptureBaseline(p, s)
                       \/ \E r \in Request : Call(p, r)
                       \/ Interrupt(p)
    \/ \E x \in Path, c \in Content \cup {Absent} : Edit(x, c)

Spec == Init /\ [][Next]_vars

-----------------------------------------------------------------------------
(* Properties.                                                             *)

LegalMove(from, e) ==
    /\ e.previous = from
    /\ \/ e.action = "promote" /\ Parent[e.snapshot] = from
                               /\ e.snapshot \in Releasable
       \/ e.action = "rollback" /\ Parent[from] = e.snapshot

(* The registry is one chain from a baseline: every activation starts from *)
(* the snapshot the one before it left active, promotes a releasable child *)
(* or restores the parent, and has the next ordinal, whatever processes    *)
(* raced (manager.py:617-622 rechecks under the lock what :282-300 read    *)
(* without it) and whatever crashed.                                       *)
HistoryIsChain ==
    \A i \in DOMAIN log :
        /\ log[i].ordinal = i
        /\ IF i = 1
              THEN log[i].action = "baseline"
              ELSE LegalMove(log[i - 1].snapshot, log[i])

(* Whatever interrupted an activation, its journal can be reconciled with  *)
(* the registry: "activation journal conflicts with history"               *)
(* (manager.py:687) is never the outcome, so no crash blocks the project.  *)
JournalReconciles == journal # NoEvent => Committed \/ Uncommitted

(* Without a pending journal the live harness is exactly the active        *)
(* snapshot: no crash or race leaves files of two snapshots mixed unless   *)
(* the journal that repairs them is still there (manager.py:628-646).      *)
(* Edits by people are what verify_active_live is for, and excluded.       *)
LiveIsActive ==
    (edits = 0 /\ journal = NoEvent /\ log # <<>>) => live = FileTree(Active)

(* An activation is registered only when its bytes are live already        *)
(* (manager.py:644-645): a reader of the registry never learns of a        *)
(* snapshot whose switch may still fail.                                   *)
RegisteredWhenInstalled ==
    [][(log' # log /\ edits = 0) => live' = FileTree(log'[Len(log')].snapshot)]_vars

(* The manager changes files under harness/ only while a journal says how  *)
(* to repair them, so a crash at any write is recoverable (manager.py:     *)
(* 628-644, 665-692).  Of edits it says nothing: one that is made while a  *)
(* journal is pending is overwritten by the switch or its recovery.        *)
LiveChangesUnderJournal ==
    [][(live' # live /\ edits' = edits) => (journal # NoEvent /\ journal' = journal)]_vars

(* harness/ differs from the active snapshot, and no journal explains it.  *)
Tampered == journal = NoEvent /\ log # <<>> /\ live # FileTree(Active)

(* A call between its check under the lock and its journal.                *)
PastCheck == \E p \in Proc : pc[p] = "journal"

(* What a person changed in harness/ is not overwritten: until the person  *)
(* takes it back no call gets past its check under the lock, which looks   *)
(* at harness/ again after promote and rollback had looked without the     *)
(* lock (manager.py:292-300, 525-535, then 625), nor does one find a       *)
(* journal to recover.  Between that check and the journal                 *)
(* (:625-643), and while a journal is pending, an edit does get lost.      *)
EditIsKept ==
    [][Tampered /\ ~PastCheck =>
          /\ ~PastCheck' /\ journal' = NoEvent
          /\ live' = live \/ edits' # edits]_vars

(* A call that returned an activation tells the truth: it is registered,   *)
(* also when the answer is that of a repeated request (manager.py:283-291, *)
(* :517-524) and other processes have moved on since.                      *)
AnswerIsRegistered ==
    \A p \in Proc : answer[p] # NoEvent => \E i \in DOMAIN log : log[i] = answer[p]

(* An interrupted activation does not stay pending for ever: as long as    *)
(* calls keep coming, one of them finishes or takes back the switch.       *)
PendingIsResolved == (journal # NoEvent) ~> (journal = NoEvent)

-----------------------------------------------------------------------------
(* The abstract deployment this module implements until somebody edits.    *)

CONSTANT Mixed

Deployment == INSTANCE HarnessDeployment WITH
    history <- [i \in DOMAIN log |-> log[i].snapshot],
    pending <- IF journal = NoEvent THEN NoSnapshot ELSE journal.snapshot,
    serving <- IF journal = NoEvent /\ log # <<>> /\ live = FileTree(Active)
                  THEN Active ELSE Mixed

(* Until the first edit by a person every step is one of the promise or a  *)
(* stutter: one announced switch at a time, committed at most once, a live *)
(* harness that is the last registered snapshot in between (manager.py:    *)
(* 612-646, 665-692).  What is served after an edit is not the manager's.  *)
ImplementsDeployment ==
    /\ Deployment!Init
    /\ [][edits' = 0 => [Deployment!Next]_(Deployment!vars)]_vars
=============================================================================
