--------------------------- MODULE SnapshotProofs ---------------------------
(***************************************************************************)
(* Proofs about SnapshotActivation and about the commands on top of it     *)
(* (SnapshotCommands), for any number of processes, snapshots, files and   *)
(* approvals, and any bounds.  The invariants of SnapshotActivation are    *)
(* not inductive: IInv adds who holds the lock and what the holder knows   *)
(* of the registry, the journal and the live files at each of its steps.   *)
(*                                                                         *)
(* The lifecycle of a candidate never runs ahead of the deployment, even   *)
(* when commands race and die anywhere.  A command moves a lifecycle only  *)
(* by an activation the manager returned to it, and that one is registered *)
(* (AnswerIsRegistered); what a rollback left had been activated before,   *)
(* since the registry is a chain (HistoryIsChain).                         *)
(***************************************************************************)
EXTENDS SnapshotCommands, TLAPS

-----------------------------------------------------------------------------
(* The inductive invariant.                                                *)

(* The lock is held exactly by the process inside its critical section.    *)
LockInv == \A p \in Proc : pc[p] \in Locked <=> lock = p

(* What a process remembers from the reads it made without the lock.       *)
Local(p) ==
    /\ req[p] # Verify => Authorized(req[p])
    /\ pc[p] = "capture" =>
          /\ seen[p] \in Snapshot
          /\ Parent[seen[p]] = NoSnapshot
          /\ (edits = 0 /\ log = <<>>) => live = FileTree(seen[p])
    /\ pc[p] = "plan" => seen[p] \in Snapshot /\ log # <<>>
    /\ pc[p] \in {"lock", "validate", "journal", "append", "finish"} =>
          plan[p] # NoEvent
    /\ plan[p] # NoEvent =>
          /\ log # <<>>
          /\ LegalMove(plan[p].previous, plan[p])
          /\ pc[p] \in Materializing \cup
                        {"lock", "validate", "journal", "append", "finish"}

LocalInv == \A p \in Proc : Local(p)

(* A pending journal announces a legal move from or to the active snapshot.*)
JournalInv ==
    journal # NoEvent =>
        /\ log # <<>>
        /\ LegalMove(journal.previous, journal)
        /\ Committed \/ Uncommitted

(* What the holder of the lock knows.                                      *)
Installing(p) ==
    /\ journal = plan[p]
    /\ dest = plan[p].snapshot
    /\ Active = plan[p].previous
    /\ plan[p].ordinal = Len(log) + 1

Holder(p) ==
    /\ pc[p] = "journal" => /\ Active = plan[p].previous
                            /\ plan[p].ordinal = Len(log) + 1
    /\ pc[p] \in Materializing \cup {"settle", "append", "finish"} =>
          journal # NoEvent /\ dest \in Snapshot
    /\ (pc[p] \in Materializing \cup {"append"} /\ plan[p] # NoEvent) =>
          Installing(p)
    /\ (pc[p] \in Materializing \cup {"settle"} /\ plan[p] = NoEvent) =>
          dest = Active
    /\ pc[p] = "finish" => /\ journal = plan[p]
                           /\ Latest = plan[p]
                           /\ dest = plan[p].snapshot
    /\ (pc[p] \in {"settle", "append", "finish"} /\ edits = 0) =>
          live = FileTree(dest)

HolderInv == \A p \in Proc : Holder(p)

IInv == /\ TypeOK
        /\ LockInv
        /\ LocalInv
        /\ JournalInv
        /\ HolderInv
        /\ LiveIsActive
        /\ HistoryIsChain
        /\ AnswerIsRegistered

-----------------------------------------------------------------------------
(* Facts about the operators.                                              *)

(* The tree of a snapshot is a possible live tree.                         *)
LEMMA FileTreeType ==
    \A s \in Snapshot : FileTree(s) \in [Name -> Content \cup {Absent}]
  BY StoreAssumption DEF FileTree, Name

(* A baseline registers as an event.                                       *)
LEMMA BaselineEventType ==
    \A s \in Snapshot : BaselineEvent(s) \in Event
  BY DEF BaselineEvent, Event, ActivationAction, ApprovalId

(* A draft made from an authorized request is an event.                    *)
LEMMA DraftType ==
    ASSUME TypeOK, NEW r, Authorized(r), NEW s \in Snapshot
    PROVE  Draft(r, s) \in Event
  <1>1. r.id \in ApprovalId /\ r.target \in Snapshot /\ r.action \in ActivationAction
    BY ApprovalAssumption DEF Authorized, ApprovalId, ActivationAction
  <1>2. Len(log) + 1 \in Nat
    BY DEF TypeOK
  <1> QED
    BY <1>1, <1>2 DEF Draft, Event

(* The last activation of a registry that is not empty.                    *)
LEMMA LatestType ==
    ASSUME TypeOK, log # <<>>
    PROVE  /\ Latest \in Event
           /\ Active \in Snapshot
           /\ Len(log) \in Nat \ {0}
           /\ Len(log) \in DOMAIN log
  <1>1. log \in Seq(Event) /\ Len(log) \in Nat \ {0}
    BY DEF TypeOK
  <1>2. Latest \in Event /\ Len(log) \in DOMAIN log
    BY <1>1 DEF Latest
  <1> QED
    BY <1>1, <1>2 DEF Active, Event

-----------------------------------------------------------------------------
(* Type correctness is preserved.                                          *)

LocalsTyped ==
    /\ pc \in [Proc -> PC]
    /\ req \in [Proc -> Request]
    /\ seen \in [Proc -> Snapshot \cup {NoSnapshot}]
    /\ plan \in [Proc -> Event \cup {NoEvent}]
    /\ answer \in [Proc -> Event \cup {NoEvent}]

(* The two ways a step moves its process.                                  *)
LEMMA StopType ==
    ASSUME TypeOK, NEW p \in Proc, NEW e \in Event \cup {NoEvent}, Stop(p, e)
    PROVE  LocalsTyped'
  <1>1. Verify \in Request /\ "idle" \in PC
    BY DEF Request, PC
  <1>2. pc' = [pc EXCEPT ![p] = "idle"] /\ req' = [req EXCEPT ![p] = Verify]
    BY DEF Stop, GoTo
  <1>3. /\ seen' = [seen EXCEPT ![p] = NoSnapshot]
        /\ plan' = [plan EXCEPT ![p] = NoEvent]
        /\ answer' = [answer EXCEPT ![p] = e]
    BY DEF Stop
  <1> HIDE DEF PC, Request, Verify
  <1>4. pc' \in [Proc -> PC] /\ req' \in [Proc -> Request]
    BY <1>1, <1>2 DEF TypeOK
  <1>5. seen' \in [Proc -> Snapshot \cup {NoSnapshot}]
    BY <1>3 DEF TypeOK
  <1>6. plan' \in [Proc -> Event \cup {NoEvent}] /\ answer' \in [Proc -> Event \cup {NoEvent}]
    BY <1>3 DEF TypeOK
  <1> QED
    BY <1>4, <1>5, <1>6 DEF LocalsTyped

(* A step leads to a stage.                                                *)
LEMMA GoToType ==
    ASSUME TypeOK, NEW p \in Proc, NEW step \in PC, GoTo(p, step)
    PROVE  pc' \in [Proc -> PC]
  BY DEF TypeOK, GoTo

(* Each step of a call keeps the types.                                    *)
LEMMA StepTypeOK ==
    ASSUME IInv, NEW p \in Proc, Step(p)
    PROVE  TypeOK'
  <1> USE DEF TypeOK, PC, Locked, Materializing, vars, shared, work,
              locals, bounds, GoTo, Stop, Unlock
  <1>0. /\ TypeOK
        /\ Verify \in Request
        /\ NoEvent \notin Event
        /\ NoSnapshot \notin Snapshot
    BY NoEventAssumption, SentinelAssumption DEF IInv, Request
  <1>1. CASE AppendBaseline(p)
    <2>1. seen[p] \in Snapshot
      BY <1>1 DEF IInv, LocalInv, Local, AppendBaseline
    <2>2. BaselineEvent(seen[p]) \in Event
      BY <2>1, BaselineEventType
    <2>3. <<BaselineEvent(seen[p])>> \in Seq(Event)
      BY <2>2
    <2> HIDE DEF Stop, TypeOK
    <2>4. LocalsTyped'
      BY <1>0, <1>1, <2>2, StopType DEF AppendBaseline
    <2>5. log' \in Seq(Event) /\ UNCHANGED <<journal, live, lock, work, bounds>>
      BY <1>0, <1>1, <2>3 DEF AppendBaseline, TypeOK
    <2> QED
      BY <1>0, <2>4, <2>5 DEF TypeOK, LocalsTyped
  <1>2. CASE Enter(p)
    <2> HIDE DEF Stop, TypeOK, GoTo
    <2>1. LocalsTyped'
      <3>1. CASE Stop(p, NoEvent)
        BY <1>0, <3>1, StopType
      <3>2. CASE GoTo(p, "recover") /\ UNCHANGED <<req, seen, plan, answer>>
        BY <1>0, <3>2, GoToType DEF TypeOK, LocalsTyped
      <3> QED
        BY <1>2, <3>1, <3>2 DEF Enter
    <2>2. lock' \in {p, lock} /\ UNCHANGED <<log, journal, live, work, bounds>>
      BY <1>2 DEF Enter
    <2> QED
      BY <1>0, <2>1, <2>2 DEF TypeOK, LocalsTyped
  <1>3. CASE Recover(p)
    <2>1. ASSUME NEW s \in Snapshot, StartMaterialize(s)
          PROVE  dest' \in Snapshot /\ extras' \in SUBSET Name /\ todo' \in SUBSET Path
      BY <2>1 DEF StartMaterialize
    <2>2. Committed \/ Uncommitted => Active \in Snapshot
      BY <1>0, LatestType DEF Committed, Uncommitted
    <2>3. journal # NoEvent => journal.snapshot \in Snapshot
      BY <1>0 DEF Event
    <2>4. Uncommitted => journal.previous \in Snapshot
      BY <2>2 DEF Uncommitted
    <2> QED
      BY <1>0, <1>3, <2>1, <2>2, <2>3, <2>4 DEF Recover, Restored
  <1>4. CASE Unlink(p)
    BY <1>0, <1>4 DEF Unlink
  <1>5. CASE WriteTmp(p)
    <2>1. dest \in Snapshot
      BY <1>5 DEF IInv, HolderInv, Holder, WriteTmp
    <2>2. \A x \in todo : Files[dest][x] \in Content \cup {Absent}
      BY <1>0, <2>1, StoreAssumption
    <2>3. \A x \in todo : <<x, "tmp">> \in Name
      BY <1>0 DEF Name
    <2> QED
      BY <1>0, <1>5, <2>2, <2>3 DEF WriteTmp
  <1>6. CASE Replace(p)
    BY <1>0, <1>6 DEF Replace, Name
  <1>7. CASE CheckMaterialized(p)
    <2> HIDE DEF Stop, TypeOK, GoTo
    <2>1. LocalsTyped'
      <3>1. CASE Stop(p, NoEvent)
        BY <1>0, <3>1, StopType
      <3>2. CASE /\ GoTo(p, "settle") \/ GoTo(p, "append")
                 /\ UNCHANGED <<req, seen, plan, answer>>
        BY <1>0, <3>2, GoToType DEF TypeOK, LocalsTyped
      <3> QED
        BY <1>7, <3>1, <3>2 DEF CheckMaterialized
    <2>2. /\ Unlock \/ UNCHANGED <<lock, work>>
          /\ UNCHANGED <<log, journal, live, bounds>>
      BY <1>7 DEF CheckMaterialized
    <2> QED
      BY <1>0, <2>1, <2>2 DEF TypeOK, LocalsTyped
  <1>8. CASE Settle(p)
    BY <1>0, <1>8 DEF Settle
  <1>9. CASE Read(p)
    BY <1>0, <1>9, LatestType DEF Read, IInv
  <1>10. CASE Plan(p)
    <2>1. seen[p] \in Snapshot /\ Latest \in Event
      BY <1>0, <1>10, LatestType DEF IInv, LocalInv, Local, Plan
    <2>2. req[p] # Verify => Draft(req[p], seen[p]) \in Event
      BY <1>0, <2>1, DraftType DEF IInv, LocalInv, Local
    <2> HIDE DEF Stop, TypeOK, GoTo
    <2>3. LocalsTyped'
      <3>1. CASE \E e \in {Latest, NoEvent} : Stop(p, e)
        BY <1>0, <2>1, <3>1, StopType
      <3>2. CASE /\ req[p] # Verify
                 /\ plan' = [plan EXCEPT ![p] = Draft(req[p], seen[p])]
                 /\ GoTo(p, "lock")
                 /\ UNCHANGED <<req, seen, answer>>
        BY <1>0, <2>2, <3>2, GoToType DEF TypeOK, LocalsTyped
      <3> QED
        BY <1>10, <3>1, <3>2 DEF Plan
    <2>4. UNCHANGED <<shared, work, bounds>>
      BY <1>10 DEF Plan
    <2> QED
      BY <1>0, <2>3, <2>4 DEF TypeOK, LocalsTyped
  <1>11. CASE Acquire(p)
    <2> HIDE DEF Stop, TypeOK, GoTo
    <2>1. LocalsTyped'
      <3>1. CASE Stop(p, NoEvent)
        BY <1>0, <3>1, StopType
      <3>2. CASE GoTo(p, "validate") /\ UNCHANGED <<req, seen, plan, answer>>
        BY <1>0, <3>2, GoToType DEF TypeOK, LocalsTyped
      <3> QED
        BY <1>11, <3>1, <3>2 DEF Acquire
    <2>2. lock' \in {p, lock} /\ UNCHANGED <<log, journal, live, work, bounds>>
      BY <1>11 DEF Acquire
    <2> QED
      BY <1>0, <2>1, <2>2 DEF TypeOK, LocalsTyped
  <1>12. CASE Validate(p)
    <2> HIDE DEF Stop, TypeOK, GoTo
    <2>1. LocalsTyped'
      <3>1. CASE Stop(p, NoEvent)
        BY <1>0, <3>1, StopType
      <3>2. CASE GoTo(p, "journal") /\ UNCHANGED <<req, seen, plan, answer>>
        BY <1>0, <3>2, GoToType DEF TypeOK, LocalsTyped
      <3> QED
        BY <1>12, <3>1, <3>2 DEF Validate
    <2>2. /\ Unlock \/ UNCHANGED <<lock, work>>
          /\ UNCHANGED <<log, journal, live, bounds>>
      BY <1>12 DEF Validate
    <2> QED
      BY <1>0, <2>1, <2>2 DEF TypeOK, LocalsTyped
  <1>13. CASE WriteJournal(p)
    <2>1. plan[p] \in Event /\ plan[p].snapshot \in Snapshot
      BY <1>0, <1>13 DEF IInv, LocalInv, Local, WriteJournal, Event
    <2>2. StartMaterialize(plan[p].snapshot) =>
             dest' \in Snapshot /\ extras' \in SUBSET Name /\ todo' \in SUBSET Path
      BY <2>1 DEF StartMaterialize
    <2>3. CASE journal = NoEvent
      <3>1. /\ journal' = plan[p]
            /\ StartMaterialize(plan[p].snapshot)
            /\ pc' = [pc EXCEPT ![p] = "unlink"]
            /\ UNCHANGED <<log, live, lock, req, seen, plan, answer, bounds>>
        BY <1>13, <2>3 DEF WriteJournal
      <3>2. dest' \in Snapshot /\ extras' \in SUBSET Name /\ todo' \in SUBSET Path
        BY <2>2, <3>1
      <3> QED
        BY <1>0, <2>1, <3>1, <3>2
    <2>4. CASE journal # NoEvent
      BY <1>0, <1>13, <2>4 DEF WriteJournal
    <2> QED
      BY <2>3, <2>4
  <1>14. CASE AppendActivation(p)
    <2>1. plan[p] \in Event
      BY <1>0, <1>14 DEF IInv, LocalInv, Local, AppendActivation
    <2>2. Append(log, plan[p]) \in Seq(Event)
      BY <1>0, <2>1
    <2>3. log' \in Seq(Event)
      BY <1>0, <1>14, <2>2 DEF AppendActivation
    <2>4. UNCHANGED <<journal, live, bounds>>
      BY <1>14 DEF AppendActivation
    <2>5. /\ lock' \in Proc \cup {NoProc}
          /\ pc' \in [Proc -> PC]
          /\ req' \in [Proc -> Request]
          /\ seen' \in [Proc -> Snapshot \cup {NoSnapshot}]
          /\ plan' \in [Proc -> Event \cup {NoEvent}]
          /\ answer' \in [Proc -> Event \cup {NoEvent}]
          /\ dest' \in Snapshot \cup {NoSnapshot}
          /\ extras' \in SUBSET Name
          /\ todo' \in SUBSET Path
      <3>1. CASE plan[p].ordinal = Len(log) + 1
        BY <1>0, <1>14, <3>1 DEF AppendActivation
      <3>2. CASE plan[p].ordinal # Len(log) + 1
        BY <1>0, <1>14, <3>2 DEF AppendActivation
      <3> QED
        BY <3>1, <3>2
    <2> QED
      BY <1>0, <2>3, <2>4, <2>5
  <1>15. CASE Finish(p)
    BY <1>0, <1>15 DEF Finish
  <1> QED
    BY <1>1, <1>2, <1>3, <1>4, <1>5, <1>6, <1>7, <1>8, <1>9, <1>10, <1>11,
       <1>12, <1>13, <1>14, <1>15 DEF Step

(* So do the actions of the environment.                                   *)
Environment(p) == \/ \E s \in Snapshot : CaptureBaseline(p, s)
                  \/ \E r \in Request : Call(p, r)
                  \/ Interrupt(p)

(* Calls, captures and interruptions keep the types.                       *)
LEMMA EnvironmentTypeOK ==
    ASSUME IInv, NEW p \in Proc, Environment(p)
    PROVE  TypeOK'
  <1> USE DEF TypeOK, PC, Locked, Materializing, vars, shared, work,
              locals, bounds, GoTo, Stop, Unlock
  <1>0. /\ TypeOK
        /\ Verify \in Request
        /\ NoEvent \notin Event
    BY NoEventAssumption DEF IInv, Request
  <1>1. ASSUME NEW s \in Snapshot, CaptureBaseline(p, s)
        PROVE  TypeOK'
    BY <1>0, <1>1 DEF CaptureBaseline
  <1>2. ASSUME NEW r \in Request, Call(p, r)
        PROVE  TypeOK'
    BY <1>0, <1>2 DEF Call
  <1>3. CASE Interrupt(p)
    BY <1>0, <1>3, BoundAssumption DEF Interrupt
  <1> QED
    BY <1>1, <1>2, <1>3 DEF Environment

(* A person's edit keeps the types.                                        *)
LEMMA EditTypeOK ==
    ASSUME IInv, NEW x \in Path, NEW c \in Content \cup {Absent}, Edit(x, c)
    PROVE  TypeOK'
  BY BoundAssumption DEF IInv, TypeOK, Edit, Name, vars, work, locals

-----------------------------------------------------------------------------
(* What one step of a process may touch.                                   *)

(* The steps of one process leave the locals of the others alone.          *)
LEMMA OthersKeepLocals ==
    ASSUME TypeOK, NEW p \in Proc, Step(p) \/ Environment(p),
           NEW q \in Proc, q # p
    PROVE  /\ pc'[q] = pc[q]
           /\ req'[q] = req[q]
           /\ seen'[q] = seen[q]
           /\ plan'[q] = plan[q]
           /\ answer'[q] = answer[q]
  BY DEF TypeOK, Step, Environment, AppendBaseline, Enter, Recover, Unlink,
     WriteTmp, Replace, CheckMaterialized, Settle, Read, Plan, Acquire,
     Validate, WriteJournal, AppendActivation, Finish, CaptureBaseline, Call,
     Interrupt, GoTo, Stop, locals

(* The registry changes in two places.                                     *)
LEMMA LogChange ==
    ASSUME NEW p \in Proc, Step(p)
    PROVE  \/ log' = log
           \/ /\ pc[p] = "capture"
              /\ log = <<>>
              /\ log' = <<BaselineEvent(seen[p])>>
           \/ /\ pc[p] = "append"
              /\ plan[p].ordinal = Len(log) + 1
              /\ log' = Append(log, plan[p])
  BY DEF Step, AppendBaseline, Enter, Recover, Unlink, WriteTmp, Replace,
     CheckMaterialized, Settle, Read, Plan, Acquire, Validate, WriteJournal,
     AppendActivation, Finish, shared

(* The journal changes in three.                                           *)
LEMMA JournalChange ==
    ASSUME NEW p \in Proc, Step(p)
    PROVE  \/ journal' = journal
           \/ /\ pc[p] = "journal"
              /\ journal = NoEvent
              /\ journal' = plan[p]
           \/ /\ pc[p] \in {"settle", "finish"}
              /\ journal' = NoEvent
  BY DEF Step, AppendBaseline, Enter, Recover, Unlink, WriteTmp, Replace,
     CheckMaterialized, Settle, Read, Plan, Acquire, Validate, WriteJournal,
     AppendActivation, Finish, shared

(* A process changes live files only while it materializes a snapshot.     *)
LEMMA LiveChange ==
    ASSUME NEW p \in Proc, Step(p)
    PROVE  /\ live' = live \/ (/\ pc[p] \in {"unlink", "write", "replace"}
                                /\ UNCHANGED <<log, journal>>)
           /\ UNCHANGED bounds
  BY DEF Step, AppendBaseline, Enter, Recover, Unlink, WriteTmp, Replace,
     CheckMaterialized, Settle, Read, Plan, Acquire, Validate, WriteJournal,
     AppendActivation, Finish, shared, bounds

(* Without the lock a process changes at most an empty registry.           *)
LEMMA OutsideStep ==
    ASSUME NEW p \in Proc, Step(p), pc[p] \notin Locked
    PROVE  UNCHANGED <<journal, live, work, bounds>>
  BY DEF Step, AppendBaseline, Enter, Recover, Unlink, WriteTmp, Replace,
     CheckMaterialized, Settle, Read, Plan, Acquire, Validate, WriteJournal,
     AppendActivation, Finish, shared, bounds, Locked, Materializing

(* Calls, captures and interruptions change no shared file; only the       *)
(* holder can give up the lock with them.                                  *)
LEMMA EnvironmentFrame ==
    ASSUME NEW p \in Proc, Environment(p)
    PROVE  /\ UNCHANGED <<log, journal, live, edits>>
           /\ lock # p => UNCHANGED <<lock, work>>
  BY DEF Environment, CaptureBaseline, Call, Interrupt, shared, bounds, work

-----------------------------------------------------------------------------
(* The lock.                                                               *)

(* Only the holder of the lock is in the locked code, step by step.        *)
LEMMA StepLockInv ==
    ASSUME IInv, NEW p \in Proc, Step(p)
    PROVE  LockInv'
  <1> USE DEF LockInv, Locked, Materializing, TypeOK, PC, GoTo, Stop, Unlock,
              vars, shared, work, locals, bounds
  <1>0. TypeOK /\ LockInv /\ NoProc \notin Proc
    BY SentinelAssumption DEF IInv
  <1>1. CASE AppendBaseline(p)
    BY <1>0, <1>1 DEF AppendBaseline
  <1>2. CASE Enter(p)
    BY <1>0, <1>2 DEF Enter
  <1>3. CASE Recover(p)
    BY <1>0, <1>3 DEF Recover
  <1>4. CASE Unlink(p)
    BY <1>0, <1>4 DEF Unlink
  <1>5. CASE WriteTmp(p)
    BY <1>0, <1>5 DEF WriteTmp
  <1>6. CASE Replace(p)
    BY <1>0, <1>6 DEF Replace
  <1>7. CASE CheckMaterialized(p)
    BY <1>0, <1>7 DEF CheckMaterialized
  <1>8. CASE Settle(p)
    BY <1>0, <1>8 DEF Settle
  <1>9. CASE Read(p)
    BY <1>0, <1>9 DEF Read
  <1>10. CASE Plan(p)
    BY <1>0, <1>10 DEF Plan
  <1>11. CASE Acquire(p)
    BY <1>0, <1>11 DEF Acquire
  <1>12. CASE Validate(p)
    BY <1>0, <1>12 DEF Validate
  <1>13. CASE WriteJournal(p)
    BY <1>0, <1>13 DEF WriteJournal
  <1>14. CASE AppendActivation(p)
    BY <1>0, <1>14 DEF AppendActivation
  <1>15. CASE Finish(p)
    BY <1>0, <1>15 DEF Finish
  <1> QED
    BY <1>1, <1>2, <1>3, <1>4, <1>5, <1>6, <1>7, <1>8, <1>9, <1>10, <1>11,
       <1>12, <1>13, <1>14, <1>15 DEF Step

(* An interrupted holder gives up the lock, and a new call holds none.     *)
LEMMA EnvironmentLockInv ==
    ASSUME IInv, NEW p \in Proc, Environment(p)
    PROVE  LockInv'
  <1> USE DEF LockInv, Locked, Materializing, TypeOK, PC, GoTo, Stop, Unlock,
              shared, work
  <1>0. TypeOK /\ LockInv /\ NoProc \notin Proc
    BY SentinelAssumption DEF IInv
  <1>1. CASE \E s \in Snapshot : CaptureBaseline(p, s)
    BY <1>0, <1>1 DEF CaptureBaseline
  <1>2. CASE \E r \in Request : Call(p, r)
    BY <1>0, <1>2 DEF Call
  <1>3. CASE Interrupt(p)
    BY <1>0, <1>3 DEF Interrupt
  <1> QED
    BY <1>1, <1>2, <1>3 DEF Environment

-----------------------------------------------------------------------------
(* What processes remember.                                                *)

(* The registry keeps its entries and is not emptied.                      *)
LEMMA LogKeeps ==
    ASSUME IInv, NEW p \in Proc, Step(p)
    PROVE  /\ log # <<>> => log' # <<>>
           /\ \A i \in DOMAIN log : i \in DOMAIN log' /\ log'[i] = log[i]
           /\ (log # <<>> /\ pc[p] # "append") => log' = log
  <1>1. CASE log' = log
    BY <1>1
  <1>2. CASE log = <<>> /\ log' = <<BaselineEvent(seen[p])>> /\ pc[p] = "capture"
    BY <1>2
  <1>3. CASE pc[p] = "append" /\ log' = Append(log, plan[p])
    <2>1. log \in Seq(Event) /\ plan[p] \in Event
      BY <1>3 DEF IInv, TypeOK, LocalInv, Local
    <2> QED
      BY <1>3, <2>1
  <1> QED
    BY <1>1, <1>2, <1>3, LogChange

(* What a process planned stays a legal move from what it saw.             *)
LEMMA StepLocalInv ==
    ASSUME IInv, NEW p \in Proc, Step(p)
    PROVE  LocalInv'
  <1>0. TypeOK /\ \A q \in Proc : Local(q)
    BY DEF IInv, LocalInv
  <1>1. ASSUME NEW q \in Proc, q # p
        PROVE  Local(q)'
    <2>1. /\ pc'[q] = pc[q] /\ req'[q] = req[q] /\ seen'[q] = seen[q]
          /\ plan'[q] = plan[q]
      BY <1>0, <1>1, OthersKeepLocals
    <2>2. edits' = edits /\ (log # <<>> => log' # <<>>)
      BY LogKeeps, LiveChange DEF bounds
    <2>3. log' = <<>> => log = <<>> /\ live' = live
      <3>1. pc[p] \in {"unlink", "write", "replace"} => log # <<>>
        BY DEF IInv, HolderInv, Holder, JournalInv, Materializing
      <3> QED
        BY <2>2, <3>1, LiveChange
    <2> QED
      BY <1>0, <2>1, <2>2, <2>3 DEF Local, Authorized, LegalMove
  <1>2. Local(p)'
    <2> USE DEF Local, Materializing, GoTo, Stop, TypeOK, LegalMove, Authorized
    <2>0. TypeOK /\ Local(p)
      BY <1>0
    <2>1. CASE AppendBaseline(p)
      BY <2>0, <2>1 DEF AppendBaseline
    <2>2. CASE Enter(p)
      BY <2>0, <2>2 DEF Enter
    <2>3. CASE Recover(p)
      BY <2>0, <2>3 DEF Recover
    <2>4. CASE Unlink(p)
      BY <2>0, <2>4 DEF Unlink, locals
    <2>5. CASE WriteTmp(p)
      BY <2>0, <2>5 DEF WriteTmp
    <2>6. CASE Replace(p)
      BY <2>0, <2>6 DEF Replace
    <2>7. CASE CheckMaterialized(p)
      BY <2>0, <2>7 DEF CheckMaterialized
    <2>8. CASE Settle(p)
      BY <2>0, <2>8 DEF Settle
    <2>9. CASE Read(p)
      <3>1. log # <<>> => Active \in Snapshot
        BY <2>0, LatestType
      <3> QED
        BY <2>0, <2>9, <3>1 DEF Read, shared
    <2>10. CASE Plan(p)
      <3>1. CASE pc'[p] = "lock"
        <4>1. /\ plan'[p] = Draft(req[p], seen[p])
              /\ req[p] # Verify
              /\ Adjoins(req[p], seen[p])
              /\ UNCHANGED <<req, seen, log>>
          BY <2>0, <2>10, <3>1 DEF Plan, shared
        <4>2. LegalMove(plan'[p].previous, plan'[p])
          BY <2>0, <4>1 DEF Adjoins, Draft
        <4>3. log # <<>> /\ seen[p] \in Snapshot
          BY <2>0, <2>10 DEF Plan
        <4>4. plan'[p] # NoEvent
          BY <2>0, <4>1, <4>3, DraftType, NoEventAssumption
        <4> QED
          BY <2>0, <3>1, <4>1, <4>2, <4>3, <4>4
      <3>2. CASE pc'[p] # "lock"
        BY <2>0, <2>10, <3>2 DEF Plan, shared
      <3> QED
        BY <3>1, <3>2
    <2>11. CASE Acquire(p)
      BY <2>0, <2>11 DEF Acquire
    <2>12. CASE Validate(p)
      BY <2>0, <2>12 DEF Validate
    <2>13. CASE WriteJournal(p)
      BY <2>0, <2>13 DEF WriteJournal
    <2>14. CASE AppendActivation(p)
      <3>1. log # <<>> => log' # <<>>
        BY LogKeeps
      <3> QED
        BY <2>0, <2>14, <3>1 DEF AppendActivation
    <2>15. CASE Finish(p)
      BY <2>0, <2>15 DEF Finish
    <2> QED
      BY <2>1, <2>2, <2>3, <2>4, <2>5, <2>6, <2>7, <2>8, <2>9, <2>10, <2>11,
         <2>12, <2>13, <2>14, <2>15 DEF Step
  <1>3. \A q \in Proc : Local(q)'
    BY <1>1, <1>2
  <1> QED
    BY <1>3 DEF LocalInv

(* A new call has planned nothing and an interrupted one forgets.          *)
LEMMA EnvironmentLocalInv ==
    ASSUME IInv, NEW p \in Proc, Environment(p)
    PROVE  LocalInv'
  <1>0. TypeOK /\ \A q \in Proc : Local(q)
    BY DEF IInv, LocalInv
  <1>1. UNCHANGED <<log, live, edits>>
    BY EnvironmentFrame
  <1>2. ASSUME NEW q \in Proc, q # p
        PROVE  Local(q)'
    BY <1>0, <1>1, <1>2, OthersKeepLocals DEF Local, Authorized, LegalMove
  <1>3. Local(p)'
    <2> USE DEF Local, Materializing, GoTo, Stop, TypeOK, LegalMove, Authorized
    <2>1. ASSUME NEW s \in Snapshot, CaptureBaseline(p, s)
          PROVE  Local(p)'
      BY <1>0, <2>1 DEF CaptureBaseline, shared
    <2>2. ASSUME NEW r \in Request, Call(p, r)
          PROVE  Local(p)'
      BY <1>0, <2>2 DEF Call, shared
    <2>3. CASE Interrupt(p)
      BY <1>0, <2>3 DEF Interrupt
    <2> QED
      BY <2>1, <2>2, <2>3 DEF Environment
  <1>4. \A q \in Proc : Local(q)'
    BY <1>2, <1>3
  <1> QED
    BY <1>4 DEF LocalInv

-----------------------------------------------------------------------------
(* The journal and the lock holder.                                        *)

(* The holder is the only one inside.                                      *)
LEMMA OneHolder ==
    ASSUME IInv, NEW p \in Proc, NEW q \in Proc,
           pc[p] \in Locked, pc[q] \in Locked
    PROVE  p = q
  BY DEF IInv, LockInv

(* A journal announces a legal move from or to the active snapshot.        *)
LEMMA StepJournalInv ==
    ASSUME IInv, NEW p \in Proc, Step(p)
    PROVE  JournalInv'
  <1>0. TypeOK /\ JournalInv /\ Local(p) /\ Holder(p)
    BY DEF IInv, LocalInv, HolderInv
  <1>1. CASE journal' = journal /\ log' = log
    BY <1>0, <1>1 DEF JournalInv, Committed, Uncommitted, Latest, Active, LegalMove
  <1>2. CASE journal' = NoEvent
    BY <1>2 DEF JournalInv
  <1>3. CASE pc[p] = "journal" /\ journal' = plan[p]
    <2>1. log' = log
      BY <1>0, <1>3, LogChange DEF Local
    <2>2. /\ log # <<>>
          /\ LegalMove(plan[p].previous, plan[p])
          /\ Active = plan[p].previous
          /\ plan[p].ordinal = Len(log) + 1
      BY <1>0, <1>3 DEF Local, Holder
    <2> QED
      BY <1>3, <2>1, <2>2 DEF JournalInv, Uncommitted, Latest, Active, LegalMove
  <1>4. CASE journal' = journal /\ pc[p] = "capture" /\ log = <<>>
    BY <1>0, <1>4 DEF JournalInv
  <1>5. CASE journal' = journal /\ pc[p] = "append" /\ log' = Append(log, plan[p])
    <2>1. journal = plan[p] /\ plan[p] \in Event /\ log \in Seq(Event)
      BY <1>0, <1>5 DEF Local, Holder, Installing, TypeOK
    <2>2. log' # <<>> /\ log'[Len(log')] = plan[p]
      BY <1>5, <2>1
    <2> QED
      BY <1>0, <1>5, <2>1, <2>2 DEF JournalInv, Committed, Latest, Local, LegalMove
  <1> QED
    BY <1>1, <1>2, <1>3, <1>4, <1>5, LogChange, JournalChange

(* Each step of a switch leaves the holder's files as far as it has got.   *)
LEMMA StepHolderInv ==
    ASSUME IInv, NEW p \in Proc, Step(p)
    PROVE  HolderInv'
  <1>0. TypeOK /\ Local(p) /\ Holder(p) /\ JournalInv
    BY DEF IInv, LocalInv, HolderInv
  <1>1. ASSUME NEW q \in Proc, q # p
        PROVE  Holder(q)'
    <2>0. /\ pc'[q] = pc[q] /\ plan'[q] = plan[q]
          /\ Holder(q) /\ Local(q)
      BY <1>0, <1>1, OthersKeepLocals DEF IInv, HolderInv, LocalInv
    <2>1. CASE pc[q] \notin Locked
      BY <2>0, <2>1 DEF Holder, Locked, Materializing
    <2>2. CASE pc[q] \in Locked
      <3>1. pc[p] \notin Locked
        BY <1>1, <2>2, OneHolder
      <3>2. UNCHANGED <<journal, live, dest, edits>>
        BY <3>1, OutsideStep DEF work, bounds
      <3>3. log # <<>> => log' = log
        BY <3>1, LogKeeps DEF Locked
      <3> QED
        BY <1>0, <2>0, <2>2, <3>2, <3>3
           DEF Holder, Local, Installing, JournalInv, Latest, Active, Materializing
    <2> QED
      BY <2>1, <2>2
  <1>2. Holder(p)'
    <2> USE DEF Holder, Installing, Materializing, GoTo, Stop, TypeOK, Latest,
                Active, Local
    <2>0. TypeOK /\ Holder(p) /\ Local(p)
      BY <1>0
    <2>1. CASE AppendBaseline(p)
      BY <2>0, <2>1 DEF AppendBaseline
    <2>2. CASE Enter(p)
      BY <2>0, <2>2 DEF Enter
    <2>3. CASE Recover(p)
      <3>1. plan[p] = NoEvent
        BY <2>0, <2>3 DEF Recover
      <3>2. Committed => journal.snapshot = Active /\ Active \in Snapshot
        BY <2>0, LatestType DEF Committed
      <3>3. Uncommitted => journal.previous = Active /\ Active \in Snapshot
        BY <2>0, LatestType DEF Uncommitted
      <3> HIDE DEF Latest, Active
      <3> QED
        BY <2>0, <2>3, <3>1, <3>2, <3>3 DEF Recover, Restored, StartMaterialize, Latest, Active
    <2>4. CASE Unlink(p)
      BY <2>0, <2>4 DEF Unlink, locals, work
    <2>5. CASE WriteTmp(p)
      BY <2>0, <2>5 DEF WriteTmp, work
    <2>6. CASE Replace(p)
      BY <2>0, <2>6 DEF Replace
    <2>7. CASE CheckMaterialized(p)
      BY <2>0, <2>7 DEF CheckMaterialized, work
    <2>8. CASE Settle(p)
      BY <2>0, <2>8 DEF Settle
    <2>9. CASE Read(p)
      BY <2>0, <2>9 DEF Read
    <2>10. CASE Plan(p)
      BY <2>0, <2>10 DEF Plan
    <2>11. CASE Acquire(p)
      BY <2>0, <2>11 DEF Acquire
    <2>12. CASE Validate(p)
      BY <2>0, <2>12 DEF Validate, StillCurrent
    <2>13. CASE WriteJournal(p)
      BY <2>0, <2>13 DEF WriteJournal, StartMaterialize, Event
    <2>14. CASE AppendActivation(p)
      <3>1. CASE plan[p].ordinal = Len(log) + 1
        <4>1. log \in Seq(Event) /\ plan[p] \in Event /\ log' = Append(log, plan[p])
          BY <2>0, <2>14, <3>1 DEF AppendActivation
        <4>2. log'[Len(log')] = plan[p]
          BY <4>1
        <4> QED
          BY <2>0, <2>14, <3>1, <4>2 DEF AppendActivation, work, bounds
      <3>2. CASE plan[p].ordinal # Len(log) + 1
        BY <2>0, <2>14, <3>2 DEF AppendActivation
      <3> QED
        BY <3>1, <3>2
    <2>15. CASE Finish(p)
      BY <2>0, <2>15 DEF Finish
    <2> QED
      BY <2>1, <2>2, <2>3, <2>4, <2>5, <2>6, <2>7, <2>8, <2>9, <2>10, <2>11,
         <2>12, <2>13, <2>14, <2>15 DEF Step
  <1> QED
    BY <1>1, <1>2 DEF HolderInv

(* An interruption leaves the journal, and no holder behind it.            *)
LEMMA EnvironmentHolderInv ==
    ASSUME IInv, NEW p \in Proc, Environment(p)
    PROVE  JournalInv' /\ HolderInv'
  <1>0. TypeOK /\ JournalInv /\ UNCHANGED <<log, journal, live, edits>>
    BY EnvironmentFrame DEF IInv
  <1>1. JournalInv'
    BY <1>0 DEF JournalInv, Committed, Uncommitted, Latest, Active, LegalMove
  <1>2. ASSUME NEW q \in Proc, q # p
        PROVE  Holder(q)'
    <2>1. pc'[q] = pc[q] /\ plan'[q] = plan[q] /\ Holder(q)
      BY <1>0, <1>2, OthersKeepLocals DEF IInv, HolderInv
    <2>2. pc[q] \in Locked => dest' = dest
      BY <1>2, EnvironmentFrame DEF IInv, LockInv, work
    <2> QED
      BY <1>0, <2>1, <2>2
         DEF Holder, Installing, Latest, Active, Locked, Materializing
  <1>3. pc'[p] \in {"capture", "enter", "idle"}
    BY <1>0 DEF Environment, CaptureBaseline, Call, Interrupt, GoTo, Stop, TypeOK
  <1>4. Holder(p)'
    BY <1>3 DEF Holder, Materializing
  <1> QED
    BY <1>1, <1>2, <1>4 DEF HolderInv

-----------------------------------------------------------------------------
(* The invariants the runs check.                                          *)

(* Without a journal the files of the active snapshot are live.            *)
LEMMA StepLiveIsActive ==
    ASSUME IInv, NEW p \in Proc, Step(p)
    PROVE  LiveIsActive'
  <1>0. TypeOK /\ LiveIsActive /\ JournalInv /\ Local(p) /\ Holder(p) /\ edits' = edits
    BY LiveChange DEF IInv, LocalInv, HolderInv, bounds
  <1> SUFFICES ASSUME edits' = 0, journal' = NoEvent, log' # <<>>
               PROVE  live' = FileTree(Active)'
    BY DEF LiveIsActive
  <1>1. CASE journal = NoEvent /\ log # <<>>
    <2>1. pc[p] \notin {"unlink", "write", "replace", "append"}
      BY <1>0, <1>1 DEF Holder, Materializing
    <2>2. live' = live /\ log' = log
      BY <1>1, <2>1, LiveChange, LogKeeps
    <2> QED
      BY <1>0, <1>1, <2>2 DEF LiveIsActive, Active, Latest, FileTree
  <1>2. CASE journal = NoEvent /\ log = <<>>
    <2>1. pc[p] \notin {"unlink", "write", "replace", "append"}
      BY <1>0, <1>2 DEF Holder, Materializing
    <2>2. pc[p] = "capture" /\ log' = <<BaselineEvent(seen[p])>> /\ live' = live
      BY <1>2, <2>1, LiveChange, LogChange
    <2>3. live = FileTree(seen[p])
      BY <1>0, <1>2, <2>2 DEF Local
    <2>4. Active' = seen[p]
      BY <2>2 DEF Active, Latest, BaselineEvent
    <2> QED
      BY <2>2, <2>3, <2>4 DEF FileTree
  <1>3. CASE journal # NoEvent
    <2>1. pc[p] \in {"settle", "finish"}
      BY <1>3, <1>0, JournalChange DEF Local
    <2>2. live' = live /\ log' = log
      BY <1>0, <1>3, <2>1, LiveChange, LogKeeps DEF JournalInv
    <2>3. live = FileTree(dest)
      BY <1>0, <2>1 DEF Holder
    <2>4. dest = Active
      BY <1>0, <2>1 DEF Holder, Local, Active, Materializing
    <2> QED
      BY <2>2, <2>3, <2>4 DEF Active, Latest, FileTree
  <1> QED
    BY <1>1, <1>2, <1>3

(* The one append of an activation extends the chain.                      *)
LEMMA StepHistoryIsChain ==
    ASSUME IInv, NEW p \in Proc, Step(p)
    PROVE  HistoryIsChain'
  <1>0. TypeOK /\ HistoryIsChain /\ Local(p) /\ Holder(p)
    BY DEF IInv, LocalInv, HolderInv
  <1>1. CASE log' = log
    BY <1>0, <1>1 DEF HistoryIsChain, LegalMove
  <1>2. CASE log' = <<BaselineEvent(seen[p])>>
    BY <1>2 DEF HistoryIsChain, BaselineEvent
  <1>3. CASE pc[p] = "append" /\ log' = Append(log, plan[p])
    <2> DEFINE n == Len(log)
    <2>1. /\ log \in Seq(Event) /\ n \in Nat \ {0}
          /\ plan[p] \in Event
          /\ LegalMove(log[n].snapshot, plan[p])
          /\ plan[p].ordinal = n + 1
      BY <1>0, <1>3, LatestType DEF Local, Holder, Installing, TypeOK, Active, Latest
    <2>2. /\ DOMAIN log' = 1..(n + 1)
          /\ \A i \in 1..n : log'[i] = log[i]
          /\ log'[n + 1] = plan[p]
      BY <1>3, <2>1
    <2> SUFFICES ASSUME NEW i \in 1..(n + 1)
                 PROVE  /\ log'[i].ordinal = i
                        /\ IF i = 1 THEN log'[i].action = "baseline"
                                    ELSE LegalMove(log'[i - 1].snapshot, log'[i])
      BY <2>2 DEF HistoryIsChain, LegalMove
    <2>3. CASE i = n + 1
      BY <2>1, <2>2, <2>3
    <2>4. CASE i \in 1..n
      <3>1. i # 1 => i - 1 \in 1..n
        BY <2>1, <2>4
      <3>2. /\ log[i].ordinal = i
            /\ IF i = 1 THEN log[i].action = "baseline"
                        ELSE LegalMove(log[i - 1].snapshot, log[i])
        BY <1>0, <2>1, <2>4 DEF HistoryIsChain
      <3> QED
        BY <2>2, <2>4, <3>1, <3>2
    <2> QED
      BY <2>1, <2>3, <2>4
  <1> QED
    BY <1>1, <1>2, <1>3, LogChange

(* A call answers with what is registered.                                 *)
LEMMA StepAnswerIsRegistered ==
    ASSUME IInv, NEW p \in Proc, Step(p)
    PROVE  AnswerIsRegistered'
  <1>0. TypeOK /\ AnswerIsRegistered /\ Local(p) /\ Holder(p)
    BY DEF IInv, LocalInv, HolderInv
  <1>1. ASSUME NEW q \in Proc, answer'[q] = answer[q], answer'[q] # NoEvent
        PROVE  \E i \in DOMAIN log' : log'[i] = answer'[q]
    BY <1>0, <1>1, LogKeeps DEF AnswerIsRegistered
  <1>2. CASE pc[p] \notin {"capture", "plan", "finish"}
    <2>1. answer'[p] \in {NoEvent, answer[p]}
      BY <1>0, <1>2 DEF Step, AppendBaseline, Enter, Recover, Unlink, WriteTmp,
         Replace, CheckMaterialized, Settle, Read, Plan, Acquire, Validate,
         WriteJournal, AppendActivation, Finish, Stop, TypeOK, locals
    <2> QED
      BY <1>0, <1>1, <2>1, OthersKeepLocals DEF AnswerIsRegistered
  <1>3. CASE pc[p] = "capture"
    <2>1. AppendBaseline(p)
      BY <1>3 DEF Step, AppendBaseline, Enter, Recover, Unlink, WriteTmp,
         Replace, CheckMaterialized, Settle, Read, Plan, Acquire, Validate,
         WriteJournal, AppendActivation, Finish
    <2>2. answer'[p] # NoEvent =>
             log' = <<BaselineEvent(seen[p])>> /\ answer'[p] = BaselineEvent(seen[p])
      BY <1>0, <2>1 DEF AppendBaseline, Stop, TypeOK
    <2>3. answer'[p] # NoEvent => \E i \in DOMAIN log' : log'[i] = answer'[p]
      BY <2>2
    <2> QED
      BY <1>0, <1>1, <2>3, OthersKeepLocals DEF AnswerIsRegistered
  <1>4. CASE pc[p] = "plan"
    <2>1. Plan(p)
      BY <1>4 DEF Step, AppendBaseline, Enter, Recover, Unlink, WriteTmp,
         Replace, CheckMaterialized, Settle, Read, Plan, Acquire, Validate,
         WriteJournal, AppendActivation, Finish
    <2>2. answer'[p] \in {NoEvent, answer[p], Latest} /\ log' = log /\ log # <<>>
      BY <1>0, <1>4, <2>1 DEF Plan, Stop, TypeOK, shared, Local
    <2>3. Len(log) \in DOMAIN log
      BY <1>0, <2>2, LatestType
    <2>4. answer'[p] # NoEvent => \E i \in DOMAIN log' : log'[i] = answer'[p]
      BY <1>0, <2>2, <2>3 DEF Latest, AnswerIsRegistered
    <2> QED
      BY <1>0, <1>1, <2>4, OthersKeepLocals DEF AnswerIsRegistered
  <1>5. CASE pc[p] = "finish"
    <2>1. Finish(p)
      BY <1>5 DEF Step, AppendBaseline, Enter, Recover, Unlink, WriteTmp,
         Replace, CheckMaterialized, Settle, Read, Plan, Acquire, Validate,
         WriteJournal, AppendActivation, Finish
    <2>2. answer'[p] = plan[p] /\ log' = log /\ Latest = plan[p] /\ log # <<>>
      BY <1>0, <2>1 DEF Finish, Stop, TypeOK, Holder, Local
    <2>3. Len(log) \in DOMAIN log
      BY <1>0, <2>2, LatestType
    <2>4. \E i \in DOMAIN log' : log'[i] = answer'[p]
      BY <2>2, <2>3 DEF Latest
    <2> QED
      BY <1>0, <1>1, <2>4, OthersKeepLocals DEF AnswerIsRegistered
  <1> QED
    BY <1>2, <1>3, <1>4, <1>5

(* The invariant holds of an empty registry.                               *)
LEMMA InitIInv == Init => IInv
  <1> SUFFICES ASSUME Init PROVE IInv
    OBVIOUS
  <1>1. TypeOK
    BY FileTreeType, BoundAssumption
       DEF Init, TypeOK, Request, PC, Locked, Materializing
  <1>2. LockInv
    BY SentinelAssumption DEF Init, LockInv, Locked, Materializing
  <1>3. LocalInv /\ HolderInv
    BY DEF Init, LocalInv, Local, HolderInv, Holder, Materializing
  <1>4. JournalInv /\ LiveIsActive /\ HistoryIsChain /\ AnswerIsRegistered
    BY DEF Init, JournalInv, LiveIsActive, HistoryIsChain, AnswerIsRegistered
  <1> QED
    BY <1>1, <1>2, <1>3, <1>4 DEF IInv

(* Each step of a call keeps the invariant.                                *)
LEMMA StepIInv ==
    ASSUME IInv, NEW p \in Proc, Step(p)
    PROVE  IInv'
  BY StepTypeOK, StepLockInv, StepLocalInv, StepJournalInv, StepHolderInv,
     StepLiveIsActive, StepHistoryIsChain, StepAnswerIsRegistered DEF IInv

(* Calls, captures and interruptions keep the invariant.                   *)
LEMMA EnvironmentIInv ==
    ASSUME IInv, NEW p \in Proc, Environment(p)
    PROVE  IInv'
  <1>0. TypeOK /\ UNCHANGED <<log, journal, live, edits>>
    BY EnvironmentFrame DEF IInv
  <1>1. LiveIsActive' /\ HistoryIsChain'
    BY <1>0 DEF IInv, LiveIsActive, HistoryIsChain, Active, Latest, LegalMove, FileTree
  <1>2. AnswerIsRegistered'
    <2>1. answer'[p] = NoEvent
      BY <1>0 DEF Environment, CaptureBaseline, Call, Interrupt, Stop, TypeOK
    <2> QED
      BY <1>0, <2>1, OthersKeepLocals DEF IInv, AnswerIsRegistered
  <1> QED
    BY <1>1, <1>2, EnvironmentTypeOK, EnvironmentLockInv, EnvironmentLocalInv,
       EnvironmentHolderInv DEF IInv

(* After an edit nothing is claimed of the live files any more.            *)
LEMMA EditIInv ==
    ASSUME IInv, NEW x \in Path, NEW c \in Content \cup {Absent}, Edit(x, c)
    PROVE  IInv'
  <1>1. UNCHANGED <<log, journal, lock, work, locals>> /\ edits' # 0
    BY DEF IInv, TypeOK, Edit
  <1>2. LockInv' /\ LocalInv' /\ JournalInv' /\ HolderInv'
    BY <1>1 DEF IInv, LockInv, LocalInv, Local, JournalInv, HolderInv, Holder,
       Installing, Committed, Uncommitted, Active, Latest, LegalMove, Authorized,
       work, locals
  <1>3. LiveIsActive' /\ HistoryIsChain' /\ AnswerIsRegistered'
    BY <1>1 DEF IInv, LiveIsActive, HistoryIsChain, AnswerIsRegistered, LegalMove,
       locals
  <1> QED
    BY <1>2, <1>3, EditTypeOK DEF IInv

(* A stuttering step keeps the invariant.                                  *)
LEMMA StutterIInv == IInv /\ UNCHANGED vars => IInv'
  BY DEF IInv, TypeOK, LockInv, LocalInv, Local, JournalInv, HolderInv, Holder,
     LiveIsActive, HistoryIsChain, AnswerIsRegistered, Installing, Committed,
     Uncommitted, Active, Latest, LegalMove, Authorized, FileTree,
     vars, shared, work, locals, bounds

(* A step is a call's, its environment's or a person's.                    *)
LEMMA NextCases ==
    ASSUME Next
    PROVE  \/ \E p \in Proc : Step(p) \/ Environment(p)
           \/ \E x \in Path, c \in Content \cup {Absent} : Edit(x, c)
  BY DEF Next, Environment

(* The invariant is inductive.                                             *)
LEMMA NextIInv == IInv /\ [Next]_vars => IInv'
  BY NextCases, StepIInv, EnvironmentIInv, EditIInv, StutterIInv

(* IInv holds for ever, whatever the number of processes and snapshots and *)
(* whichever calls race, fail or are repeated.                             *)
THEOREM Invariance == Spec => []IInv
  BY InitIInv, NextIInv, PTL DEF Spec

(* The state is well-typed: in particular every registered activation, the *)
(* journal and every answer are complete activation records.               *)
THEOREM TypeCorrect == Spec => []TypeOK
  BY Invariance, PTL DEF IInv

(* The registry is one chain of legal promotions and rollbacks from a      *)
(* baseline (_activate_transaction's recheck under the lock).              *)
THEOREM RegistryIsChain == Spec => []HistoryIsChain
  BY Invariance, PTL DEF IInv

(* Recovery of a pending activation never finds a conflict with history    *)
(* (_recover_activation_locked).                                           *)
THEOREM JournalAlwaysReconciles == Spec => []JournalReconciles
  <1>1. IInv => JournalReconciles
    BY DEF IInv, JournalInv, JournalReconciles
  <1> QED
    BY <1>1, Invariance, PTL

(* Without a pending journal and without edits by people the live harness  *)
(* is the active snapshot (_activate_locked, _recover_activation_locked).  *)
THEOREM LiveHarnessIsActive == Spec => []LiveIsActive
  BY Invariance, PTL DEF IInv

(* An activation that promote or rollback returned is registered.          *)
THEOREM AnswersAreRegistered == Spec => []AnswerIsRegistered
  BY Invariance, PTL DEF IInv

-----------------------------------------------------------------------------
(* The action properties.                                                  *)

(* An activation is registered only after its bytes are live               *)
(* (_materialize_live before _append_activation).                          *)
THEOREM InstalledBeforeRegistered == Spec => RegisteredWhenInstalled
  <1> DEFINE A == (log' # log /\ edits = 0) =>
                     live' = FileTree(log'[Len(log')].snapshot)
  <1>1. ASSUME IInv, Next PROVE A
    <2>1. CASE \E p \in Proc : Environment(p)
      BY <2>1, EnvironmentFrame
    <2>2. CASE \E x \in Path, c \in Content \cup {Absent} : Edit(x, c)
      BY <2>2 DEF Edit
    <2>3. ASSUME NEW p \in Proc, Step(p), log' # log, edits = 0
          PROVE  live' = FileTree(log'[Len(log')].snapshot)
      <3>0. TypeOK /\ Local(p) /\ Holder(p)
        BY <1>1 DEF IInv, LocalInv, HolderInv
      <3>1. live' = live
        BY <2>3, LiveChange
      <3>2. CASE pc[p] = "capture" /\ log = <<>> /\ log' = <<BaselineEvent(seen[p])>>
        BY <2>3, <3>0, <3>1, <3>2 DEF Local, BaselineEvent
      <3>3. CASE pc[p] = "append" /\ log' = Append(log, plan[p])
        <4>1. live = FileTree(plan[p].snapshot)
          BY <2>3, <3>0, <3>3 DEF Holder, Installing, Local
        <4>2. log'[Len(log')] = plan[p]
          BY <3>0, <3>3 DEF TypeOK, Local
        <4> QED
          BY <3>1, <4>1, <4>2
      <3> QED
        BY <2>3, <3>2, <3>3, LogChange
    <2> QED
      BY <1>1, <2>1, <2>2, <2>3, NextCases
  <1>2. IInv /\ [Next]_vars => [A]_vars
    BY <1>1
  <1> QED
    BY <1>2, Invariance, PTL DEF Spec, RegisteredWhenInstalled

(* The manager changes live files only under a journal that can repair     *)
(* them (_activate_locked, _recover_activation_locked).                    *)
THEOREM LiveProtectedByJournal == Spec => LiveChangesUnderJournal
  <1> DEFINE A == (live' # live /\ edits' = edits) =>
                     (journal # NoEvent /\ journal' = journal)
  <1>1. ASSUME IInv, Next PROVE A
    <2>1. CASE \E p \in Proc : Environment(p)
      BY <2>1, EnvironmentFrame
    <2>2. CASE \E x \in Path, c \in Content \cup {Absent} : Edit(x, c)
      BY <1>1, <2>2 DEF Edit, IInv, TypeOK
    <2>3. ASSUME NEW p \in Proc, Step(p) PROVE A
      <3>1. live' # live => pc[p] \in {"unlink", "write", "replace"} /\ journal' = journal
        BY <2>3, LiveChange
      <3>2. pc[p] \in {"unlink", "write", "replace"} => journal # NoEvent
        BY <1>1 DEF IInv, HolderInv, Holder, Materializing
      <3> QED
        BY <3>1, <3>2
    <2> QED
      BY <1>1, <2>1, <2>2, <2>3, NextCases
  <1>2. IInv /\ [Next]_vars => [A]_vars
    BY <1>1
  <1> QED
    BY <1>2, Invariance, PTL DEF Spec, LiveChangesUnderJournal

(* Only the check under the lock leads a call to its journal, and it does  *)
(* not let pass a harness/ that differs from the active snapshot.          *)
LEMMA PastCheckChange ==
    ASSUME TypeOK, NEW p \in Proc, Step(p), ~PastCheck, PastCheck'
    PROVE  live = FileTree(Active)
  <1>1. PICK q \in Proc : pc'[q] = "journal"
    BY DEF PastCheck
  <1>2. pc[q] # "journal"
    BY DEF PastCheck
  <1>3. q = p
    BY <1>1, <1>2, OthersKeepLocals
  <1>4. Validate(p)
    <2>1. pc'[p] = "journal" /\ pc \in [Proc -> PC]
      BY <1>1, <1>3 DEF TypeOK
    <2> SUFFICES ASSUME ~Validate(p) PROVE FALSE
      OBVIOUS
    <2>2. ~AppendBaseline(p) /\ ~Finish(p) /\ ~AppendActivation(p)
      BY ONLY <2>1 DEF AppendBaseline, Finish, AppendActivation, GoTo, Stop
    <2>3. ~Enter(p)
      BY ONLY <2>1 DEF Enter, GoTo, Stop
    <2>4. ~Recover(p)
      BY ONLY <2>1 DEF Recover, GoTo, Stop
    <2>5. ~Unlink(p)
      <3>1. Unlink(p) => GoTo(p, "write") \/ Stop(p, NoEvent) \/ UNCHANGED pc
        BY Zenon DEF Unlink, locals
      <3>2. ~GoTo(p, "write") /\ ~Stop(p, NoEvent)
        BY ONLY <2>1 DEF GoTo, Stop
      <3> QED
        BY <1>1, <1>2, <1>3, <3>1, <3>2
    <2>6. ~WriteTmp(p) /\ ~Replace(p) /\ ~Settle(p)
      BY ONLY <2>1 DEF WriteTmp, Replace, Settle, GoTo
    <2>7. ~CheckMaterialized(p)
      BY ONLY <2>1 DEF CheckMaterialized, GoTo, Stop
    <2>8. ~Read(p)
      BY ONLY <2>1 DEF Read, GoTo, Stop
    <2>9. ~Plan(p)
      BY ONLY <2>1 DEF Plan, GoTo, Stop
    <2>10. ~Acquire(p)
      BY ONLY <2>1 DEF Acquire, GoTo, Stop
    <2>11. ~WriteJournal(p)
      BY ONLY <2>1 DEF WriteJournal, GoTo, Stop
    <2> QED
      BY <2>2, <2>3, <2>4, <2>5, <2>6, <2>7, <2>8, <2>9, <2>10, <2>11 DEF Step
  <1>5. StillCurrent(plan[p])
    BY <1>1, <1>3, <1>4 DEF TypeOK, Validate, Stop, GoTo
  <1> QED
    BY <1>5 DEF StillCurrent

(* A person's edit stays until the person takes it back, unless it fell    *)
(* between the check under the lock and the journal (manager.py:625-643)   *)
(* or a journal was pending: for any number of processes, edits and        *)
(* interruptions.                                                          *)
THEOREM EditsAreKept == Spec => EditIsKept
  <1> DEFINE A == Tampered /\ ~PastCheck =>
                     /\ ~PastCheck' /\ journal' = NoEvent
                     /\ live' = live \/ edits' # edits
  <1>1. ASSUME IInv, Next, Tampered, ~PastCheck
        PROVE  /\ ~PastCheck' /\ journal' = NoEvent
               /\ live' = live \/ edits' # edits
    <2>1. ASSUME NEW p \in Proc, Environment(p) PROVE A
      <3>1. UNCHANGED <<journal, live>>
        BY <2>1, EnvironmentFrame
      <3>2. ASSUME NEW q \in Proc PROVE pc'[q] # "journal"
        <4>1. pc[q] # "journal"
          BY <1>1 DEF PastCheck
        <4>2. CASE q # p
          BY <1>1, <2>1, <4>1, <4>2, OthersKeepLocals DEF IInv
        <4>3. CASE q = p
          BY <1>1, <2>1, <4>3 DEF IInv, TypeOK, Environment, CaptureBaseline, Call, Interrupt,
                                  GoTo, Stop
        <4> QED
          BY <4>2, <4>3
      <3> QED
        BY <1>1, <3>1, <3>2 DEF Tampered, PastCheck
    <2>2. ASSUME NEW x \in Path, NEW c \in Content \cup {Absent}, Edit(x, c) PROVE A
      <3>1. edits' = edits + 1 /\ UNCHANGED <<journal, pc>> /\ edits \in Nat
        BY <1>1, <2>2 DEF Edit, locals, IInv, TypeOK
      <3> QED
        BY <1>1, <3>1 DEF Tampered, PastCheck
    <2>3. ASSUME NEW p \in Proc, Step(p) PROVE A
      <3>1. ~PastCheck'
        BY <1>1, <2>3, PastCheckChange DEF Tampered, IInv
      <3>2. journal' = NoEvent
        BY <1>1, <2>3, JournalChange DEF Tampered, PastCheck
      <3>3. live' = live
        <4>1. pc[p] \in {"unlink", "write", "replace"} => journal # NoEvent
          BY <1>1 DEF IInv, HolderInv, Holder, Materializing
        <4> QED
          BY <1>1, <2>3, <4>1, LiveChange DEF Tampered
      <3> QED
        BY <3>1, <3>2, <3>3
    <2> QED
      BY <1>1, <2>1, <2>2, <2>3, NextCases
  <1>2. IInv /\ [Next]_vars => [A]_vars
    BY <1>1
  <1> QED
    BY <1>2, Invariance, PTL DEF Spec, EditIsKept

-----------------------------------------------------------------------------
(* The refinement.  Until somebody edits harness/ the manager implements   *)
(* HarnessDeployment: each step is one of its steps or a stutter.          *)

(* The abstract state, as the refinement mapping defines it.               *)
history == [i \in DOMAIN log |-> log[i].snapshot]
pending == IF journal = NoEvent THEN NoSnapshot ELSE journal.snapshot
serving == IF journal = NoEvent /\ log # <<>> /\ live = FileTree(Active)
              THEN Active ELSE Mixed

(* The mapped variables change only with the registry, the journal or an   *)
(* unprotected live tree.                                                  *)
LEMMA MappingStable ==
    ASSUME UNCHANGED <<log, journal>>, live' = live \/ journal # NoEvent
    PROVE  UNCHANGED <<history, pending, serving>>
  BY DEF history, pending, serving, Active, Latest, FileTree

(* The current snapshot of the mapped history is the active one.           *)
LEMMA CurrentIsActive ==
    ASSUME TypeOK, log # <<>>
    PROVE  /\ history # <<>>
           /\ history[Len(history)] = Active
           /\ history \in Seq(Snapshot)
           /\ Len(history) = Len(log)
  <1>1. log \in Seq(Event) /\ Len(log) \in Nat \ {0}
    BY LatestType DEF TypeOK
  <1>2. history \in Seq(Snapshot) /\ Len(history) = Len(log)
    <2>1. DOMAIN log = 1..Len(log) /\ \A i \in 1..Len(log) : log[i].snapshot \in Snapshot
      <3>1. DOMAIN log = 1..Len(log)
        BY <1>1
      <3>2. \A e \in Event : e.snapshot \in Snapshot
        BY DEF Event
      <3>3. \A i \in 1..Len(log) : log[i] \in Event
        BY <1>1
      <3> QED
        BY <3>1, <3>2, <3>3
    <2>2. history \in [1..Len(log) -> Snapshot]
      BY <2>1 DEF history
    <2> QED
      BY <1>1, <2>2
  <1>3. history[Len(log)] = Active
    BY <1>1 DEF history, Active, Latest
  <1> QED
    BY <1>1, <1>2, <1>3

(* Each step of a call is a step of the abstract manager or a stutter.     *)
LEMMA MappedStep ==
    ASSUME IInv, IInv', NEW p \in Proc, Step(p), edits' = 0
    PROVE  [Deployment!Next]_(Deployment!vars)
  <1> USE DEF Deployment!Next, Deployment!vars, Deployment!Register,
              Deployment!Announce, Deployment!Commit, Deployment!Settle,
              Deployment!Current, Deployment!Adjacent
  <1>0. /\ TypeOK /\ TypeOK' /\ Local(p) /\ Holder(p) /\ JournalInv
        /\ LiveIsActive'
    BY DEF IInv, LocalInv, HolderInv
  <1>1. CASE UNCHANGED <<log, journal>>
    <2>1. live' = live \/ journal # NoEvent
      BY <1>0, LiveChange DEF Holder, Materializing
    <2> QED
      BY <1>1, <2>1, MappingStable DEF history, pending, serving
  <1>2. CASE pc[p] = "capture" /\ log = <<>> /\ log' = <<BaselineEvent(seen[p])>>
    <2>1. journal = NoEvent /\ journal' = NoEvent
      BY <1>0, <1>2, JournalChange DEF JournalInv
    <2>2. seen[p] \in Snapshot /\ Parent[seen[p]] = NoSnapshot
      BY <1>0, <1>2 DEF Local
    <2>3. log'[1].snapshot = seen[p] /\ Len(log') = 1 /\ DOMAIN log' = {1}
      BY <1>2 DEF BaselineEvent
    <2>4. history = <<>> /\ history' = <<seen[p]>>
      BY <1>2, <2>3 DEF history
    <2>5. serving' = seen[p]
      BY <1>0, <1>2, <2>1, <2>3 DEF serving, LiveIsActive, Active, Latest
    <2>6. pending' = pending
      BY <2>1 DEF pending
    <2> QED
      BY <2>2, <2>4, <2>5, <2>6 DEF history, pending, serving
  <1>3. CASE pc[p] = "append" /\ log' = Append(log, plan[p])
    <2>1. /\ journal = plan[p] /\ journal # NoEvent /\ journal' = journal
          /\ journal \in Event /\ log # <<>>
          /\ LegalMove(Active, journal)
      BY <1>0, <1>3, JournalChange DEF Local, Holder, Installing, TypeOK
    <2>2. pending = journal.snapshot /\ pending' = pending /\ pending \in Snapshot
      BY <2>1 DEF pending, Event
    <2>3. pending # Active /\ pending # NoSnapshot
      BY <1>0, <2>1, <2>2, StoreAssumption, SentinelAssumption, LatestType DEF LegalMove
    <2>4. history' = Append(history, pending)
      <3>1. log \in Seq(Event) /\ log' = Append(log, journal)
        BY <1>0, <1>3, <2>1 DEF TypeOK
      <3> QED
        BY <2>2, <3>1 DEF history, Event
    <2>5. serving' = serving
      BY <2>1 DEF serving
    <2> QED
      BY <1>0, <2>1, <2>2, <2>3, <2>4, <2>5, CurrentIsActive
         DEF history, pending, serving
  <1>4. CASE pc[p] = "journal" /\ journal = NoEvent /\ journal' = plan[p]
    <2>1. /\ log' = log /\ log # <<>>
          /\ plan[p] \in Event /\ plan[p] # NoEvent
          /\ LegalMove(Active, plan[p])
      BY <1>0, <1>4, LogKeeps DEF Local, Holder, TypeOK
    <2>2. pending = NoSnapshot /\ pending' = plan[p].snapshot
      BY <1>4, <2>1 DEF pending
    <2>3. serving' = Mixed /\ history' = history
      BY <1>4, <2>1 DEF serving, history
    <2>4. plan[p].snapshot \in Snapshot
      BY <2>1 DEF Event
    <2>5. Parent[plan[p].snapshot] = Active \/ Parent[Active] = plan[p].snapshot
      BY <2>1 DEF LegalMove
    <2> QED
      BY <1>0, <2>1, <2>2, <2>3, <2>4, <2>5, CurrentIsActive
         DEF history, pending, serving
  <1>5. CASE pc[p] \in {"settle", "finish"} /\ journal' = NoEvent
    <2>1. journal # NoEvent /\ journal \in Event /\ log # <<>> /\ log' = log
      BY <1>0, <1>5, LogKeeps DEF Holder, JournalInv, TypeOK
    <2>2. pending # NoSnapshot /\ pending' = NoSnapshot
      BY <1>5, <2>1, SentinelAssumption DEF pending, Event
    <2>3. history' = history
      BY <2>1 DEF history
    <2>4. serving' = Active
      BY <1>0, <1>5, <2>1 DEF serving, LiveIsActive, Active, Latest
    <2> QED
      BY <1>0, <2>1, <2>2, <2>3, <2>4, CurrentIsActive DEF history, pending, serving
  <1>6. pc[p] \in {"append", "capture"} => journal' = journal
    BY JournalChange
  <1>7. pc[p] \in {"journal", "settle", "finish"} => log' = log
    BY LogChange
  <1> QED
    BY <1>1, <1>2, <1>3, <1>4, <1>5, <1>6, <1>7, LogChange, JournalChange

(* Until the first edit by a person SnapshotManager implements the         *)
(* abstract deployment: one announced switch at a time, committed at most  *)
(* once, and a live harness that is the last registered snapshot in        *)
(* between (manager.py:612-646, 665-692).                                  *)
THEOREM Refinement == Spec => ImplementsDeployment
  <1>1. Init => Deployment!Init
    BY DEF Init, Deployment!Init
  <1>2. ASSUME IInv, IInv', [Next]_vars, edits' = 0
        PROVE  [Deployment!Next]_(Deployment!vars)
    <2>1. CASE UNCHANGED vars
      <3>1. UNCHANGED <<log, journal, live>>
        BY <2>1 DEF vars, shared
      <3> QED
        BY <3>1, MappingStable DEF Deployment!vars, history, pending, serving
    <2>2. CASE \E p \in Proc : Environment(p)
      <3>1. UNCHANGED <<log, journal, live>>
        BY <2>2, EnvironmentFrame
      <3> QED
        BY <3>1, MappingStable DEF Deployment!vars, history, pending, serving
    <2>3. CASE \E x \in Path, c \in Content \cup {Absent} : Edit(x, c)
      BY <1>2, <2>3 DEF Edit, IInv, TypeOK
    <2>4. CASE \E p \in Proc : Step(p)
      BY <1>2, <2>4, MappedStep
    <2> QED
      BY <1>2, <2>1, <2>2, <2>3, <2>4, NextCases
  <1>3. IInv /\ IInv' /\ [Next]_vars =>
           [edits' = 0 => [Deployment!Next]_(Deployment!vars)]_vars
    BY <1>2
  <1> QED
    BY <1>1, <1>3, Invariance, PTL DEF Spec, ImplementsDeployment

-----------------------------------------------------------------------------
(* The commands.                                                           *)

Moves == {"promote", "rollback"}

(* A command asks the manager for a promotion or a rollback, and takes     *)
(* nothing but such an activation for its answer.                          *)
Command(p) ==
    /\ cmd[p] = "call" /\ pc[p] # "idle" => pc[p] # "capture" /\ req[p].action \in Moves
    /\ cmd[p] # "none" /\ answer[p] # NoEvent => answer[p].action \in Moves
    /\ cmd[p] \in {"load", "append"} => pc[p] = "idle" /\ answer[p] # NoEvent

CommandInv ==
    /\ status \in [Child -> Status]
    /\ cmd \in [Proc -> {"none", "call", "load", "append"}]
    /\ \A p \in Proc : Command(p)

CInv == IInv /\ CommandInv /\ LifecycleFollowsActivation

-----------------------------------------------------------------------------
(* The manager's part.                                                     *)

(* The process of a command dies outside the manager.                      *)
LEMMA IdleInterruptIInv ==
    ASSUME IInv, interrupts < MaxInterrupts, interrupts' = interrupts + 1,
           UNCHANGED <<shared, work, locals, edits>>
    PROVE  IInv'
  <1>1. interrupts' \in 0..MaxInterrupts
    BY BoundAssumption DEF IInv, TypeOK
  <1> QED
    BY <1>1 DEF IInv, TypeOK, LockInv, LocalInv, Local, JournalInv, HolderInv, Holder,
       LiveIsActive, HistoryIsChain, AnswerIsRegistered, Installing, Committed,
       Uncommitted, Active, Latest, LegalMove, Authorized, FileTree,
       shared, work, locals

(* A step of a command is one of the manager, or of nobody.                *)
LEMMA CommandIInv ==
    ASSUME IInv, [CNext]_cvars
    PROVE  IInv'
  <1>1. CASE UNCHANGED cvars
    BY <1>1, StutterIInv DEF cvars
  <1>2. CASE \E p \in Proc : InterruptCommand(p)
    BY <1>2, IdleInterruptIInv DEF InterruptCommand
  <1>3. ASSUME NEW x \in Path, NEW c \in Content \cup {Absent}, EditLive(x, c)
        PROVE  IInv'
    <2>1. [Next]_vars
      BY <1>3 DEF EditLive, Next
    <2> QED
      BY <2>1, NextIInv
  <1>4. ASSUME NEW p \in Proc,
               \/ \E r \in Approval : Promote(p, r) \/ Rollback(p, r)
               \/ VerifyLive(p) \/ (\E s \in Snapshot : Capture(p, s)) \/ Manage(p)
               \/ Returned(p) \/ LoadCandidate(p) \/ AppendEvent(p) \/ InterruptManager(p)
        PROVE  IInv'
    <2>1. [Next]_vars
      BY <1>4 DEF Promote, Rollback, VerifyLive, Capture, Manage, Returned,
         LoadCandidate, AppendEvent, InterruptManager, Next, Request
    <2> QED
      BY <2>1, NextIInv
  <1> QED
    BY <1>1, <1>2, <1>3, <1>4 DEF CNext

(* The registry only grows.                                                *)
LEMMA LogGrows ==
    ASSUME TypeOK, [CNext]_cvars
    PROVE  \A i \in DOMAIN log : i \in DOMAIN log' /\ log'[i] = log[i]
  <1>0. log \in Seq(Event)
    BY DEF TypeOK
  <1>1. ASSUME NEW p \in Proc, Manage(p)
        PROVE  \A i \in DOMAIN log : i \in DOMAIN log' /\ log'[i] = log[i]
    <2>1. Step(p)
      BY <1>1 DEF Manage
    <2>2. CASE log' = Append(log, plan[p])
      BY <1>0, <2>2
    <2> QED
      BY <1>0, <2>1, <2>2, LogChange
  <1>2. ASSUME NEW p \in Proc,
               \/ \E r \in Approval : Promote(p, r) \/ Rollback(p, r)
               \/ VerifyLive(p) \/ (\E s \in Snapshot : Capture(p, s))
        PROVE  log' = log
    BY <1>2 DEF Promote, Rollback, VerifyLive, Capture, Call, CaptureBaseline, shared
  <1>3. ASSUME NEW p \in Proc, Returned(p) \/ LoadCandidate(p) \/ AppendEvent(p)
        PROVE  log' = log
    BY <1>3 DEF Returned, LoadCandidate, AppendEvent, vars, shared
  <1>4. ASSUME NEW p \in Proc, InterruptManager(p) \/ InterruptCommand(p)
        PROVE  log' = log
    BY <1>4 DEF InterruptManager, InterruptCommand, Interrupt, shared
  <1>5. CASE UNCHANGED cvars
    BY <1>5 DEF cvars, vars, shared
  <1>6. ASSUME NEW x \in Path, NEW c \in Content \cup {Absent}, EditLive(x, c)
        PROVE  log' = log
    BY <1>6 DEF EditLive, Edit
  <1> QED
    BY <1>1, <1>2, <1>3, <1>4, <1>5, <1>6 DEF CNext

-----------------------------------------------------------------------------
(* What a command waits for and was answered.                              *)

(* What the manager answers while a command waits for it.                  *)
LEMMA ManageCommand ==
    ASSUME IInv, CommandInv, NEW p \in Proc, Manage(p), cmd[p] # "none"
    PROVE  Command(p)'
  <1>0. Step(p) /\ cmd' = cmd /\ TypeOK /\ Local(p) /\ Command(p)
    BY DEF Manage, CommandInv, IInv, LocalInv
  <1>1. pc[p] # "idle" /\ pc[p] # "capture"
    BY <1>0 DEF Step, AppendBaseline, Enter, Recover, Unlink, WriteTmp, Replace,
       CheckMaterialized, Settle, Read, Plan, Acquire, Validate, WriteJournal,
       AppendActivation, Finish, Command, CommandInv
  <1>2. cmd[p] = "call" /\ req[p].action \in Moves
    BY <1>0, <1>1 DEF Command, CommandInv
  <1>3. \/ req'[p] = req[p] /\ answer'[p] = answer[p] /\ pc'[p] # "capture"
        \/ pc'[p] = "idle" /\ answer'[p] = NoEvent
        \/ pc'[p] = "idle" /\ Plan(p) /\ Repeated(p) /\ answer'[p] = Latest
        \/ pc'[p] = "idle" /\ Finish(p) /\ answer'[p] = plan[p]
    <2> USE DEF TypeOK, GoTo, Stop
    <2>1. CASE Plan(p)
      BY <1>0, <2>1 DEF Plan
    <2>2. CASE Finish(p)
      BY <1>0, <2>2 DEF Finish
    <2> QED
      <3>1. CASE AppendBaseline(p)
        BY <1>1, <3>1 DEF AppendBaseline
      <3>2. CASE Enter(p) \/ Recover(p)
        BY <1>0, <3>2 DEF Enter, Recover
      <3>3. CASE Unlink(p) \/ WriteTmp(p) \/ Replace(p)
        BY <1>0, <3>3 DEF Unlink, WriteTmp, Replace, locals
      <3>4. CASE CheckMaterialized(p) \/ Settle(p) \/ Read(p)
        BY <1>0, <3>4 DEF CheckMaterialized, Settle, Read
      <3>5. CASE Acquire(p) \/ Validate(p)
        BY <1>0, <3>5 DEF Acquire, Validate
      <3>6. CASE WriteJournal(p) \/ AppendActivation(p)
        BY <1>0, <3>6 DEF WriteJournal, AppendActivation
      <3> QED
        BY <1>0, <2>1, <2>2, <3>1, <3>2, <3>3, <3>4, <3>5, <3>6 DEF Step
  <1>4. ASSUME Repeated(p), answer'[p] = Latest
        PROVE  answer'[p].action \in Moves
    BY <1>2, <1>4 DEF Repeated
  <1>5. ASSUME Finish(p), answer'[p] = plan[p]
        PROVE  answer'[p].action \in Moves
    <2>1. plan[p] # NoEvent /\ LegalMove(plan[p].previous, plan[p])
      BY <1>0, <1>5 DEF Local, Finish
    <2> QED
      BY <1>5, <2>1 DEF LegalMove, Moves
  <1>6. pc'[p] # "idle" => req'[p] = req[p] /\ answer'[p] = answer[p] /\ pc'[p] # "capture"
    BY <1>3
  <1>7. answer'[p] # NoEvent => answer'[p].action \in Moves
    BY <1>0, <1>2, <1>3, <1>4, <1>5 DEF Command
  <1> QED
    BY <1>0, <1>2, <1>6, <1>7 DEF Command

(* Every step keeps what a command waits for and was answered.             *)
LEMMA CommandStep ==
    ASSUME IInv, CommandInv, [CNext]_cvars
    PROVE  CommandInv'
  <1>0. TypeOK /\ status \in [Child -> Status]
        /\ cmd \in [Proc -> {"none", "call", "load", "append"}]
        /\ \A q \in Proc : Command(q)
    BY DEF IInv, CommandInv
  <1>1. CASE UNCHANGED cvars
    BY <1>0, <1>1 DEF cvars, vars, locals, CommandInv, Command
  <1>2. ASSUME NEW p \in Proc,
               \/ \E r \in Approval : Promote(p, r) \/ Rollback(p, r)
               \/ VerifyLive(p) \/ (\E s \in Snapshot : Capture(p, s))
               \/ InterruptManager(p) \/ InterruptCommand(p)
               \/ Returned(p) \/ LoadCandidate(p) \/ AppendEvent(p)
        PROVE  CommandInv'
    <2>1. /\ status' \in [Child -> Status]
          /\ cmd' \in [Proc -> {"none", "call", "load", "append"}]
      BY <1>0, <1>2 DEF Promote, Rollback, VerifyLive, Capture, InterruptManager,
         InterruptCommand, Returned, LoadCandidate, AppendEvent, Become, Status, Goal
    <2>2. ASSUME NEW q \in Proc, q # p
          PROVE  /\ cmd'[q] = cmd[q] /\ pc'[q] = pc[q]
                 /\ req'[q] = req[q] /\ answer'[q] = answer[q]
      BY <1>0, <1>2, <2>2 DEF TypeOK, Promote, Rollback, VerifyLive, Capture,
         InterruptManager, InterruptCommand, Returned, LoadCandidate, AppendEvent, Become,
         Call, CaptureBaseline, Interrupt, GoTo, Stop, vars, locals
    <2>3. Command(p)'
      <3>1. CASE \E r \in Approval : Promote(p, r) \/ Rollback(p, r)
        BY <1>0, <3>1 DEF TypeOK, Promote, Rollback, Become, Call, GoTo, Command, Moves
      <3>2. CASE \/ VerifyLive(p) \/ (\E s \in Snapshot : Capture(p, s))
                 \/ InterruptManager(p) \/ InterruptCommand(p) \/ AppendEvent(p)
        <4>1. cmd'[p] = "none"
          BY <1>0, <3>2 DEF VerifyLive, Capture, InterruptManager, InterruptCommand,
             AppendEvent, Become
        <4> QED
          BY <4>1 DEF Command
      <3>3. CASE Returned(p) \/ LoadCandidate(p)
        BY <1>0, <3>3 DEF Returned, LoadCandidate, Become, Command, vars, locals
      <3> QED
        BY <1>2, <3>1, <3>2, <3>3
    <2>4. \A q \in Proc : Command(q)'
      BY <1>0, <2>2, <2>3 DEF Command
    <2> QED
      BY <2>1, <2>4 DEF CommandInv
  <1>3. ASSUME NEW p \in Proc, Manage(p)
        PROVE  CommandInv'
    <2>1. UNCHANGED <<status, cmd>> /\ Step(p)
      BY <1>3 DEF Manage
    <2>2. ASSUME NEW q \in Proc, q # p
          PROVE  pc'[q] = pc[q] /\ req'[q] = req[q] /\ answer'[q] = answer[q]
      BY <1>0, <2>1, <2>2, OthersKeepLocals
    <2>3. Command(p)'
      <3>1. CASE cmd[p] = "none"
        BY <2>1, <3>1 DEF Command
      <3> QED
        BY <1>3, <3>1, ManageCommand
    <2>4. \A q \in Proc : Command(q)'
      BY <1>0, <2>1, <2>2, <2>3 DEF Command
    <2> QED
      BY <1>0, <2>1, <2>4 DEF CommandInv
  <1>4. ASSUME NEW x \in Path, NEW c \in Content \cup {Absent}, EditLive(x, c)
        PROVE  CommandInv'
    BY <1>0, <1>4 DEF EditLive, Edit, locals, CommandInv, Command
  <1> QED
    BY <1>1, <1>2, <1>3, <1>4 DEF CNext

(* A lifecycle event is appended for an activation in the registry, and    *)
(* what a rollback left stands in the registry before it.                  *)
LEMMA LifecycleStep ==
    ASSUME CInv, [CNext]_cvars
    PROVE  LifecycleFollowsActivation'
  <1>0. /\ TypeOK /\ HistoryIsChain /\ AnswerIsRegistered
        /\ status \in [Child -> Status] /\ \A q \in Proc : Command(q)
        /\ LifecycleFollowsActivation
    BY DEF CInv, IInv, CommandInv
  <1>1. \A i \in DOMAIN log : i \in DOMAIN log' /\ log'[i] = log[i]
    BY <1>0, LogGrows
  <1>2. CASE UNCHANGED status
    BY <1>0, <1>1, <1>2 DEF LifecycleFollowsActivation
  <1>3. ASSUME NEW p \in Proc, AppendEvent(p)
        PROVE  LifecycleFollowsActivation'
    <2> DEFINE e == answer[p]
    <2>1. e # NoEvent /\ e.action \in Moves
      BY <1>0, <1>3 DEF AppendEvent, Command
    <2>2. PICK i \in DOMAIN log : log[i] = e
      BY <1>0, <2>1 DEF AnswerIsRegistered
    <2>3. i # 1 /\ log[i - 1].snapshot = e.previous /\ i - 1 \in DOMAIN log
      <3>1. i # 1
        BY <1>0, <2>1, <2>2 DEF HistoryIsChain, Moves
      <3>2. log \in Seq(Event) /\ i \in 1..Len(log)
        BY <1>0 DEF TypeOK
      <3> QED
        BY <1>0, <2>2, <3>1, <3>2 DEF HistoryIsChain, LegalMove
    <2>4. ASSUME NEW s \in Child
          PROVE  /\ status'[s] # "ship_recommended" => \E k \in DOMAIN log : log[k].snapshot = s
                 /\ status'[s] = "rolled_back" =>
                       \E k \in DOMAIN log : log[k].action = "rollback" /\ log[k].previous = s
      <3>1. CASE s # Moved(e)
        <4>1. status'[s] = status[s]
          BY <1>0, <1>3, <3>1 DEF AppendEvent
        <4> QED
          BY <1>0, <4>1 DEF LifecycleFollowsActivation
      <3>2. CASE s = Moved(e) /\ e.action = "promote"
        BY <1>0, <1>3, <2>2, <3>2 DEF AppendEvent, Moved, Goal
      <3>3. CASE s = Moved(e) /\ e.action = "rollback"
        BY <1>0, <1>3, <2>2, <2>3, <3>3 DEF AppendEvent, Moved, Goal
      <3> QED
        BY <2>1, <3>1, <3>2, <3>3 DEF Moves
    <2> QED
      BY <1>1, <2>4 DEF LifecycleFollowsActivation
  <1> QED
    BY <1>2, <1>3 DEF CNext, Promote, Rollback, VerifyLive, Capture, Manage, Returned,
       LoadCandidate, InterruptManager, InterruptCommand, EditLive, cvars

(* No command, nothing shipped.                                            *)
LEMMA InitCommands == CInit => CInv
  <1>1. CInit => IInv
    BY InitIInv DEF CInit
  <1> QED
    BY <1>1 DEF CInit, CInv, CommandInv, Command, Status, LifecycleFollowsActivation

(* Commands and manager together, for any number of both and any bounds.   *)
THEOREM CommandInvariance == CSpec => []CInv
  <1>1. CInv /\ [CNext]_cvars => CInv'
    BY CommandIInv, CommandStep, LifecycleStep DEF CInv
  <1> QED
    BY InitCommands, <1>1, PTL DEF CSpec

(* A candidate is recorded as shipped or rolled back only after its        *)
(* snapshot was activated or left (cli.py:1337-1345, :1393-1405).          *)
THEOREM LifecycleFollows == CSpec => []LifecycleFollowsActivation
  BY CommandInvariance, PTL DEF CInv
=============================================================================
