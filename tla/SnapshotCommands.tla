-------------------------- MODULE SnapshotCommands --------------------------
(***************************************************************************)
(* The CLI commands `snapshot promote` and `snapshot rollback` (cli.py):   *)
(* they call the SnapshotManager and then move the candidate of the        *)
(* snapshot along its lifecycle in the CandidateRegistry (registry.py).    *)
(* The two stores have no common lock and no common transaction.           *)
(*                                                                         *)
(* A child snapshot stands for its candidate too: create_child gives each  *)
(* candidate one snapshot.  Only the end of the lifecycle is modelled,     *)
(* from SHIP_RECOMMENDED on, where these commands work.                    *)
(***************************************************************************)
EXTENDS SnapshotActivation

VARIABLES
    status,   \* the candidate's status: that of its last lifecycle event
    cmd,      \* where each command is: none, call, load, append
    loaded    \* the candidate status a command holds in memory

Child == {s \in Snapshot : Parent[s] # NoSnapshot}

Status == {"ship_recommended", "shipped", "rolled_back"}

(* _TRANSITIONS of the registry, restricted to these statuses.             *)
Allowed == {<<"ship_recommended", "shipped">>, <<"shipped", "rolled_back">>}

cvars == <<vars, status, cmd, loaded>>

CInit ==
    /\ Init
    /\ status = [s \in Child |-> "ship_recommended"]
    /\ cmd = [p \in Proc |-> "none"]
    /\ loaded = [p \in Proc |-> "none"]

Become(p, phase, st) ==
    /\ cmd' = [cmd EXCEPT ![p] = phase]
    /\ loaded' = [loaded EXCEPT ![p] = st]

(* The status is checked before the manager is called, and kept.           *)
Promote(p, r) ==
    /\ cmd[p] = "none"
    /\ r.action = "promote"
    /\ r.target \in Child
    /\ status[r.target] \in {"ship_recommended", "shipped"}
    /\ Call(p, r)
    /\ Become(p, "call", status[r.target])
    /\ UNCHANGED status

Rollback(p, r) ==
    /\ cmd[p] = "none"
    /\ r.action = "rollback"
    /\ Call(p, r)
    /\ Become(p, "call", "none")
    /\ UNCHANGED status

(* Any other command that needs the active snapshot.                       *)
VerifyLive(p) ==
    /\ cmd[p] = "none"
    /\ Call(p, Verify)
    /\ UNCHANGED <<status, cmd, loaded>>

Capture(p, s) ==
    /\ cmd[p] = "none"
    /\ CaptureBaseline(p, s)
    /\ UNCHANGED <<status, cmd, loaded>>

Manage(p) == Step(p) /\ UNCHANGED <<status, cmd, loaded>>

(* A person changes harness/ while commands run.                           *)
EditLive(x, c) == Edit(x, c) /\ UNCHANGED <<status, cmd, loaded>>

(* The candidate whose lifecycle a returned activation moves.              *)
Moved(e) == IF e.action = "promote" THEN e.snapshot ELSE e.previous
Goal(e)  == IF e.action = "promote" THEN "shipped" ELSE "rolled_back"

(* The manager came back.  promote goes by the status it loaded before the *)
(* call; rollback loads it now, and refuses one that never shipped though  *)
(* the harness is already rolled back.                                     *)
Returned(p) ==
    /\ cmd[p] = "call"
    /\ pc[p] = "idle"
    /\ LET e == answer[p] IN
       IF /\ e # NoEvent
          /\ IF e.action = "promote" THEN loaded[p] = "ship_recommended"
                                     ELSE status[e.previous] = "shipped"
          THEN Become(p, "load", "none")
          ELSE Become(p, "none", "none")
    /\ UNCHANGED <<vars, status>>

(* registry.transition: load and check, then append the next event.        *)
LoadCandidate(p) ==
    /\ cmd[p] = "load"
    /\ LET current == status[Moved(answer[p])] IN
       IF <<current, Goal(answer[p])>> \in Allowed
          THEN Become(p, "append", current)
          ELSE Become(p, "none", "none")
    /\ UNCHANGED <<vars, status>>

AppendEvent(p) ==
    /\ cmd[p] = "append"
    /\ status' = [status EXCEPT ![Moved(answer[p])] = Goal(answer[p])]
    /\ Become(p, "none", "none")
    /\ UNCHANGED vars

(* The process dies, or an I/O call raises, inside the manager ...         *)
InterruptManager(p) ==
    /\ Interrupt(p)
    /\ Become(p, "none", "none")
    /\ UNCHANGED status

(* ... or between the activation and the lifecycle event.                  *)
InterruptCommand(p) ==
    /\ pc[p] = "idle"
    /\ cmd[p] # "none"
    /\ interrupts < MaxInterrupts
    /\ interrupts' = interrupts + 1
    /\ Become(p, "none", "none")
    /\ UNCHANGED <<shared, work, locals, edits, status>>

CNext ==
    \/ \E p \in Proc :
        \/ \E r \in Approval : Promote(p, r) \/ Rollback(p, r)
        \/ VerifyLive(p)
        \/ \E s \in Snapshot : Capture(p, s)
        \/ Manage(p)
        \/ Returned(p)
        \/ LoadCandidate(p)
        \/ AppendEvent(p)
        \/ InterruptManager(p)
        \/ InterruptCommand(p)
    \/ \E x \in Path, c \in Content \cup {Absent} : EditLive(x, c)

CSpec == CInit /\ [][CNext]_cvars

(* A running command goes on, and commands keep coming: every CLI and      *)
(* bridge command that needs the harness starts with verify_active_live.   *)
CFairness == \A p \in Proc : /\ WF_cvars(Manage(p))
                             /\ WF_cvars(Returned(p) \/ LoadCandidate(p) \/ AppendEvent(p))
                             /\ WF_cvars(VerifyLive(p))

CFairSpec == CSpec /\ CFairness

-----------------------------------------------------------------------------
(* Properties.                                                             *)

(* A candidate is recorded as shipped or rolled back only after its        *)
(* snapshot really was activated, and rolled back only after a rollback    *)
(* that left it: the lifecycle never runs ahead of the deployment, however *)
(* commands race or die (cli.py:1337-1345, :1393-1405).                    *)
LifecycleFollowsActivation ==
    \A s \in Child :
        /\ status[s] # "ship_recommended" => \E i \in DOMAIN log : log[i].snapshot = s
        /\ status[s] = "rolled_back" =>
              \E i \in DOMAIN log : log[i].action = "rollback" /\ log[i].previous = s
=============================================================================
