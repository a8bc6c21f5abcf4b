---------------------------- MODULE UpdaterAttempts ----------------------------
(***************************************************************************)
(* Paid attempts of the updater: `AheExternalRunner.run` starts a process  *)
(* whose model calls go through a credential proxy, a threaded server of   *)
(* the command itself.  Process, server and request threads go on side by  *)
(* side; when the process has ended, was killed or timed out, the command  *)
(* closes the server, reads what the proxy counted, compares it with the   *)
(* ledger the process kept and seals what the attempt cost.  The command   *)
(* may die anywhere.  The question is whether what is reported as the      *)
(* exact cost is what the provider bills.                                  *)
(***************************************************************************)
EXTENDS Integers, Sequences, FiniteSets, FiniteSetsExt

CONSTANTS
    Usage,         \* what one answered request may cost
    Tries,         \* requests of one call: updater_max_retries + 1
    MaxAttempts,   \* bound: attempts on disk
    MaxRequests,   \* bound: requests that reach the proxy's port
    MaxCalls       \* bound: model calls of one attempt

ASSUME UsageAssumption == Usage \subseteq Nat \ {0}
ASSUME BoundAssumption ==
    {Tries, MaxAttempts, MaxRequests, MaxCalls} \subseteq Nat \ {0}

VARIABLES
    attempts,  \* runs/updaters/ahe/attempts: what is on disk of each attempt
    calls,     \* ahe_model_usage.jsonl of the attempt under way: its model calls
    req,       \* every request that was sent to a proxy, in order of arrival
    pc,        \* where the command is
    exit,      \* whether the process ended well
    count,     \* proxy.counts(), once it was read
    usage      \* proxy.usage_totals(), once it was read

vars == <<attempts, calls, req, pc, exit, count, usage>>

Attempt == Len(attempts)    \* the attempt under way, or the last one

\* the process may send, the server accepts, the request threads live
Serving == {"running", "closing"}
Threads == Serving \union {"closed", "counted", "sealing", "ending"}

Unknown == -1               \* None where the code has a number

-----------------------------------------------------------------------------
(* What the proxy knows of an attempt. *)

Of(stages) == {i \in DOMAIN req : req[i].attempt = Attempt /\ req[i].at \in stages}

Started == Of({"forwarded", "recorded", "done"})
Recorded == Of({"recorded", "done"})

Pending_Forwarded == Of({"forwarded", "recorded"})

Pending == Of({"accepted", "forwarded", "recorded"})

\* a request of which no usage was found has the record 0
UsageTotals ==
    IF Recorded # Started \/ \E i \in Recorded : req[i].got = 0 THEN Unknown
    ELSE SumFunctionOnSet([i \in DOMAIN req |-> req[i].got], Recorded)

(* What the ledger of the process says (_usage_accounting). *)

CallsIn(states) == {c \in DOMAIN calls : calls[c].state \in states}
Terminals == CallsIn({"completed", "failed"})
Unresolved == Cardinality(CallsIn({"open"}))
LedgerUsage == SumFunctionOnSet([c \in DOMAIN calls |-> calls[c].usage], Terminals)
LedgerExact == Terminals # {} /\ CallsIn({"open", "failed"}) = {}

(* What the experiment reports as the updater's cost (_updater_model_cost). *)

Total == SumFunctionOnSet([a \in DOMAIN attempts |-> attempts[a].known], DOMAIN attempts)

\* attempts that the report counts: those with a started.json
Matched == {a \in DOMAIN attempts : attempts[a].disk # "made"}

ReportedStatus ==
    CASE \E a \in Matched : attempts[a].disk = "torn" -> "blocked"
      [] Matched = {} -> "unavailable"
      [] \A a \in Matched : attempts[a].disk = "terminal" /\ attempts[a].status = "exact" -> "exact"
      [] OTHER -> "partial"

-----------------------------------------------------------------------------
NoCount == [started |-> 0, pending |-> 0]

Init ==
    /\ attempts = <<>> /\ calls = <<>> /\ req = <<>>
    /\ pc = "off" /\ exit = "ok" /\ count = NoCount /\ usage = 0

\* the ledger of an attempt is in its directory, what was read is local to it
Forget == calls' = <<>> /\ exit' = "ok" /\ count' = NoCount /\ usage' = 0

(* The command. *)

Go(from, to) == pc = from /\ pc' = to

StartCommand ==
    /\ Go("off", "ready")
    /\ UNCHANGED <<attempts, calls, req, exit, count, usage>>

NewAttempt == [disk |-> "made", status |-> "none", known |-> 0, unresolved |-> 0, exit |-> "ok"]

\* _begin_attempt makes the directory first; every attempt has a name of its own
MakeDirectory ==
    /\ Go("ready", "made")
    /\ Len(attempts) < MaxAttempts
    /\ attempts' = Append(attempts, NewAttempt)
    /\ UNCHANGED <<calls, req, exit, count, usage>>

WriteStarted ==
    /\ Go("made", "launch")
    /\ attempts' = [attempts EXCEPT ![Attempt].disk = "started"]
    /\ UNCHANGED <<calls, req, exit, count, usage>>

Launch ==
    /\ Go("launch", "running")
    /\ exit' = "ok"
    /\ UNCHANGED <<attempts, calls, req, count, usage>>

\* the process cannot be started (127)
LaunchFails ==
    /\ Go("launch", "closing")
    /\ exit' = "failed"
    /\ UNCHANGED <<attempts, calls, req, count, usage>>

\* the process ends by itself: its exceptions have ended all calls
ProcessEnds ==
    /\ Go("running", "closing")
    /\ Unresolved = 0
    /\ exit' \in {"ok", "failed"}
    /\ UNCHANGED <<attempts, calls, req, count, usage>>

\* the timeout (124), or a signal
ProcessKilled ==
    /\ Go("running", "closing")
    /\ exit' = "failed"
    /\ UNCHANGED <<attempts, calls, req, count, usage>>

Dropped(r) == IF r.at = "sent" THEN [r EXCEPT !.at = "refused"] ELSE r

CloseProxy_Joins ==
    /\ Go("closing", "closed")
    /\ Pending = {}
    /\ req' = [i \in DOMAIN req |-> Dropped(req[i])]
    /\ UNCHANGED <<attempts, calls, exit, count, usage>>

\* CredentialProxy.__exit__: no request is accepted any more; the threads of the
\* requests are daemons and nobody waits for them
CloseProxy ==
    /\ Go("closing", "closed")
    /\ req' = [i \in DOMAIN req |-> Dropped(req[i])]
    /\ UNCHANGED <<attempts, calls, exit, count, usage>>

ReadCounts ==
    /\ Go("closed", "counted")
    /\ count' = [started |-> Cardinality(Started), pending |-> Cardinality(Pending)]
    /\ UNCHANGED <<attempts, calls, req, exit, usage>>

ReadUsage ==
    /\ Go("counted", "sealing")
    /\ usage' = UsageTotals
    /\ UNCHANGED <<attempts, calls, req, exit, count>>

Gap == LET d == count.started - Len(calls) IN IF d < 0 THEN -d ELSE d

Terminal_IgnoresPending ==
    LET exact == Gap = 0 /\ LedgerExact /\ usage # Unknown /\ usage = LedgerUsage
    IN [disk |-> "terminal",
        status |-> IF exact THEN "exact" ELSE IF usage = Unknown THEN "unavailable" ELSE "partial",
        known |-> IF exact THEN LedgerUsage ELSE IF usage = Unknown THEN 0 ELSE usage,
        unresolved |-> Unresolved + Gap + (IF exact THEN 0 ELSE 1),
        exit |-> IF exact THEN exit ELSE "failed"]

\* _reconcile_proxy_counts, usage_mismatch and _preserve_attempt
Terminal ==
    LET wire == Gap # 0 \/ count.pending # 0
        exact == ~wire /\ LedgerExact /\ usage # Unknown /\ usage = LedgerUsage
    IN [disk |-> "terminal",
        status |-> IF exact THEN "exact" ELSE IF usage = Unknown THEN "unavailable" ELSE "partial",
        known |-> IF exact THEN LedgerUsage ELSE IF usage = Unknown THEN 0 ELSE usage,
        unresolved |-> Unresolved + (IF wire THEN Max({Gap, count.pending, 1}) ELSE 0)
                                  + (IF exact THEN 0 ELSE 1),
        exit |-> IF exact THEN exit ELSE "failed"]

\* an attempt that did not end well ends the command (propose)
Seal ==
    /\ pc = "sealing"
    /\ attempts' = [attempts EXCEPT ![Attempt] = Terminal]
    /\ pc' = IF Terminal.exit = "ok" THEN "ready" ELSE "ending"
    /\ Forget
    /\ UNCHANGED req

\* with the command its threads are gone; what they have forwarded is not
Gone(r) == IF r.at \in {"sent", "accepted"} THEN [r EXCEPT !.at = "refused"]
           ELSE IF r.at = "refused" THEN r ELSE [r EXCEPT !.at = "done"]

Leave == pc' = "off" /\ req' = [i \in DOMAIN req |-> Gone(req[i])] /\ Forget

EndCommand ==
    /\ pc \in {"ready", "ending"}
    /\ Leave
    /\ UNCHANGED attempts

Die ==
    /\ pc # "off"
    /\ Leave
    /\ UNCHANGED attempts

\* the command dies while it writes terminal.json
TearTerminal ==
    /\ pc = "sealing"
    /\ attempts' = [attempts EXCEPT ![Attempt].disk = "torn"]
    /\ Leave

-----------------------------------------------------------------------------
(* The process: recorded_call_llm around calls of the pinned agent. *)

KeepCommand == UNCHANGED <<attempts, pc, exit, count, usage>>

StartCall ==
    /\ pc = "running"
    /\ Len(calls) < MaxCalls
    /\ calls' = Append(calls, [state |-> "open", tries |-> 0, usage |-> 0])
    /\ KeepCommand /\ UNCHANGED req

Arrive(c) ==
    req' = Append(req, [attempt |-> Attempt, call |-> c, at |-> "sent", bill |-> 0, got |-> 0])

SendRequest ==
    /\ pc = "running"
    /\ Len(req) < MaxRequests
    /\ \E c \in CallsIn({"open"}) :
          /\ calls[c].tries < Tries
          /\ calls' = [calls EXCEPT ![c].tries = @ + 1]
          /\ Arrive(c)
    /\ KeepCommand

\* a request that no recorded call has made; what the process started may
\* outlive it and send until the server is shut down
SendUnrecorded ==
    /\ pc \in Serving
    /\ Len(req) < MaxRequests
    /\ Arrive(0)
    /\ KeepCommand /\ UNCHANGED calls

\* the whole response to its last request has reached the process, whatever
\* the proxy makes of it
CompleteCall ==
    /\ pc = "running"
    /\ \E i \in DOMAIN req :
          LET c == req[i].call IN
          /\ req[i].attempt = Attempt /\ c \in CallsIn({"open"})
          /\ req[i].bill # 0
          /\ \A j \in i + 1..Len(req) : req[j].call # c
          /\ calls' = [calls EXCEPT ![c].state = "completed", ![c].usage = req[i].bill]
    /\ KeepCommand /\ UNCHANGED req

\* an exception, or a response without usage
FailCall ==
    /\ pc = "running"
    /\ \E c \in CallsIn({"open"}) : calls' = [calls EXCEPT ![c].state = "failed"]
    /\ KeepCommand /\ UNCHANGED req

-----------------------------------------------------------------------------
(* The proxy, one thread for each request, and the provider. *)

KeepProcess == UNCHANGED <<attempts, calls, pc, exit, count, usage>>

Move(i, from, to) == req[i].at = from /\ req' = [req EXCEPT ![i].at = to]

\* process_request: the server accepts also what a killed process has left
\* behind in the backlog of the port
Accept ==
    /\ pc \in Serving
    /\ \E i \in DOMAIN req : Move(i, "sent", "accepted")
    /\ KeepProcess

\* the header or the body of the request is not complete
Refuse ==
    /\ pc \in Threads
    /\ \E i \in DOMAIN req : Move(i, "accepted", "refused")
    /\ KeepProcess

\* do_POST: the count goes up before the request is opened
Forward ==
    /\ pc \in Threads
    /\ \E i \in DOMAIN req : Move(i, "accepted", "forwarded")
    /\ KeepProcess

\* the provider answers, and bills for it, whoever still listens
Bill ==
    /\ \E i \in DOMAIN req, u \in Usage :
          /\ req[i].at \in {"forwarded", "recorded", "done"}
          /\ req[i].bill = 0
          /\ req' = [req EXCEPT ![i].bill = u]
    /\ KeepProcess

\* the response is relayed to its end, and its usage was found in it or not; or
\* the connection to the provider or to the process breaks
Relay ==
    /\ pc \in Threads
    /\ \E i \in DOMAIN req :
          \E got \in {0, req[i].bill} :
             /\ req[i].at = "forwarded"
             /\ req' = [req EXCEPT ![i].at = "recorded", ![i].got = got]
    /\ KeepProcess

\* process_request_thread: one pending request less
EndThread ==
    /\ pc \in Threads
    /\ \E i \in DOMAIN req : Move(i, "recorded", "done")
    /\ KeepProcess

-----------------------------------------------------------------------------
Command ==
    \/ MakeDirectory \/ WriteStarted \/ Launch \/ LaunchFails \/ ProcessKilled
    \/ CloseProxy \/ ReadCounts \/ ReadUsage \/ Seal \/ EndCommand

Process == StartCall \/ SendRequest \/ SendUnrecorded \/ CompleteCall \/ FailCall \/ ProcessEnds

Proxy == Accept \/ Refuse \/ Forward \/ Bill \/ Relay \/ EndThread

Next == StartCommand \/ Command \/ Process \/ Proxy \/ Die \/ TearTerminal

\* the command goes on, and the operating system tells it of the timeout; the
\* process, the threads and the provider owe nothing
Spec == Init /\ [][Next]_vars /\ WF_vars(Command)

-----------------------------------------------------------------------------
(* Properties. *)

Bills == [i \in DOMAIN req |-> req[i].bill]
Billed == SumFunctionOnSet(Bills, DOMAIN req)
BilledFor(a) == SumFunctionOnSet(Bills, {i \in DOMAIN req : req[i].attempt = a})

\* Type invariant.
TypeOK ==
    /\ attempts \in Seq([disk : {"made", "started", "terminal", "torn"},
                         status : {"none", "exact", "partial", "unavailable"},
                         known : Nat, unresolved : Nat, exit : {"ok", "failed"}])
    /\ calls \in Seq([state : {"open", "completed", "failed"}, tries : 0..Tries,
                      usage : Usage \union {0}])
    /\ req \in Seq([attempt : 1..MaxAttempts, call : 0..MaxCalls,
                    at : {"sent", "accepted", "refused", "forwarded", "recorded", "done"},
                    bill : Usage \union {0}, got : Usage \union {0}])
    /\ pc \in Threads \union {"off", "ready", "made", "launch"}
    /\ exit \in {"ok", "failed"}
    /\ count \in [started : Nat, pending : Nat]
    /\ usage \in Nat \union {Unknown}

\* A cost that is reported as exact is what the provider bills for all attempts
\* the experiment ever made, those of dead commands included, and stays so; and
\* one that is reported as known is never more than what was billed for its
\* attempt (run, _updater_model_cost, `known_cost_usd` of a partial attempt).
ExactIsBilled ==
    /\ ReportedStatus = "exact" => Total = Billed
    /\ \A a \in DOMAIN attempts : attempts[a].known <= BilledFor(a)

\* No candidate comes from an attempt of which anything is open: the process
\* made no request behind its ledger, every call has completed and every
\* request is answered (propose, exit_code).
AcceptedIsAccounted ==
    \A a \in DOMAIN attempts :
        attempts[a].disk = "terminal" /\ attempts[a].exit = "ok" =>
            /\ attempts[a].status = "exact" /\ attempts[a].unresolved = 0
            /\ \A i \in DOMAIN req :
                  req[i].attempt = a =>
                      req[i].at = "refused" \/ (req[i].at = "done" /\ req[i].bill = req[i].got)

\* An attempt that was begun is sealed unless the command dies, also when the
\* process hangs, a thread is stuck or the provider never answers (run).
AttemptEnds == pc # "off" ~> pc \in {"ready", "off"}
=============================================================================
