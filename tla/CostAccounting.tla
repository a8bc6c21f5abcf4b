--------------------------- MODULE CostAccounting ---------------------------
(***************************************************************************)
(* What a formal batch paid, and what its sealed cost record says it paid. *)
(*                                                                         *)
(*   runtime/tau3_pilot.py     an agent turn: one call of the harness, or  *)
(*                             two when the final reply is empty           *)
(*   runtime/tau3_evidence.py  a turn of the user simulator, and the task  *)
(*                             attempt that every call is bound to         *)
(*   runtime/usage.py          the two append-only model-call ledgers      *)
(*   experiment/ledger.py      the reconciliation of the ledgers with the  *)
(*                             results that were retained                  *)
(*                                                                         *)
(* A call is paid to a provider whose bill the program never sees: billed  *)
(* is that bill.  The ledgers hold what the program could observe of it.   *)
(* A usable answer costs one unit at the frozen prices.                    *)
(***************************************************************************)
EXTENDS Integers, Sequences, FiniteSetsExt

CONSTANTS
    N,             \* task positions, taken one at a time
    Limit,         \* global_task_attempt_limit
    DisplayPrice,  \* external: what tau3 itself displays for a user answer
    MaxCalls,      \* bound: model calls of one attempt
    MaxTroubles,   \* bound: calls and turns that go other than well
    MaxCrashes     \* bound: interruptions of the tau3 process

ASSUME CountAssumption ==
    /\ N \in Nat \ {0} /\ Limit \in Nat \ {0}
    /\ DisplayPrice \in Nat
    /\ MaxCalls \in Nat /\ MaxTroubles \in Nat /\ MaxCrashes \in Nat

Position == 1..N
Channel  == {"agent", "user"}

Nothing == 0
Infra   == -1

(* One model call: its STARTED event and, once state is another one, its   *)
(* terminal event, with the task attempt they name.                        *)
Call == [position : Position, attempt : 1..Limit, channel : Channel,
         state    : {"started", "completed", "failed"},
         status   : {"pending", "exact", "partial", "unavailable"},
         cost     : 0..1,
         billed   : 0..2]

VARIABLES
    attempts,  \* the task-attempt ledger: per position, how its attempts ended
    calls,     \* the two model-call ledgers, in the order of their STARTED events
    raw,       \* per position: nothing, an infrastructure error, or the attempt
               \* whose simulation is retained
    stopped,   \* the position fail-fast artifact exists
    turn,      \* what the worker does next
    account,   \* the sealed cost record
    troubles, crashes

vars == <<attempts, calls, raw, stopped, turn, account, troubles, crashes>>

Unsealed == [status |-> "unsealed"]
Refused  == [status |-> "refused"]

Init ==
    /\ attempts = [p \in Position |-> <<>>]
    /\ calls = <<>>
    /\ raw = [p \in Position |-> Nothing]
    /\ stopped = FALSE
    /\ turn = "idle"
    /\ account = Unsealed
    /\ troubles = 0 /\ crashes = 0

-----------------------------------------------------------------------------
(* The worker: positions in order, attempts of a position up to the limit. *)

Open    == {p \in Position : raw[p] = Nothing}
Current == Min(Open)
Index   == Len(attempts[Current])

Launch ==
    /\ turn = "idle" /\ account = Unsealed
    /\ turn' = "next"
    /\ UNCHANGED <<attempts, calls, raw, stopped, account, troubles, crashes>>

Remaining == Index < Limit

StartAttempt ==
    /\ turn = "next" /\ Open # {} /\ ~stopped
    /\ Remaining
    /\ attempts' = [attempts EXCEPT ![Current] = Append(@, "started")]
    /\ turn' = "user"
    /\ UNCHANGED <<calls, raw, stopped, account, troubles, crashes>>

EndAttempt(state) == attempts' = [attempts EXCEPT ![Current][Index] = state]

FailAttempt ==
    /\ turn = "raise"
    /\ EndAttempt("failed")
    /\ turn' = "next"
    /\ UNCHANGED <<calls, raw, stopped, account, troubles, crashes>>

GiveUp ==
    /\ turn = "next" /\ Open # {} /\ ~stopped
    /\ Index = Limit
    /\ raw' = [raw EXCEPT ![Current] = Infra]
    /\ stopped' = TRUE
    /\ UNCHANGED <<attempts, calls, turn, account, troubles, crashes>>

Save ==
    /\ turn = "save"
    /\ raw' = [raw EXCEPT ![Current] = Index]
    /\ turn' = "next"
    /\ UNCHANGED <<attempts, calls, stopped, account, troubles, crashes>>

QueueEnds ==
    /\ turn = "next" /\ (Open = {} \/ stopped)
    /\ turn' = "done"
    /\ UNCHANGED <<attempts, calls, raw, stopped, account, troubles, crashes>>

-----------------------------------------------------------------------------
(* Model calls of the running attempt.                                     *)

Turns == {"user", "user again", "agent", "agent again"}

Speaker == IF turn \in {"user", "user again"} THEN "user" ELSE "agent"

OfAttempt(p, k) == {i \in DOMAIN calls : calls[i].position = p /\ calls[i].attempt = k}

Waiting ==
    /\ turn \in Turns
    /\ \E i \in OfAttempt(Current, Index) : calls[i].state = "started"

StartCall ==
    /\ turn \in Turns /\ ~Waiting
    /\ turn \in {"user", "agent"} => Cardinality(OfAttempt(Current, Index)) < MaxCalls
    /\ calls' = Append(calls,
           [position |-> Current, attempt |-> Index, channel |-> Speaker,
            state |-> "started", status |-> "pending", cost |-> 0, billed |-> 0])
    /\ UNCHANGED <<attempts, raw, stopped, turn, account, troubles, crashes>>

EndCall(state, status, cost, billed) ==
    calls' = [calls EXCEPT ![Len(calls)] = [@ EXCEPT !.state = state,
                                !.status = status, !.cost = cost, !.billed = billed]]

Trouble ==
    /\ troubles < MaxTroubles
    /\ troubles' = troubles + 1

(* An exception nothing records: a missing executable before the call is   *)
(* made, or an answer that is not text.  The STARTED event stays alone.    *)
LoseCall ==
    /\ Waiting /\ Trouble
    /\ \E billed \in 0..1 : calls' = [calls EXCEPT ![Len(calls)].billed = billed]
    /\ turn' = "raise"
    /\ UNCHANGED <<attempts, raw, stopped, account, crashes>>

(* No answer with usage: a timeout, a provider error, no turn envelope.    *)
Unanswered ==
    /\ Waiting /\ Trouble
    /\ \E billed \in 0..1 : EndCall("failed", "unavailable", 0, billed)
    /\ turn' = "raise"
    /\ UNCHANGED <<attempts, raw, stopped, account, crashes>>

Status_IgnoresRetry(retried) == "exact"

(* The envelope of an agent call gives its usage.  A provider retry, or an *)
(* unknown number of them, makes the cost partial: the failed requests may *)
(* have been billed as well.                                               *)
Status(retried) == IF retried THEN "partial" ELSE "exact"

Envelope(state, retried) ==
    \E billed \in 1..(IF retried THEN 2 ELSE 1) : EndCall(state, Status(retried), 1, billed)

AgentAnswers ==
    /\ Waiting /\ Speaker = "agent"
    /\ \/ Envelope("completed", FALSE) /\ UNCHANGED troubles
       \/ Envelope("completed", TRUE) /\ Trouble
    /\ turn' = "user"
    /\ UNCHANGED <<attempts, raw, stopped, account, crashes>>

(* The turn ended badly, or its reply is not one tau3 accepts.             *)
AgentRejected ==
    /\ Waiting /\ Speaker = "agent" /\ Trouble
    /\ \E retried \in BOOLEAN : Envelope("failed", retried)
    /\ turn' = "raise"
    /\ UNCHANGED <<attempts, raw, stopped, account, crashes>>

(* Reasoning without a final reply: one repair call, then the turn fails.  *)
AfterEmpty == IF turn = "agent" THEN "agent again" ELSE "raise"

AgentEmpty ==
    /\ Waiting /\ Speaker = "agent" /\ Trouble
    /\ \E retried \in BOOLEAN : Envelope("failed", retried)
    /\ turn' = AfterEmpty
    /\ UNCHANGED <<attempts, raw, stopped, account, crashes>>

(* The user simulator answers, or answers nothing and is asked once more.  *)
(* Usage without a count of input or of output tokens has no price; one    *)
(* without a count of cached tokens is priced as if none had been cached   *)
(* and stays exact (_token, missing=0), which is taken for the bill here.  *)
AfterUser(empty) == IF empty /\ turn = "user" THEN "user again" ELSE "agent"

Price(counted) ==
    IF counted THEN EndCall("completed", "exact", 1, 1)
               ELSE EndCall("completed", "unavailable", 0, 1)

UserAnswers ==
    /\ Waiting /\ Speaker = "user"
    /\ \E counted, empty \in BOOLEAN :
           /\ Price(counted)
           /\ IF counted /\ ~empty THEN UNCHANGED troubles ELSE Trouble
           /\ turn' = AfterUser(empty)
    /\ UNCHANGED <<attempts, raw, stopped, account, crashes>>

(* A failure between two calls: the session binding, the harness context.  *)
RaiseBetweenCalls ==
    /\ turn \in Turns /\ ~Waiting /\ Trouble
    /\ turn' = "raise"
    /\ UNCHANGED <<attempts, calls, raw, stopped, account, crashes>>

(* Either side ends the conversation.                                      *)
CompleteAttempt ==
    /\ turn \in {"user", "agent"} /\ ~Waiting
    /\ OfAttempt(Current, Index) # {}
    /\ EndAttempt("completed")
    /\ turn' = "save"
    /\ UNCHANGED <<calls, raw, stopped, account, troubles, crashes>>

Crash ==
    /\ turn # "idle" /\ account = Unsealed
    /\ crashes < MaxCrashes
    /\ crashes' = crashes + 1
    /\ turn' = "idle"
    /\ IF Waiting
       THEN \E billed \in 0..1 : calls' = [calls EXCEPT ![Len(calls)].billed = billed]
       ELSE UNCHANGED calls
    /\ UNCHANGED <<attempts, raw, stopped, account, troubles>>

-----------------------------------------------------------------------------
(* Reconciliation: every retained result is bound to one task attempt, and *)
(* the calls of that attempt are what the result cost.                     *)

Retained == {p \in Position : raw[p] # Nothing}
Valid    == {p \in Retained : raw[p] # Infra}

FailedAttempts_OnlyLast(p) == {k \in {Len(attempts[p])} : attempts[p][k] = "failed"}

FailedAttempts(p) == {k \in DOMAIN attempts[p] : attempts[p][k] = "failed"}

HasLineage == \A p \in Retained : raw[p] = Infra => FailedAttempts(p) # {}

Lineage(p) == IF raw[p] = Infra THEN Max(FailedAttempts(p)) ELSE raw[p]

Own(p) == OfAttempt(p, Lineage(p))

Owned(positions) == UNION {Own(p) : p \in positions}

On(channel, S) == {i \in S : calls[i].channel = channel}

Known(S) == SumFunctionOnSet([i \in DOMAIN calls |-> calls[i].cost], S)

IsExact(p, channel) ==
    /\ On(channel, Own(p)) # {} \/ raw[p] = Infra
    /\ \A i \in On(channel, Own(p)) : calls[i].status = "exact"

AreExact(positions) == \A p \in positions, channel \in Channel : IsExact(p, channel)

(* What tau3 shows as the user's cost in the results that were retained:   *)
(* of every answer, also of one that the ledger had no counts to price.    *)
Displayed ==
    DisplayPrice * Cardinality({i \in On("user", Owned(Valid)) : calls[i].state = "completed"})

LowerBound_CountsTwice ==
    Known(On("agent", DOMAIN calls)) + Known(On("user", DOMAIN calls)) + Displayed

LowerBound ==
    Known(On("agent", DOMAIN calls)) + Max({Known(On("user", DOMAIN calls)), Displayed})

Grade(exact, known) ==
    IF exact THEN "exact" ELSE IF known > 0 THEN "partial" ELSE "unavailable"

Unresolved == {i \in DOMAIN calls : calls[i].status = "pending"}

Accounting ==
    [valid       |-> Known(Owned(Valid)),
     validStatus |-> Grade(AreExact(Valid), Known(Owned(Valid))),
     total       |-> LowerBound,
     status      |-> Grade(AreExact(Retained), LowerBound),
     unresolved  |-> Cardinality(Unresolved),
     uncertain   |-> Cardinality({i \in DOMAIN calls :
                         calls[i].status \in {"partial", "unavailable"}})]

Seal ==
    /\ turn = "done" /\ account = Unsealed
    /\ account' = IF HasLineage THEN Accounting ELSE Refused
    /\ UNCHANGED <<attempts, calls, raw, stopped, turn, troubles, crashes>>

(* The batch artifact is complete evidence, or it is held.                 *)
Holds == Valid # Position \/ account.validStatus # "exact"

-----------------------------------------------------------------------------
Progress ==
    \/ Launch \/ StartAttempt \/ FailAttempt \/ GiveUp \/ Save \/ QueueEnds
    \/ StartCall \/ LoseCall \/ Unanswered
    \/ AgentAnswers \/ AgentRejected \/ AgentEmpty \/ UserAnswers
    \/ RaiseBetweenCalls \/ CompleteAttempt \/ Seal

Next == Progress \/ Crash

Spec == Init /\ [][Next]_vars

-----------------------------------------------------------------------------
(* The variables stay in their types.                                      *)
TypeOK ==
    /\ \A p \in Position :
           /\ Len(attempts[p]) <= Limit
           /\ \A k \in DOMAIN attempts[p] :
                  attempts[p][k] \in {"started", "failed", "completed"}
           /\ raw[p] \in {Infra, Nothing} \cup DOMAIN attempts[p]
    /\ \A i \in DOMAIN calls : calls[i] \in Call
    /\ stopped \in BOOLEAN
    /\ turn \in Turns \cup {"idle", "next", "raise", "save", "done"}
    /\ account \in {Unsealed, Refused}
           \cup [valid : Nat, total : Nat, unresolved : Nat, uncertain : Nat,
                 validStatus : {"exact", "partial", "unavailable"},
                 status : {"exact", "partial", "unavailable"}]
    /\ troubles \in 0..MaxTroubles
    /\ crashes \in 0..MaxCrashes

Sealed == account \notin {Unsealed, Refused}

Bill(S) == SumFunctionOnSet([i \in DOMAIN calls |-> calls[i].billed], S)

(* A batch that counts as complete evidence is priced with what its        *)
(* retained results were billed, to the unit: not with the calls of an     *)
(* attempt that was retried, and with no retry of the provider hidden in   *)
(* them (experiment/ledger.py:771-783; batch.py, hold reasons).  The grade *)
(* "exact" of the whole record says no more than this of its retained      *)
(* attempts, the infra-invalid ones included (ledger.py:785-798): that     *)
(* their calls were billed what the ledgers know, and nothing of the calls *)
(* of other attempts, for which see ExactIsWhole.                          *)
CompleteIsPriced ==
    Sealed =>
        /\ Holds \/ account.valid = Bill(Owned(Position))
        /\ account.status = "exact" => Known(Owned(Retained)) = Bill(Owned(Retained))

(* The total never exceeds the bill, whatever was interrupted, as long as  *)
(* tau3 displays no more than the frozen price                             *)
(* (total_cost_lower_bound_usd), and a bill above it is announced: the     *)
(* record counts a call without a terminal event, or one whose terminal    *)
(* event has no exact cost (the accounting notes).                         *)
TotalIsLowerBound ==
    Sealed =>
        /\ DisplayPrice <= 1 => account.total <= Bill(DOMAIN calls)
        /\ account.total < Bill(DOMAIN calls) => account.unresolved + account.uncertain > 0

(* What the grade should say.  The note written beside it is "all observed *)
(* agent and user calls have exact terminal cost evidence" (ledger.py:846),*)
(* and the selection takes the total of such a record without unresolved   *)
(* calls for the exact cost of all attempts (orchestrator.py:1356-1362).   *)
(* It does not hold: the grade looks at retained attempts only.            *)
ExactIsWhole ==
    Sealed /\ account.status = "exact" /\ account.unresolved = 0 =>
        account.total = Bill(DOMAIN calls)

(* Costs can be sealed unless every attempt of a position was interrupted: *)
(* fewer interruptions than attempts never leave a result without lineage  *)
(* (experiment/ledger.py, "no completed task-attempt lineage").            *)
SealNeedsFewCrashes == account = Refused => crashes >= Limit
=============================================================================
