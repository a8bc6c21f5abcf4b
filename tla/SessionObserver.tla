-------------------------- MODULE SessionObserver --------------------------
(***************************************************************************)
(* The harness plugin's observer of one session (observer.ts), its bridge  *)
(* client (bridge.ts) and the bridge process, which serves one request     *)
(* after the other (transport.py, service.py; see TraceInbox).             *)
(*                                                                         *)
(* The plugin is single-threaded: between two awaits it runs undisturbed.  *)
(* All its awaits are bridge calls, made one at a time along state.chain;  *)
(* events, flushes, timeouts and the end of the bridge process come in     *)
(* while one is open, or while the chain is empty.                         *)
(***************************************************************************)
EXTENDS TraceInbox

CONSTANTS
    MaxBatch,     \* maxBatchEvents
    MaxBuffer,    \* maxBufferEvents
    MaxEvents,    \* bound: events of the session
    MaxFlushes,   \* bound: flushes waiting in the chain
    MaxFaults,    \* bound: timeouts, bridge failures, reloads of the plugin
    MaxTorn       \* bound: files left torn

ASSUME ObserverAssumption ==
    /\ MaxBatch \in Nat \ {0} /\ MaxBuffer \in Nat
    /\ MaxBuffer >= MaxBatch
    /\ MaxEvents \in Nat /\ MaxFlushes \in Nat
    /\ MaxFaults \in Nat /\ MaxTorn \in Nat

VARIABLES
    session,     \* the number of events in session.events: 0..session - 1
    state,       \* SessionState
    at,          \* where the drain at the head of the chain is; "start" before
                 \* its first step, "idle" if the chain was empty
    next,        \* where the reconcile loop goes on
    batch,       \* the reconciled events being ingested
    call,        \* the open bridge call: none, open, or how it was answered
    wire,        \* the requests the bridge process has yet to serve
    disposing,
    faults

plugin == <<state, at, next, batch, call, disposing>>
vars   == <<inboxVars, session, plugin, wire, faults>>

Event == 0..(MaxEvents - 1)

Fresh == [seen |-> {}, pending |-> {}, buffer |-> <<>>, queued |-> 0,
          dropped |-> {}, loss |-> FALSE, chain |-> <<>>]

Init ==
    /\ InboxInit
    /\ session = 0
    /\ state = Fresh
    /\ at = "idle" /\ next = 0 /\ batch = <<>>
    /\ call = "none" /\ wire = <<>>
    /\ disposing = FALSE
    /\ faults = 0

-----------------------------------------------------------------------------
(* The entry points: they only touch the state and extend the chain.       *)

(* scheduleDrain.  The buffer never holds more than one batch.             *)
Drain(s, sync) ==
    IF s.buffer = <<>> /\ ~sync
       THEN s
       ELSE [s EXCEPT !.chain = Append(@, [batch |-> s.buffer, sync |-> sync]),
                      !.buffer = <<>>]

(* observe: each event once; a full buffer drops it.                       *)
Observe(s, e) ==
    IF e \in s.seen \cup s.pending
       THEN s
       ELSE IF s.queued >= MaxBuffer
               THEN [s EXCEPT !.dropped = @ \cup {e}, !.loss = TRUE]
               ELSE LET t == [s EXCEPT !.pending = @ \cup {e}, !.buffer = Append(@, e),
                                       !.queued = @ + 1]
                    IN  IF Len(t.buffer) >= MaxBatch THEN Drain(t, FALSE) ELSE t

Backfill(s) ==
    LET after[n \in 0..session] == IF n = 0 THEN s ELSE Observe(after[n - 1], n - 1)
    IN  after[session]

(* The plugin is not in the middle of a turn: it awaits a call, or nothing *)
(* it scheduled has started.                                               *)
Awaiting == call # "none" \/ at = "idle"

(* The session appends an event.  Some are not published live.             *)
Emit ==
    /\ Awaiting
    /\ session < MaxEvents
    /\ session' = session + 1
    /\ \/ UNCHANGED state
       \/ ~disposing /\ state' = Observe(state, session)
    /\ UNCHANGED <<inboxVars, at, next, batch, call, wire, disposing, faults>>

(* session/flush and session/disposed.                                     *)
Flush ==
    /\ Awaiting
    /\ ~disposing \/ state.chain # <<>>
    /\ Len(SelectSeq(state.chain, LAMBDA item : item.sync)) < MaxFlushes
    /\ state' = Drain(state, TRUE)
    /\ UNCHANGED <<inboxVars, session, at, next, batch, call, wire, disposing, faults>>

(* dispose: no more events, and a last flush.                              *)
Dispose ==
    /\ Awaiting
    /\ ~disposing
    /\ disposing' = TRUE
    /\ state' = Drain(state, TRUE)
    /\ UNCHANGED <<inboxVars, session, at, next, batch, call, wire, faults>>

(* The plugin is loaded again: after its dispose, or because the harness   *)
(* died.  The session is resumed from its log and backfilled.              *)
Load ==
    /\ faults < MaxFaults
    /\ faults' = faults + 1
    /\ state' = Backfill(Fresh)
    /\ at' = "idle" /\ next' = 0 /\ batch' = <<>>
    /\ call' = "none" /\ disposing' = FALSE
    /\ UNCHANGED <<inboxVars, session, wire>>

-----------------------------------------------------------------------------
(* The drain at the head of the chain, from await to await.                *)

(* BridgeClient.call: the request goes to the bridge process, started if   *)
(* need be, or the call fails at once.                                     *)
Send(request) ==
    \/ /\ call' = "open"
       /\ wire' = Append(wire, request)
       /\ UNCHANGED faults
    \/ /\ faults < MaxFaults
       /\ faults' = faults + 1
       /\ call' = "failed"
       /\ UNCHANGED wire

Request(kind, events) == [kind |-> kind, batch |-> events]

Running(steps) == call = "none" /\ state.chain # <<>> /\ at \in steps

Item == Head(state.chain)

EndDrain(s) ==
    /\ state' = [s EXCEPT !.chain = Tail(@)]
    /\ at' = IF Len(s.chain) = 1 THEN "idle" ELSE "start"

(* A drain begins with the batch it was scheduled with.                    *)
StartDrain ==
    /\ Running({"idle", "start"})
    /\ IF Item.batch = <<>>
          THEN /\ at' = "reconcile" /\ next' = 0
               /\ UNCHANGED <<call, wire, faults>>
          ELSE /\ at' = "batch"
               /\ Send(Request("ingest", Item.batch))
               /\ UNCHANGED next
    /\ UNCHANGED <<inboxVars, session, state, batch, disposing>>

Unobserved_NotDropped(e) ==
    e >= next /\ e \notin state.seen \cup state.pending \cup state.dropped

(* reconcile: the next events of the session neither seen nor queued, one  *)
(* batch at a time.                                                        *)
Unobserved(e) == e >= next /\ e \notin state.seen \cup state.pending

Chunk ==
    LET upTo[n \in 0..session] ==
            IF n = 0 THEN <<>>
            ELSE IF Unobserved(n - 1) /\ Len(upTo[n - 1]) < MaxBatch
                 THEN Append(upTo[n - 1], n - 1)
                 ELSE upTo[n - 1]
    IN  upTo[session]

AfterChunk_Again == next

(* A batch that fails is not tried again before the next flush.            *)
AfterChunk == Last(Chunk) + 1

(* (mapEvent translates every event of the session; that it throws between *)
(* the marks and the request, observer.ts:184-186, is left out.)           *)
Reconcile ==
    /\ Running({"reconcile"})
    /\ IF Chunk = <<>>
          THEN /\ at' = "check"
               /\ UNCHANGED <<state, next, batch, call, wire, faults>>
          ELSE /\ batch' = Chunk
               /\ state' = [state EXCEPT !.pending = @ \cup ToSet(Chunk),
                                         !.queued = @ + Len(Chunk)]
               /\ IF Len(Chunk) = MaxBatch
                     THEN at' = "reconcile" /\ next' = AfterChunk
                     ELSE at' = "check" /\ UNCHANGED next
               /\ Send(Request("ingest", Chunk))
    /\ UNCHANGED <<inboxVars, session, disposing>>

(* Every event of the session has been ingested.                           *)
Reconciled == session > 0 /\ \A e \in 0..(session - 1) : e \in state.seen

Check ==
    /\ Running({"check"})
    /\ IF Reconciled
          THEN /\ at' = "sync"
               /\ Send(Request("sync", <<>>))
               /\ UNCHANGED state
          ELSE /\ EndDrain([state EXCEPT !.loss = TRUE])
               /\ UNCHANGED <<call, wire, faults>>
    /\ UNCHANGED <<inboxVars, session, next, batch, disposing>>

Ingested_NoFinally(s, events) ==
    IF call = "accepted"
       THEN [s EXCEPT !.seen = @ \cup ToSet(events), !.pending = @ \ ToSet(events),
                      !.queued = @ - Len(events)]
       ELSE [s EXCEPT !.loss = TRUE]

(* ingest, after its await: seen if accepted; no longer queued either way. *)
Ingested(s, events) ==
    LET t == [s EXCEPT !.pending = @ \ ToSet(events), !.queued = @ - Len(events)] IN
    IF call = "accepted" THEN [t EXCEPT !.seen = @ \cup ToSet(events)]
                         ELSE [t EXCEPT !.loss = TRUE]

Answered == call \notin {"none", "open"}

BatchDone ==
    /\ Answered /\ at = "batch"
    /\ call' = "none"
    /\ LET s == Ingested(state, Item.batch) IN
       IF Item.sync
          THEN /\ state' = [s EXCEPT !.chain = <<[Item EXCEPT !.batch = <<>>]>> \o Tail(@)]
               /\ at' = "reconcile" /\ next' = 0
          ELSE EndDrain(s) /\ UNCHANGED next
    /\ UNCHANGED <<inboxVars, session, batch, wire, disposing, faults>>

ChunkDone ==
    /\ Answered /\ at \in {"reconcile", "check"}
    /\ call' = "none"
    /\ state' = Ingested(state, batch)
    /\ batch' = <<>>
    /\ UNCHANGED <<inboxVars, session, at, next, wire, disposing, faults>>

Synced_Optimist(s) == [s EXCEPT !.loss = FALSE]

(* sync, after its await: the status of the reference is the observer's.   *)
Synced(s) == [s EXCEPT !.loss = call # "verified"]

SyncDone ==
    /\ Answered /\ at = "sync"
    /\ call' = "none"
    /\ EndDrain(Synced(state))
    /\ UNCHANGED <<inboxVars, session, next, batch, wire, disposing, faults>>

Turn == \/ StartDrain \/ Reconcile \/ Check
        \/ BatchDone \/ ChunkDone \/ SyncDone

-----------------------------------------------------------------------------
(* The bridge process and the wire.                                        *)

(* Only the youngest request can be the open call's: a call that timed out *)
(* leaves its request behind.                                              *)
Reply(answer) ==
    call' = IF call = "open" /\ Len(wire) = 1 THEN answer ELSE call

ServeIngest ==
    /\ wire # <<>> /\ Head(wire).kind = "ingest"
    /\ Ingest(Head(wire).batch)
    /\ Reply(IF Accepts(Head(wire).batch) THEN "accepted" ELSE "failed")
    /\ wire' = Tail(wire)
    /\ UNCHANGED <<session, state, at, next, batch, disposing, faults>>

ServeSync ==
    /\ wire # <<>> /\ Head(wire).kind = "sync"
    /\ Sync
    /\ Reply(IF ~Syncs THEN "failed"
             ELSE IF Complete(Cursor) THEN "verified" ELSE "incomplete")
    /\ wire' = Tail(wire)
    /\ UNCHANGED <<session, state, at, next, batch, disposing, faults>>

Fail == call' = IF call = "none" THEN "none" ELSE "failed"

(* requestTimeoutMs: the request may still be served.                      *)
Timeout ==
    /\ call \notin {"none", "failed"}
    /\ faults < MaxFaults
    /\ faults' = faults + 1
    /\ Fail
    /\ UNCHANGED <<inboxVars, session, state, at, next, batch, wire, disposing>>

(* The bridge process ends: what it did for the request at hand is done or *)
(* not, its other requests are lost, and the open call fails.              *)
ChildStops ==
    /\ faults < MaxFaults
    /\ call # "none" \/ wire # <<>>
    /\ faults' = faults + 1
    /\ wire' = <<>>
    /\ Fail
    /\ \/ UNCHANGED inboxVars
       \/ /\ wire # <<>>
          /\ Cardinality(torn) + Cardinality(tornRefs) < MaxTorn
          /\ \/ Head(wire).kind = "ingest" /\ TearBatch(Head(wire).batch)
             \/ Head(wire).kind = "sync" /\ TearRef
    /\ UNCHANGED <<session, state, at, next, batch, disposing>>

Serve == ServeIngest \/ ServeSync

Next == \/ Emit \/ Flush \/ Dispose \/ Load
        \/ Turn \/ Serve \/ Timeout \/ ChildStops

Spec == Init /\ [][Next]_vars

(* The plugin runs on, every call ends (requestTimeoutMs), and the harness *)
(* flushes the session again and again, at the end of each turn.           *)
FairSpec ==
    /\ Spec
    /\ WF_vars(Turn)
    /\ WF_vars(Serve \/ Timeout \/ ChildStops)
    /\ SF_vars(Flush)

-----------------------------------------------------------------------------
(* Properties.                                                             *)

TypeOK ==
    /\ session \in 0..MaxEvents
    /\ inbox \in SUBSET Seq(Event) /\ torn \in SUBSET Seq(Event)
    /\ refs \in SUBSET SUBSET Event /\ tornRefs \in SUBSET SUBSET Event
    /\ state.seen \in SUBSET Event /\ state.pending \in SUBSET Event
    /\ state.dropped \in SUBSET Event /\ state.loss \in BOOLEAN
    /\ state.buffer \in Seq(Event) /\ Len(state.buffer) < MaxBatch
    /\ state.queued \in Nat
    /\ state.chain \in Seq([batch : Seq(Event), sync : BOOLEAN])
    /\ at \in {"idle", "start", "batch", "reconcile", "check", "sync"}
    /\ next \in 0..MaxEvents /\ batch \in Seq(Event)
    /\ call \in {"none", "open", "accepted", "verified", "incomplete", "failed"}
    /\ wire \in Seq([kind : {"ingest", "sync"}, batch : Seq(Event)])
    /\ disposing \in BOOLEAN /\ faults \in 0..MaxFaults

(* The memory bound (README of the plugin, :5-8; observer.ts:70-78): what  *)
(* counts as queued is exactly what is buffered, scheduled or in flight,   *)
(* each event once, and exceeds the buffer by the one batch that the       *)
(* reconciliation holds at most.  A leak in the count would drop events    *)
(* for ever; an event left pending would never be reconciled.              *)
QueueAccounts ==
    LET held == state.buffer \o batch
                \o FlattenSeq([i \in DOMAIN state.chain |-> state.chain[i].batch])
    IN  /\ state.queued = Len(held)
        /\ state.queued = Cardinality(state.pending)
        /\ state.pending = ToSet(held)
        /\ state.queued <= MaxBuffer + MaxBatch

(* An event the observer will never send again is in the inbox, whatever   *)
(* timed out, stopped or was served late (observer.ts:161-174).            *)
SeenIsStored == state.seen \subseteq Cursor

(* Whatever was dropped, failed, timed out and was served late, the        *)
(* references are evidence: each has every event of the session up to its  *)
(* end (the bridge would also make references with gaps and say so,        *)
(* service.py:316; the observer never asks for one, observer.ts:132) and   *)
(* stays verifiable while the inbox grows (batch.py:974 verifies it again  *)
(* at the seal), unless a batch file was torn; and an observer that was    *)
(* unloaded and reports no loss leaves the evaluation one to pick          *)
(* (dsh_tau3.py:763-779) that has every event the observer saw.            *)
FinalEvidence ==
    /\ \A ref \in refs : \A e \in 0..(session - 1) : e <= Max(ref) => e \in ref
    /\ Readable => \A ref \in refs : Verifies(ref)
    /\ disposing /\ state.chain = <<>> /\ ~state.loss /\ Readable =>
          refs # {} /\ state.seen \subseteq Latest

(* A drain ends, so session/flush does not hang on a bridge that is slow,  *)
(* stopped or rejects a batch every time (observer.ts:121-145, :176-189).  *)
DrainEnds == at \notin {"idle", "start"} ~> at \in {"idle", "start"}

(* Whatever was dropped, not published live, failed or timed out: once the *)
(* bridge works again a later flush walks through session.events again     *)
(* (observer.ts:129-137, :180-193) until a reference holds every event of  *)
(* the session -- unless the plugin was unloaded before, or a kill left a  *)
(* torn file.                                                              *)
SessionBecomesEvidence ==
    session > 0 ~>
        \/ \E ref \in refs : 0..(session - 1) \subseteq ref
        \/ disposing \/ ~Readable \/ tornRefs # {}
=============================================================================
