----------------------------- MODULE TraceInbox -----------------------------
(***************************************************************************)
(* The evidence of one session in the Python core (bridge/service.py):     *)
(* event batches in the inbox of the session, and the SourceTraceRefs made *)
(* from them, which the evaluation reads later (adapters/dsh_tau3.py).     *)
(*                                                                         *)
(* Every file is created once, under a name that its content determines: a *)
(* batch is named after its events, a reference after all events it was    *)
(* made from.  A process that is killed while it writes leaves a torn file *)
(* under that name.  An event stands for its sequence number: its other    *)
(* fields are functions of it, and one redaction policy is in force.       *)
(***************************************************************************)
EXTENDS Integers, Sequences, SequencesExt, FiniteSets, FiniteSetsExt

VARIABLES
    inbox,     \* the batches stored, each a sequence of events
    torn,      \* the batches whose file is torn
    refs,      \* the references stored, each the set of its events
    tornRefs   \* the references whose file is torn

inboxVars == <<inbox, torn, refs, tornRefs>>

InboxInit == inbox = {} /\ torn = {} /\ refs = {} /\ tornRefs = {}

(* All events of the inbox, as _trace_sync and _trace_verify read it: one  *)
(* torn batch and neither can.                                             *)
Readable == torn = {}
Cursor   == UNION {ToSet(batch) : batch \in inbox}

-----------------------------------------------------------------------------
(* events.ingest of a batch.                                               *)

Accepts_Existing(batch) == TRUE

(* _write_once compares: the same batch again is accepted, a torn one is a *)
(* conflict.                                                               *)
Accepts(batch) == batch \notin torn

Ingest(batch) ==
    /\ inbox' = IF batch \in torn THEN inbox ELSE inbox \cup {batch}
    /\ UNCHANGED <<torn, refs, tornRefs>>

TearBatch(batch) ==
    /\ batch \notin inbox \cup torn
    /\ torn' = torn \cup {batch}
    /\ UNCHANGED <<inbox, refs, tornRefs>>

-----------------------------------------------------------------------------
(* trace.sync: a reference to all events there are.                        *)

(* Event numbers begin at zero; anything else has a gap.                   *)
Complete(events) == events = 0..Max(events)

Syncs == Readable /\ Cursor # {} /\ Cursor \notin tornRefs

Sync ==
    /\ refs' = IF Syncs THEN refs \cup {Cursor} ELSE refs
    /\ UNCHANGED <<inbox, torn, tornRefs>>

TearRef ==
    /\ Readable /\ Cursor # {} /\ Cursor \notin refs \cup tornRefs
    /\ tornRefs' = tornRefs \cup {Cursor}
    /\ UNCHANGED <<inbox, torn, refs>>

-----------------------------------------------------------------------------
(* trace.verify and the choice of a reference by the evaluation.           *)

(* The identity is computed again from the events in the reference's range *)
(* (from zero: it starts where the cursor is expected to).                 *)
Verifies(ref) ==
    /\ Readable
    /\ {e \in Cursor : e <= Max(ref)} = ref
    /\ Complete(ref)

(* _latest_verified_ref: the furthest end, then the most events.           *)
Latest ==
    CHOOSE ref \in refs : \A other \in refs :
        \/ Max(other) < Max(ref)
        \/ Max(other) = Max(ref) /\ Cardinality(other) <= Cardinality(ref)
=============================================================================
