------------------------ MODULE MCCandidateProposals ------------------------
(***************************************************************************)
(* An instance of CandidateProposals: one observation for every type of    *)
(* failure that matters here, and patches that pass, that only one bundle  *)
(* has room for, that are held, refused, or do not apply to the parent.    *)
(***************************************************************************)
EXTENDS CandidateProposals

Seen(valid, success, db, tools) ==
    [valid |-> valid, success |-> success, db |-> db, tools |-> tools]
MCObservations ==
    {Seen(TRUE, TRUE, "match", "all"), Seen(FALSE, FALSE, "absent", "free"),
     Seen(TRUE, FALSE, "mismatch", "all"), Seen(TRUE, FALSE, "mismatch", "unseen"),
     Seen(TRUE, FALSE, "mismatch", "some"), Seen(TRUE, FALSE, "absent", "free")}
MCHighRisk == {2}

Patch(files, lines, binds, fits, means) ==
    [files |-> files, count |-> Cardinality(files), lines |-> lines, parses |-> TRUE,
     leaks |-> FALSE, binds |-> binds, fits |-> fits, means |-> means]
MCPatches ==
    [note |-> Patch({"prompt"}, 20, TRUE, TRUE, "verify"),
     route |-> Patch({"tools", "context"}, 100, TRUE, TRUE, "route"),
     static |-> Patch({"tools"}, 100, FALSE, TRUE, "static"),
     hook |-> Patch({"middleware"}, 40, TRUE, TRUE, "hook"),
     anew |-> Patch({"retrieval"}, 40, TRUE, FALSE, "search")]
=============================================================================
