------------------------- MODULE MCFormalExperiment -------------------------
(***************************************************************************)
(* Instances of FormalExperiment for TLC: three proposals, the third of    *)
(* which changes both asset families, two candidates, one release stage.   *)
(***************************************************************************)
EXTENDS FormalExperiment

MCFamilies == (1 :> {"prompt"}) @@ (2 :> {"tool"}) @@ (3 :> {"prompt", "tool"})
MCReleaseStages == <<"release_id">>
=============================================================================
