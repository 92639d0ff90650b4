-------------------------- MODULE MCIngestPipeline --------------------------
(* Instances of IngestPipeline for TLC. *)
EXTENDS IngestPipeline, TLC

CONSTANTS e1, e2, a1, a2

OneSnapshot == <<(e1 :> a1) @@ (e2 :> a2)>>
HideE2 == {{}, {e2}}
HideNothing == {{}}
=============================================================================
