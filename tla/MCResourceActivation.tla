------------------------ MODULE MCResourceActivation ------------------------
(* Two callers that race for two Collections over one Schema with one or two *)
(* versions.                                                                 *)
EXTENDS LiveBundle, TLC

CONSTANTS v1, v2

MCRank == v1 :> 1 @@ v2 :> 2
=============================================================================
