------------------------ MODULE MCMetadataRepository ------------------------
(* Instance of MetadataRepository for TLC: four version strings of which two *)
(* differ only in build metadata, and two bodies where going from a to b is    *)
(* breaking and going back is not.                                           *)
EXTENDS MetadataRepository, TLC

CONSTANTS v1, v2, v2b, v3, a, b

MCRank == v1 :> 1 @@ v2 :> 2 @@ v2b :> 2 @@ v3 :> 3

MCBreaking == {<<a, b>>}
=============================================================================
