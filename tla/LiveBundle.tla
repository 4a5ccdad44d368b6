------------------------------ MODULE LiveBundle ------------------------------
(***************************************************************************)
(* What SemanticsSchemaProvider gives Core to load once there is a         *)
(* repository (load_live, publication.py 699-736): a projection of one     *)
(* snapshot of the registry, taken while Collections are created,          *)
(* activated and managed and Schemas published and deprecated.  The        *)
(* namespaces it declares, by name, are left out.                          *)
(***************************************************************************)
EXTENDS ResourceActivation

ASSUME PublicationAssumption == Absent \notin Registry!Publication

\* Mutant: the versions a lookup of Schemas would offer by default.
PublishedSchemas == {schema \in Registry!SchemaRefs : Registry!Readable(schema[1], schema[2], FALSE)}

LiveSchemas == {schema \in Registry!SchemaRefs : Registry!Known(schema[1], schema[2])}

\* A Collection is declared in whatever state it is, with the Schema it pins.
LiveResources == {<<r, resources[r].schema>> : r \in {s \in Resources : resources[s] # Absent}}

(* The live bundle is closed, whenever it is taken: the Schema that a        *)
(* Collection pins is in it, though it be deprecated since and whether the   *)
(* activation is under way, has failed or was given up.  And it only grows:  *)
(* what one bundle declared, a Collection with its Schema, every later one   *)
(* declares, so that a Core that has loaded one can load the next.           *)
BundleIsClosed == \A resource \in LiveResources : resource[2] \in LiveSchemas

BundleGrows == LiveSchemas \subseteq LiveSchemas' /\ LiveResources \subseteq LiveResources'

LiveBundleIsClosed == []BundleIsClosed /\ [][BundleGrows]_vars
=============================================================================
