------------------------- MODULE MCCatalogOperations -------------------------
(* Two clients that work on one Schema, one Record and one cache entry, with *)
(* SchemaAPI and through the Catalogs.                                       *)
EXTENDS CatalogOperations, TLC

CONSTANTS s1, r1, v1, v2, v3, a, b, bad

MCRank == v1 :> 1 @@ v2 :> 2 @@ v3 :> 3

MCBreaking == {<<a, b>>}

MCCalls ==
  [op : {"publish"}, id : {s1}, version : {v1, v2}, body : {a, b}, allowBreaking : {FALSE}]
  \cup [op : {"publish"}, id : {s1}, version : {v2}, body : {bad}, allowBreaking : {TRUE}]
  \cup [op : {"update"}, id : {s1}, current : {v1}, version : {v2, v3}, body : {a},
        allowBreaking : {FALSE}]
  \cup [op : {"deprecate"}, id : {s1}, version : {v1}]
  \cup [op : {"read"}, id : {s1}, version : {Absent}, includeDeprecated : {FALSE},
        pin : {Absent, a}]

Asked(catalog, method, given, about) ==
  [bySurface |-> TRUE, provider |-> catalog, catalog |-> catalog, method |-> method,
   given |-> given, about |-> about]

ByHand(ask) == [ask EXCEPT !.bySurface = FALSE]

Put(mode, version) ==
  Asked("structured", "put",
        [resource |-> Value("text"), data |-> Value("object"), mode |-> Value(mode),
         expectedVersion |-> version], Absent)

Patch(version) ==
  Asked("structured", "patch",
        [resource |-> Value("text"), where |-> Value("object"), changes |-> Value("object"),
         expectedVersion |-> version], Absent)

Delete(version) ==
  Asked("structured", "delete",
        [resource |-> Value("text"), where |-> Value("object"), expectedVersion |-> version],
        Absent)

Set(version) ==
  Asked("cache", "compare_and_set",
        [resource |-> Value("text"), key |-> Value("text"), expectedVersion |-> version,
         value |-> Value("null"), ttlMs |-> Value("null")], Absent)

PublishByOperation(pin) ==
  Asked("structured", "publish_schema",
        [namespace |-> Value("text"), name |-> Value("text"), version |-> Value("text"),
         definition |-> Value("object"), allowBreaking |-> Value("boolean"),
         expectedRegistryRevision |-> pin],
        [id |-> s1, version |-> v2, body |-> a])

CreateByOperation ==
  Asked("structured", "create_resource",
        [namespace |-> Value("text"), name |-> Value("text"), schema |-> Value("object"),
         options |-> Value("null")],
        [ref |-> r1, schema |-> <<s1, v1>>])

MCAsks ==
  {Put("if_absent", Value("null")), Put("upsert", Value("null")), Put("update", Number(0)),
   Put("if_absent", Number(0)), ByHand(Patch(Value("null"))), Delete(Number(0)), Set(Number(0)),
   PublishByOperation(Value("null")), CreateByOperation}

MCInit ==
  /\ CatalogInit
  /\ entry = [catalog \in Catalogs |-> 0]

MCSpec == MCInit /\ [][CatalogNext]_allVars

MCSymmetry == Permutations(Clients)
=============================================================================
