-------------------------- MODULE MCSchemaEvolution --------------------------
(* Instances of SchemaDocuments: an identity field and two more of which     *)
(* each evolves in its own ways, every profile with a change of it, and      *)
(* definitions that are spelled in different ways or refused.                *)
EXTENDS SchemaDocuments

CONSTANTS a, b, big

V == {a, b, big}
MCTexts == {a, b}
MCLower == [t \in MCTexts |-> a]
MCWidth == [int8 |-> 8, int16 |-> 16]

int8  == [kind |-> "int8",  values |-> {a}]
int16 == [kind |-> "int16", values |-> {a, big}]
enumA == [kind |-> "enum",  values |-> {a}]
enumAB == [kind |-> "enum", values |-> {a, b}]
Decimal(precision, scale) ==
  [kind |-> "decimal", values |-> V, precision |-> precision, scale |-> scale]
Opaque(kind) == [kind |-> kind, values |-> V]

Expression(kind, operands) == <<"expression", [kind |-> kind, operands |-> operands]>>
Literal(v) == Expression("literal", <<<<"value", v>>>>)
Copy(f)    == Expression("field", <<<<"field", f>>>>)

Item(type) == [logicalType |-> type]
Optional(type) == [logicalType |-> type, nullable |-> TRUE]
Defaulted(type, nullable, default) ==
  [logicalType |-> type, nullable |-> nullable, defaultExpression |-> default]

key == Item(enumAB)

ys == {Optional(int8), Optional(int16), Item(int8),
       [logicalType |-> int8, nullable |-> TRUE, constraints |-> {b}]}

\* The fields whose default names y stand beside y only.
copies == {Defaulted(int8, FALSE, Copy("y")), Defaulted(int16, TRUE, Copy("y"))}
xs == {Item(enumA), Item(enumAB), Optional(enumAB),
       Defaulted(enumA, FALSE, <<"value", a>>), Defaulted(enumAB, TRUE, Literal(a)),
       Defaulted(enumAB, TRUE, Literal(Null)), Defaulted(enumAB, TRUE, <<"value", Null>>),
       Defaulted(enumA, FALSE, Expression("lower", <<<<"value", b>>>>)),
       [logicalType |-> enumA, mutable |-> FALSE, metadata |-> big],
       [logicalType |-> enumAB, cardinality |-> "many"]}

ByKey(items) == [form |-> "object", items |-> items]

FieldSets ==
  {[id |-> key]} \cup {[id |-> key, x |-> x] : x \in xs} \cup {[id |-> key, y |-> y] : y \in ys}
  \cup {[id |-> key, x |-> x, y |-> y] : x \in xs \cup copies, y \in ys}

Relational(fields, identity) == [semanticKind |-> "relational", fields |-> ByKey(fields), identity |-> identity]

\* A Schema of a kind with fields that play its roles.
Profiled(kind, fields, profile) ==
  [semanticKind |-> kind, fields |-> ByKey(fields), identity |-> <<"id">>,
   extensions |-> [profile |-> profile]]

bodies == [id |-> key, body |-> Optional(Opaque("json")), text |-> Optional(Opaque("string")),
           place |-> Optional(Opaque("wgs84Point"))]
series(m, n) == [id |-> key, at |-> Optional(Opaque("utcTimestamp")), m |-> Optional(m), n |-> Optional(n)]
edge == [id |-> key, from |-> Optional(Opaque("recordRef")), to |-> Optional(Opaque("recordRef"))]
endpoints == [byFrom |-> [kind |-> "relationEndpoint", fields |-> <<"from">>],
              byTo   |-> [kind |-> "relationEndpoint", fields |-> <<"to">>]]
Edge(profile, indexes) ==
  [semanticKind |-> "relation", fields |-> ByKey(edge), identity |-> <<"id">>,
   indexes |-> indexes, extensions |-> [profile |-> profile]]
fromTo == [kind |-> "relation", sourceField |-> <<"from">>, targetField |-> <<"to">>]

\* Profiles of the structured Catalog; within a kind the definitions evolve into each other.
structured ==
  {Profiled("relational", [id |-> key], [kind |-> "relational"]),
   Profiled("relational", [id |-> key], [kind |-> "relational", uniqueFields |-> <<<<"id">>>>]),
   Profiled("relational", [id |-> key], [kind |-> "relational", alternateKeys |-> <<<<"x">>>>]),
   Profiled("document", bodies, [kind |-> "document", bodyField |-> <<"body">>]),
   Profiled("document", bodies, [kind |-> "document", bodyField |-> <<"body">>, options |-> big]),
   Profiled("document", bodies, [kind |-> "document", bodyField |-> <<"text">>]),
   Profiled("keyValue", bodies, [kind |-> "keyValue", keyField |-> <<"id">>, valueField |-> <<"body">>]),
   Profiled("keyValue", bodies, [kind |-> "keyValue", keyField |-> <<"id">>, valueField |-> <<"text">>]),
   Profiled("keyValue", bodies, [kind |-> "keyValue", keyField |-> <<"text">>, valueField |-> <<"body">>]),
   Profiled("search", bodies, [kind |-> "search", sourceFields |-> <<"text">>, facets |-> <<"id", "body">>]),
   Profiled("search", bodies, [kind |-> "search", sourceFields |-> <<"text">>]),
   Profiled("geospatial", bodies, [kind |-> "geospatial", pointFields |-> <<"place">>]),
   Profiled("geospatial", bodies, [kind |-> "geospatial", pointFields |-> <<"text">>]),
   Edge(fromTo, endpoints),
   Edge(fromTo, [byFrom |-> endpoints.byFrom]),
   Edge([fromTo EXCEPT !.targetField = <<"from">>], endpoints)}

measured ==
  {Profiled("timeSeries", series(m, n),
            [kind |-> "timeSeries", timestampField |-> <<"at">>, seriesIdentity |-> <<"id">>,
             measurements |-> measurements]) :
     m \in {int8, int16, Decimal(4, 2), Decimal(6, 2), Decimal(6, 1), Opaque("string")},
     n \in {int8, int16}, measurements \in {<<"m", "n">>, <<"n">>}}

\* Of the other Catalogs.
others ==
  {[semanticKind |-> "object", fields |-> ByKey([id |-> key])],
   [semanticKind |-> "artifact", fields |-> ByKey([id |-> key]), policies |-> [lineage |-> TRUE],
    extensions |-> [profile |-> [kind |-> "artifact"]]],
   [semanticKind |-> "artifact", fields |-> ByKey([id |-> key]),
    extensions |-> [profile |-> [kind |-> "artifact", profile |-> "object", mutability |-> "mutable"]]],
   Profiled("artifact", [id |-> key], [kind |-> "artifact"]),
   Profiled("cache", [id |-> key], [kind |-> "cache"]),
   Profiled("cache", [id |-> key], [kind |-> "cache", authoritative |-> TRUE])}

base == Relational([id |-> key], <<"id">>)
Listed(items) == [form |-> "array", items |-> items]
Btree(fields) == [byId |-> [kind |-> "btree", fields |-> fields]]

parts ==
  {[semanticKind |-> "relational", fields |-> Listed([first |-> [name |-> "id", logicalType |-> enumAB]]), identity |-> <<"id">>],
   [semanticKind |-> "relational", identity |-> <<"id">>,
    fields |-> Listed([first  |-> [name |-> "id", logicalType |-> enumAB],
                      second |-> [name |-> "id", logicalType |-> enumA]])],
   [semanticKind |-> "relational", fields |-> base.fields, identity |-> <<"id">>, address |-> "own", guarantees |-> big],
   [semanticKind |-> "relational", fields |-> base.fields, identity |-> <<"id">>, address |-> "other"],
   [semanticKind |-> "relational", fields |-> base.fields, identity |-> <<>>],
   [semanticKind |-> "document", fields |-> base.fields, identity |-> <<"id">>],
   Profiled("document", bodies, [kind |-> "document"]),
   [semanticKind |-> "relational", fields |-> base.fields, identity |-> <<"id">>, indexes |-> Btree(<<"id">>)],
   [semanticKind |-> "relational", fields |-> base.fields, identity |-> <<"id">>, indexes |-> Btree(<<"x">>)],
   [semanticKind |-> "relational", fields |-> base.fields, identity |-> <<"id">>,
    indexes |-> [byId |-> [kind |-> "btree", fields |-> <<"id">>, unique |-> TRUE]]],
   [semanticKind |-> "relational", fields |-> base.fields, identity |-> <<"id">>, guarantees |-> big],
   [semanticKind |-> "relational", fields |-> base.fields, identity |-> <<"id">>, compatibility |-> big],
   [semanticKind |-> "relational", fields |-> base.fields, identity |-> <<"id">>, policies |-> [lineage |-> TRUE]]}

MCDefinitions ==
  {Relational(fields, <<"id">>) : fields \in FieldSets}
  \cup {Relational([id |-> key, x |-> x], <<"id", "x">>) : x \in xs}
  \cup structured \cup measured \cup others \cup parts

MCInputs ==
  {[id |-> a]} \cup {[id |-> a, x |-> v] : v \in {a, b, Null}}
  \cup {[id |-> a, x |-> v, y |-> w] : v \in {a, b}, w \in {a, big}}
  \cup {[id |-> a, y |-> w] : w \in {a, Null}}
=============================================================================
