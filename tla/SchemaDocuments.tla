--------------------------- MODULE SchemaDocuments ---------------------------
(***************************************************************************)
(* How the versions of SchemaEvolution come about: a client sends a        *)
(* definition, SchemaDocument.from_definition (schemas.py) reads it,       *)
(* profile_from_mapping (profiles.py) reads the semantic profile in its    *)
(* extensions, validate_schema (validation.py) judges the result, and      *)
(* to_dict writes it down again for whoever reads the Schema.              *)
(*                                                                         *)
(* An object of the wire is a record without the members that are left     *)
(* out.  Where JSON tells values apart by their form a tag does.  Names    *)
(* with a hyphen ("key-value") are written without it (keyValue).          *)
(***************************************************************************)
EXTENDS SchemaEvolution, Functions

CONSTANTS
  Definitions,  \* what clients may send
  Plain         \* an opaque part that nobody has given

Member(object, name, otherwise) == IF name \in DOMAIN object THEN object[name] ELSE otherwise

-----------------------------------------------------------------------------
(* schemas.py *)

ScalarKinds ==
  {"boolean", "int8", "int16", "int32", "int64", "decimal", "float64", "string", "bytes",
   "uuid", "utcTimestamp", "date", "duration", "enum"}
LogicalKinds == ScalarKinds \cup {"json", "recordRef", "objectRef", "wgs84Point"}

NoDefault == [kind |-> "none", operands |-> <<>>]
LiteralDefault(value) == [kind |-> "literal", operands |-> <<<<"value", value>>>>]

\* DefaultExpression.from_mapping: null is no default, any other value that is no
\* expression stands for its literal.
ReadDefault(given) ==
  IF given[1] = "expression"  THEN given[2]
  ELSE IF given[2] = Null     THEN NoDefault
                              ELSE LiteralDefault(given[2])

ReadableDefault(given) ==
  given[1] = "expression" => given[2].kind \in {"literal", "field", "concat", "coalesce", "lower", "upper"}

\* Mutant: literals are written as the values they stand for.
WriteDefaultShort(default) ==
  IF default.kind \in {"none", "literal"}
    THEN <<"value", IF default.kind = "none" THEN Null ELSE default.operands[1][2]>>
    ELSE <<"expression", default>>

WriteDefault(default) ==
  IF default.kind = "none" THEN <<"value", Null>> ELSE <<"expression", default>>

\* _parse_fields: an object by name, or an array of fields that say their name (the keys
\* of items are its positions).
FieldMembers ==
  {"name", "logicalType", "cardinality", "nullable", "defaultExpression", "mutable",
   "constraints", "metadata"}

ReadableFields(fields) ==
  LET items == fields.items
  IN  /\ DOMAIN items # {}
      /\ \A i \in DOMAIN items :
           /\ "logicalType" \in DOMAIN items[i] /\ DOMAIN items[i] \subseteq FieldMembers
           /\ ReadableDefault(Member(items[i], "defaultExpression", <<"value", Null>>))
      /\ fields.form = "object" => \A n \in DOMAIN items : Member(items[n], "name", n) = n
      /\ fields.form = "array"  => /\ \A i \in DOMAIN items : "name" \in DOMAIN items[i]
                                   /\ IsInjective([i \in DOMAIN items |-> items[i].name])

ByName(fields) ==
  LET items == fields.items
  IN  IF fields.form = "object" THEN items
      ELSE [n \in {items[i].name : i \in DOMAIN items} |->
              items[CHOOSE i \in DOMAIN items : items[i].name = n]]

\* FieldDefinition.from_mapping; labels, documentation and annotations are its metadata.
ReadField(item) ==
  [type        |-> item.logicalType,
   cardinality |-> Member(item, "cardinality", "one"),
   nullable    |-> Member(item, "nullable", FALSE),
   default     |-> ReadDefault(Member(item, "defaultExpression", <<"value", Null>>)),
   mutable     |-> Member(item, "mutable", TRUE),
   constraints |-> Member(item, "constraints", Values),
   metadata    |-> Member(item, "metadata", Plain)]

\* FieldDefinition.to_dict
WriteField(name, field) ==
  [name |-> name, logicalType |-> field.type, cardinality |-> field.cardinality,
   nullable |-> field.nullable, defaultExpression |-> WriteDefault(field.default),
   mutable |-> field.mutable, constraints |-> field.constraints, metadata |-> field.metadata]

\* IndexDefinition; its name is the key.
IndexKinds == {"btree", "hash", "fullText", "geospatial", "timeSeries", "relationEndpoint"}

ReadableIndex(item) ==
  /\ {"kind", "fields"} \subseteq DOMAIN item /\ DOMAIN item \subseteq {"kind", "fields", "unique", "options"}
  /\ item.kind \in IndexKinds
  /\ item.fields # <<>> /\ IsInjective(item.fields)

ReadIndex(item) ==
  [kind |-> item.kind, fields |-> item.fields, unique |-> Member(item, "unique", FALSE),
   options |-> Member(item, "options", Plain)]

-----------------------------------------------------------------------------
(* profiles.py *)

ObjectKinds == {"object", "artifact", "media"}
Numbers     == {"int8", "int16", "int32", "int64", "decimal", "float64"}
Texting     == {"string"}
References  == {"recordRef"}

\* The roles that fields play in a profile: how many fields, and of which kinds.  A role is
\* written as an array, of no name when the code has null and of one where it has a name.
Role(count, kinds) == [count |-> count, kinds |-> kinds]
NoRoles == [role \in {} |-> Role("any", {})]

Roles ==
  [relational |-> [alternateKeys |-> Role("any", LogicalKinds), uniqueFields |-> Role("any", LogicalKinds)],
   document   |-> [bodyField |-> Role("one", {"json"})],
   keyValue   |-> [keyField |-> Role("one", LogicalKinds), valueField |-> Role("one", LogicalKinds),
                   expiresAtField |-> Role("optional", {"utcTimestamp", "duration"})],
   search     |-> [sourceFields |-> Role("some", Texting), normalizedField |-> Role("optional", Texting),
                   facets |-> Role("any", LogicalKinds), highlights |-> Role("any", LogicalKinds)],
   geospatial |-> [pointFields |-> Role("some", {"wgs84Point"})],
   timeSeries |-> [timestampField |-> Role("one", {"utcTimestamp"}), seriesIdentity |-> Role("some", LogicalKinds),
                   dimensions |-> Role("any", LogicalKinds), measurements |-> Role("some", Numbers),
                   exemplarField |-> Role("optional", References)],
   relation   |-> [sourceField |-> Role("one", References), targetField |-> Role("one", References)],
   object     |-> NoRoles, artifact |-> NoRoles, media |-> NoRoles,
   cache      |-> NoRoles]

Counts(count, n) ==
  CASE count = "one" -> n = 1 [] count = "optional" -> n <= 1 [] count = "some" -> n >= 1 [] count = "any" -> TRUE

\* The key declarations of a relational profile are arrays of names themselves.
Names(role, given) ==
  IF role \in {"alternateKeys", "uniqueFields"} THEN UNION {Range(key) : key \in Range(given)} ELSE Range(given)

ProfileMembers(kind) ==
  {"kind", "options"} \cup DOMAIN Roles[kind]
  \cup (IF kind \in ObjectKinds THEN {"profile", "mutability"} ELSE {})
  \cup (IF kind = "cache" THEN {"authoritative"} ELSE {})

\* profile_from_mapping pops the members that have no default: without one it raises KeyError.
\* (A relation also has to say its direction and Collections, see RelationRecords.)
LacksMember(given) ==
  /\ given.kind \in DOMAIN Roles
  /\ \E role \in DOMAIN Roles[given.kind] :
       Roles[given.kind][role].count \in {"one", "some"} /\ role \notin DOMAIN given

\* What fields of a profile are told apart by their roles.
Disjoint(profile) ==
  profile.kind \in {"keyValue", "timeSeries", "relation"} =>
    \A r, s \in DOMAIN profile.roles : r # s => Range(profile.roles[r]) \cap Range(profile.roles[s]) = {}

\* options are the members that name no field and need not agree with anything.
ReadProfile(given) ==
  [kind       |-> IF given.kind \in ObjectKinds THEN Member(given, "profile", given.kind) ELSE given.kind,
   roles      |-> [role \in DOMAIN Roles[given.kind] |-> Member(given, role, <<>>)],
   mutability |-> Member(given, "mutability", "immutable"),
   options    |-> Member(given, "options", Plain)]

\* Key declarations name different fields each.
ReadableKeys(profile) ==
  \A role \in DOMAIN profile.roles : \A key \in Range(profile.roles[role]) :
    key # <<>> /\ IsInjective(key)

\* An artifact is published once.
ReadableObject(profile) ==
  profile.kind \in ObjectKinds /\ (profile.kind = "artifact" => profile.mutability = "immutable")

\* The constructors of the profiles, on what profile_from_mapping hands them.
ReadableProfile(given) ==
  /\ given.kind \in DOMAIN Roles
  /\ DOMAIN given \subseteq ProfileMembers(given.kind)
  /\ LET profile == ReadProfile(given)
     IN  /\ \A role \in DOMAIN profile.roles :
              /\ Counts(Roles[given.kind][role].count, Len(profile.roles[role]))
              /\ IsInjective(profile.roles[role])
         /\ Disjoint(profile)
         /\ given.kind = "relational" => ReadableKeys(profile)
         /\ given.kind \in ObjectKinds => ReadableObject(profile)
  /\ ~Member(given, "authoritative", FALSE)

NoProfile == [kind |-> "none", roles |-> NoRoles]

-----------------------------------------------------------------------------
(* SchemaDocument.  policies says whether a lineage policy is given; nobody  *)
(* compares the compatibility member.  address stands for formatVersion, id  *)
(* and version: "own" if they are those of the publication.                  *)

DefinitionMembers ==
  {"semanticKind", "fields", "identity", "indexes", "guarantees", "policies", "extensions",
   "compatibility", "fingerprint", "address"}

\* from_definition, __post_init__, field_map and profile
ReadDocument(catalog, definition) ==
  LET items      == ByName(definition.fields)
      indexes    == Member(definition, "indexes", [name \in {} |-> {}])
      extensions == Member(definition, "extensions", [profile |-> [kind |-> "none"]])
  IN  [catalog       |-> catalog,
       semanticKind  |-> definition.semanticKind,
       fields        |-> [name \in DOMAIN items |-> ReadField(items[name])],
       identity      |-> Member(definition, "identity", <<>>),
       indexes       |-> [name \in DOMAIN indexes |-> ReadIndex(indexes[name])],
       profile       |-> IF extensions.profile.kind = "none" THEN NoProfile ELSE ReadProfile(extensions.profile),
       guarantees    |-> Member(definition, "guarantees", Plain),
       labels        |-> [extensions |-> extensions,
                          policies   |-> Member(definition, "policies", [lineage |-> FALSE])],
       compatibility |-> Member(definition, "compatibility", Plain)]

\* to_dict; the fields are an array.  A fingerprint identifies the document: it is the
\* document.
WriteDocument(doc) ==
  [semanticKind  |-> doc.semanticKind,
   fields        |-> [form |-> "array",
                      items |-> [name \in DOMAIN doc.fields |-> WriteField(name, doc.fields[name])]],
   identity      |-> doc.identity,
   indexes       |-> doc.indexes,
   guarantees    |-> doc.guarantees,
   policies      |-> doc.labels.policies,
   extensions    |-> doc.labels.extensions,
   compatibility |-> doc.compatibility,
   fingerprint   |-> doc,
   address       |-> "own"]

Readable(catalog, definition) ==
  /\ {"semanticKind", "fields"} \subseteq DOMAIN definition /\ DOMAIN definition \subseteq DefinitionMembers
  /\ definition.semanticKind \in DOMAIN Roles
  /\ Member(definition, "address", "own") = "own"
  /\ ReadableFields(definition.fields)
  /\ IsInjective(Member(definition, "identity", <<>>))
  /\ "indexes" \in DOMAIN definition =>
       \A name \in DOMAIN definition.indexes : ReadableIndex(definition.indexes[name])
  /\ LET doc == ReadDocument(catalog, definition) IN Member(definition, "fingerprint", doc) = doc

-----------------------------------------------------------------------------
(* validation.py: validate_schema                                            *)

Owner(semanticKind) ==
  CASE semanticKind \in ObjectKinds -> "object" [] semanticKind = "cache" -> "cache" [] OTHER -> "structured"

RequiredScalar(field) == field.type.kind \in ScalarKinds /\ field.cardinality = "one" /\ ~field.nullable

IndexedTypes == {<<"fullText", "string">>, <<"geospatial", "wgs84Point">>, <<"relationEndpoint", "recordRef">>}

\* _validate_index_types
IndexFits(doc, index) ==
  /\ Range(index.fields) \subseteq DOMAIN doc.fields
  /\ \A pair \in IndexedTypes : index.kind = pair[1] =>
       \A f \in Range(index.fields) : doc.fields[f].type.kind = pair[2]

\* What is judged before the profile is read.
ValidShape(doc) ==
  /\ Owner(doc.semanticKind) = doc.catalog
  /\ \A f \in IdentityOf(doc) : f \in DOMAIN doc.fields /\ RequiredScalar(doc.fields[f])
  /\ doc.identity = <<>> => doc.semanticKind \in ObjectKinds
  /\ WellFormed(doc)
  /\ \A name \in DOMAIN doc.indexes : IndexFits(doc, doc.indexes[name])

\* _require_fields, _require_kind
Plays(doc, f, role) == f \in DOMAIN doc.fields /\ doc.fields[f].type.kind \in role.kinds

\* A relation-endpoint index on this field alone.
EndpointIndexed(doc, f) ==
  \E name \in DOMAIN doc.indexes :
    doc.indexes[name].kind = "relationEndpoint" /\ doc.indexes[name].fields = <<f>>

\* _validate_profile; what else a relation declares is in RelationRecords.
ValidProfile(doc) ==
  LET profile == doc.profile
  IN  IF profile.kind = "none" THEN doc.semanticKind \in {"relational", "object"}
      ELSE
        /\ IF profile.kind \in ObjectKinds THEN doc.semanticKind \in ObjectKinds
                                           ELSE doc.semanticKind = profile.kind
        /\ \A role \in DOMAIN profile.roles : \A f \in Names(role, profile.roles[role]) :
             Plays(doc, f, Roles[profile.kind][role])
        /\ profile.kind = "keyValue" =>
             \A f \in Range(profile.roles.keyField) : RequiredScalar(doc.fields[f])
        /\ profile.kind = "relation" =>
             \A role \in DOMAIN profile.roles : \A f \in Range(profile.roles[role]) : EndpointIndexed(doc, f)
        /\ profile.kind = "artifact" => doc.labels.policies.lineage

\* What SchemaAPI.publish makes of a definition: a TypeError or ValueError becomes an
\* InvalidDefinition (which stands for its siblings here), a KeyError is nobody's.
Outcome(catalog, definition) ==
  IF ~Readable(catalog, definition) THEN "InvalidDefinition"
  ELSE LET doc   == ReadDocument(catalog, definition)
           given == doc.labels.extensions.profile
       IN  IF ~ValidShape(doc)                                    THEN "InvalidDefinition"
           ELSE IF given.kind # "none" /\ LacksMember(given)      THEN "KeyError"
           ELSE IF given.kind # "none" /\ ~ReadableProfile(given) THEN "InvalidDefinition"
           ELSE IF ~ValidProfile(doc)                             THEN "InvalidDefinition"
                                                                  ELSE "ok"

-----------------------------------------------------------------------------
Catalogs == {"structured", "object", "cache"}

\* The documents that come of definitions nobody refuses.
Publishable ==
  UNION {{ReadDocument(catalog, definition) :
            definition \in {d \in Definitions : Outcome(catalog, d) = "ok"}} : catalog \in Catalogs}

ASSUME PublishableAssumption == Publishable \subseteq Documents
ASSUME IntegersAssumption == DOMAIN Width \subseteq {"int8", "int16", "int32", "int64"}

DocInit == Init /\ document \in Publishable

\* SchemaAPI.publish under the address of the Schema
PublishDefinition(allowBreaking) ==
  \E target \in Publishable : target.catalog = document.catalog /\ Publish(target, allowBreaking)

DocNext ==
  \/ \E allowBreaking \in BOOLEAN : PublishDefinition(allowBreaking)
  \/ \E given \in Inputs : Write(given)

DocSpec == DocInit /\ [][DocNext]_vars

(* What is read of a published Schema can be published: from_definition and  *)
(* validate_schema take what to_dict wrote for the same document, with the   *)
(* same fingerprint.  Otherwise a replay would be a conflict, and a registry *)
(* that stores documents would lose what it was given.                       *)
ReadBackIsTheSame ==
  LET written == WriteDocument(document)
  IN  /\ Outcome(document.catalog, written) = "ok"
      /\ ReadDocument(document.catalog, written) = document

(* Whoever knows an older version goes on working while nothing broke: the   *)
(* fields that played a role in its profile are still there with a kind that *)
(* can play it, and the endpoints of a relation still have their index,      *)
(* although the profile may have changed and each version was judged alone.  *)
RolesStayOpen ==
  worst < Breaking =>
    /\ \A role \in DOMAIN origin.profile.roles :
         \A f \in Names(role, origin.profile.roles[role]) :
           /\ f \in DOMAIN document.fields
           /\ document.fields[f].type.kind \in Roles[origin.profile.kind][role].kinds
    /\ origin.profile.kind = "relation" =>
         \A role \in DOMAIN origin.profile.roles : \A f \in Range(origin.profile.roles[role]) :
           EndpointIndexed(document, f)
=============================================================================
