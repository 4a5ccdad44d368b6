-------------------------- MODULE CatalogOperations --------------------------
(***************************************************************************)
(* The structured and the cache Catalog (catalogs.py) beside SchemaAPI:    *)
(* a surface turns a call into an Expression, a provider plans it as an    *)
(* Operation or refuses it, and Core has an Engine execute the Operation.  *)
(* An Operation that is flagged idempotent may be executed again, late.    *)
(*                                                                         *)
(* Planning has no state of its own.  What it decides shows when Operations*)
(* of several clients are executed in any order: whether the version a     *)
(* client named is still the one that is compared, and whether an          *)
(* Operation may be repeated.  traverse is planned in NeighborTraversal.   *)
(***************************************************************************)
EXTENDS SchemaClients

CONSTANTS
  Asks,          \* calls of a surface, and Expressions made by hand
  NotNamed,      \* no version is named
  MaxSent,       \* bound: Operations that are sent
  MaxDeliveries  \* bound: how often Core has one Operation executed

VARIABLES
  sent,     \* the Operations that write, in the order they were planned in
  entry,    \* external: the version of the one Record or cache entry, if any
  issued    \* external: the next version the Engine gives; none is given twice

SentIds == 1..MaxSent

catalogVars == <<sent, entry, issued>>
allVars == <<vars, catalogVars>>

-----------------------------------------------------------------------------
(* Arguments and what a provider accepts *)

\* A value: its JSON kind, and the number where one matters.  "empty" is an
\* array without items; the modes of put are texts.
Value(kind) == [kind |-> kind, number |-> 0]
Number(n)   == [kind |-> "integer", number |-> n]

Modes == {"if_absent", "update", "upsert"}
Texts == {"text"} \cup Modes

\* The arguments an Expression has to have, by Catalog and method.
Required ==
  [structured |->
     [publish_schema  |-> {"namespace", "name", "version", "definition", "allowBreaking"},
      create_resource |-> {"namespace", "name", "schema", "options"},
      put       |-> {"resource", "data", "mode"},
      get       |-> {"resource", "where"},
      patch     |-> {"resource", "where", "changes"},
      delete    |-> {"resource", "where"},
      query     |-> {"resource", "where", "select", "orderBy", "limit"},
      search    |-> {"resource", "query", "where", "facets", "highlights", "limit"},
      aggregate |-> {"resource", "metrics", "groupBy", "where"}],
   cache |->
     [create_resource |-> {"namespace", "name", "options"},
      get             |-> {"resource", "key"},
      put             |-> {"resource", "key", "value"},
      put_if_absent   |-> {"resource", "key", "value"},
      compare_and_set |-> {"resource", "key", "expectedVersion", "value"},
      delete          |-> {"resource", "key"},
      invalidate      |-> {"resource", "selector"}]]

Catalogs == DOMAIN Required

\* What a registering ask is about is a Schema version or a Collection; numbers
\* are told from the values that stand for "none".
ASSUME AsksAssumption ==
  /\ Absent \notin Int /\ NotNamed \notin Int /\ AnyRevision \notin Nat
  /\ Absent \notin Registry!Publication /\ Absent \notin Registry!Collection
  /\ \A ask \in Asks :
       /\ ask.provider \in Catalogs
       /\ \A p \in DOMAIN ask.given : ask.given[p].number \in Int
       /\ ask.method = "publish_schema"
            => ask.about \in [id : SchemaIds, version : Versions, body : Bodies]
       /\ ask.method = "create_resource"
            => ask.about \in [ref : Resources, schema : Registry!SchemaRefs]

\* Mutant: an entry that is put if absent has no source version.
OptionalWithoutSource(catalog, method) ==
  CASE catalog = "structured" /\ method \in {"put", "patch", "delete"} -> {"expectedVersion"}
    [] method = "publish_schema"                       -> {"expectedRegistryRevision"}
    [] method \in {"query", "search"}                  -> {"cursor"}
    [] <<catalog, method>> = <<"cache", "put">>        -> {"ttlMs", "sourceVersion"}
    [] method \in {"put_if_absent", "compare_and_set"} -> {"ttlMs"}
    [] OTHER                                           -> {}

Optional(catalog, method) ==
  CASE catalog = "structured" /\ method \in {"put", "patch", "delete"} -> {"expectedVersion"}
    [] method = "publish_schema"                                -> {"expectedRegistryRevision"}
    [] method \in {"query", "search"}                           -> {"cursor"}
    [] catalog = "cache" /\ method \in {"put", "put_if_absent"} -> {"ttlMs", "sourceVersion"}
    [] method = "compare_and_set"                               -> {"ttlMs"}
    [] OTHER                                                    -> {}

\* What a value has to be under its argument; the texts that are parsed further
\* (references, names, versions) are well-formed here.
RegistryAdmits(argument, value) ==
  CASE argument \in {"definition", "schema", "options"} -> value.kind = "object"
    [] argument \in {"namespace", "name", "version"}    -> value.kind \in Texts
    [] argument = "allowBreaking"                       -> value.kind = "boolean"
    [] argument = "expectedRegistryRevision"            ->
         value.kind = "null" \/ (value.kind = "integer" /\ value.number >= 0)

DataAdmits(argument, value) ==
  CASE argument \in {"data", "where", "changes", "selector"} -> value.kind = "object"
    [] argument \in {"select", "facets", "highlights", "groupBy"} ->
         value.kind \in {"texts", "empty"}
    [] argument \in {"orderBy", "metrics"} -> value.kind \in {"objects", "empty"}
    [] argument \in {"resource", "query"}  -> value.kind \in Texts \cup {"object"}
    [] argument = "mode"                   -> value.kind \in Modes
    [] argument \in {"expectedVersion", "sourceVersion"} ->
         value.kind \in Texts \cup {"null", "integer"}
    [] argument = "cursor" -> value.kind \in Texts \cup {"null"}
    [] argument = "limit"  -> value.kind = "integer" /\ value.number \in 1..10000
    [] argument = "ttlMs"  -> value.kind = "integer" /\ value.number > 0
    [] OTHER               -> TRUE       \* key and value may be anything

RegistryArguments ==
  {"definition", "schema", "options", "namespace", "name", "version", "allowBreaking",
   "expectedRegistryRevision"}

Admits(argument, value) ==
  IF argument \in RegistryArguments THEN RegistryAdmits(argument, value)
                                    ELSE DataAdmits(argument, value)

Given(arguments, argument) ==
  argument \in DOMAIN arguments /\ arguments[argument].kind # "null"

\* _normalize, up to the contract: the Operation is planned, or InvalidDefinition.
Plannable(provider, expression) ==
  LET arguments == expression.arguments
      required  == Required[provider][expression.method]
  IN  /\ expression.catalog = provider
      /\ expression.method \in DOMAIN Required[provider]
      /\ required \subseteq DOMAIN arguments
      /\ DOMAIN arguments \subseteq required \cup Optional(provider, expression.method)
      /\ \A argument \in DOMAIN arguments : Admits(argument, arguments[argument])
      /\ <<provider, expression.method>> = <<"structured", "put">>
           => ~(arguments.mode.kind = "if_absent" /\ Given(arguments, "expectedVersion"))

-----------------------------------------------------------------------------
(* The surfaces *)

Parameters ==
  [structured |->
     [publish_schema  |-> {"namespace", "name", "version", "definition", "allowBreaking",
                           "expectedRegistryRevision"},
      create_resource |-> {"namespace", "name", "schema", "options"},
      put       |-> {"resource", "data", "mode", "expectedVersion"},
      get       |-> {"resource", "where"},
      patch     |-> {"resource", "where", "changes", "expectedVersion"},
      delete    |-> {"resource", "where", "expectedVersion"},
      query     |-> {"resource", "where", "select", "orderBy", "limit", "cursor"},
      search    |-> {"resource", "query", "where", "facets", "highlights", "limit", "cursor"},
      aggregate |-> {"resource", "metrics", "groupBy", "where"}],
   cache |->
     [create_resource |-> {"namespace", "name", "options"},
      get             |-> {"resource", "key"},
      put             |-> {"resource", "key", "value", "ttlMs", "sourceVersion"},
      put_if_absent   |-> {"resource", "key", "value", "ttlMs", "sourceVersion"},
      compare_and_set |-> {"resource", "key", "expectedVersion", "value", "ttlMs"},
      delete          |-> {"resource", "key"},
      invalidate      |-> {"resource", "selector"}]]

\* Mutant: a parameter is left out when it is false, as version 0 is.
LeftOutIfFalse(method, parameter, value) ==
  /\ parameter \in {"expectedVersion", "expectedRegistryRevision", "cursor", "ttlMs",
                    "sourceVersion"}
  /\ method # "compare_and_set" \/ parameter # "expectedVersion"
  /\ value.kind = "null" \/ (value.kind = "integer" /\ value.number = 0)

\* A parameter that is None is left out; only compare_and_set passes a version
\* of None on.
LeftOut(method, parameter, value) ==
  /\ parameter \in {"expectedVersion", "expectedRegistryRevision", "cursor", "ttlMs",
                    "sourceVersion"}
  /\ method # "compare_and_set" \/ parameter # "expectedVersion"
  /\ value.kind = "null"

Express(catalog, method, given) ==
  LET kept == {p \in DOMAIN given : ~LeftOut(method, p, given[p])}
      optionalObject(p) == p \in {"where", "options"} /\ given[p].kind = "null"
  IN  [catalog |-> catalog, method |-> method,
       arguments |-> [p \in kept |-> IF optionalObject(p) THEN Value("object") ELSE given[p]]]

-----------------------------------------------------------------------------
(* The Operation *)

ReadOnly == {"get", "query", "search", "aggregate"}

\* Every other method is flagged idempotent always.
Conditional == {<<"structured", "patch">>, <<"structured", "delete">>, <<"cache", "compare_and_set">>}

\* Mutant: the key decides, also where its value is null.
IdempotentByKey(catalog, method, input) ==
  <<catalog, method>> \in Conditional =>
    {"expectedVersion", "ifMatch", "createOnly"} \cap DOMAIN input # {}

Idempotent(catalog, method, input) ==
  <<catalog, method>> \in Conditional =>
    \E key \in {"expectedVersion", "ifMatch", "createOnly"} : Given(input, key)

\* A put without a version has none; elsewhere a null stays in the input.
Input(provider, method, arguments) ==
  [key \in IF <<provider, method>> = <<"structured", "put">> /\ ~Given(arguments, "expectedVersion")
             THEN DOMAIN arguments \ {"expectedVersion"} ELSE DOMAIN arguments
     |-> arguments[key]]

Operation(provider, expression) ==
  LET input == Input(provider, expression.method, expression.arguments)
  IN  [catalog |-> provider, method |-> expression.method, input |-> input,
       idempotent |-> Idempotent(provider, expression.method, input)]

-----------------------------------------------------------------------------
(* Clients plan *)

Numbered(arguments, key) == IF Given(arguments, key) THEN arguments[key].number ELSE NotNamed

\* What the client wants to find when its Operation writes: the version or the
\* registry revision it named, or nothing at all.
Named(ask) ==
  IF "mode" \in DOMAIN ask.given /\ ask.given.mode.kind = "if_absent" THEN Absent
  ELSE IF ask.method = "publish_schema" THEN Numbered(ask.given, "expectedRegistryRevision")
                                        ELSE Numbered(ask.given, "expectedVersion")

Message(operation, ask) ==
  [operation |-> operation, about |-> ask.about, named |-> Named(ask),
   delivered |-> 0, effects |-> 0, replaced |-> {}]

Plan(c, ask) ==
  LET expression == IF ask.bySurface THEN Express(ask.catalog, ask.method, ask.given)
                    ELSE [catalog |-> ask.catalog, method |-> ask.method, arguments |-> ask.given]
      accepted   == Plannable(ask.provider, expression)
      unused     == {k \in SentIds : sent[k] = Absent}
  IN  /\ Starting(c, [op |-> "plan"])
      /\ Answering(c, IF accepted THEN "planned" ELSE "InvalidDefinition")
      /\ IF accepted /\ ask.method \notin ReadOnly
           THEN \E k \in unused :
                  /\ \A j \in unused : k <= j
                  /\ sent' = [sent EXCEPT ![k] = Message(Operation(ask.provider, expression), ask)]
           ELSE UNCHANGED sent
      /\ UNCHANGED <<registryVars, recalled, rebased, entry, issued>>

-----------------------------------------------------------------------------
(* External: Core has Operations executed, each at least once if at all.     *)

MayDeliver(k) ==
  /\ sent[k] # Absent /\ sent[k].delivered < MaxDeliveries
  /\ sent[k].delivered = 0 \/ sent[k].operation.idempotent

\* The Operation of k was executed, and found this if it took effect.
Delivered(k, effective, found) ==
  sent' = [sent EXCEPT ![k].delivered = @ + 1,
                       ![k].effects   = IF effective THEN @ + 1 ELSE @,
                       ![k].replaced  = IF effective THEN @ \cup {found} ELSE @]

NeedsNothing(operation) ==
  \/ operation.method = "put_if_absent"
  \/ "mode" \in DOMAIN operation.input /\ operation.input.mode.kind = "if_absent"

NeedsSomething(operation) ==
  \/ operation.method \in {"patch", "delete", "invalidate", "compare_and_set"}
  \/ "mode" \in DOMAIN operation.input /\ operation.input.mode.kind = "update"

\* What the conformance cases of put expect of an Engine, and the other methods
\* alike: a version that is named is compared, 0 like any other.
TakesEffect(operation, at) ==
  /\ Numbered(operation.input, "expectedVersion") \in {NotNamed, at}
  /\ NeedsNothing(operation)   => at = Absent
  /\ NeedsSomething(operation) => at # Absent

Registering == {"publish_schema", "create_resource"}

ExecuteData(k) ==
  /\ MayDeliver(k) /\ sent[k].operation.method \notin Registering
  /\ LET operation == sent[k].operation
         catalog   == operation.catalog
         effective == TakesEffect(operation, entry[catalog])
         removes   == operation.method \in {"delete", "invalidate"}
     IN  /\ Delivered(k, effective, entry[catalog])
         /\ entry' = IF effective
                       THEN [entry EXCEPT ![catalog] = IF removes THEN Absent ELSE issued]
                       ELSE entry
         /\ issued' = IF effective /\ ~removes THEN issued + 1 ELSE issued
         /\ UNCHANGED vars

\* The Engine publishes as SchemaAPI does.
ExecutePublish(k) ==
  /\ MayDeliver(k) /\ sent[k].operation.method = "publish_schema"
  /\ LET about    == sent[k].about
         expected == Numbered(sent[k].operation.input, "expectedRegistryRevision")
         request  == [id |-> about.id, version |-> about.version, body |-> about.body,
                      allowBreaking |-> FALSE,
                      expected |-> IF expected = NotNamed THEN AnyRevision ELSE expected]
         effective == PublishResult(request) = "published"
     IN  /\ Delivered(k, effective, revision)
         /\ IF effective
              THEN Registry!PublishSchema(request.id, request.version, request.body,
                                          request.expected, FALSE)
              ELSE UNCHANGED registryVars
         /\ UNCHANGED <<pc, call, outcome, retried, recalled, rebased, made, entry, issued>>

ExecuteCreate(k) ==
  /\ MayDeliver(k) /\ sent[k].operation.method = "create_resource"
  /\ LET about     == sent[k].about
         effective == Registry!CreateOutcome(about.ref, about.schema, AnyRevision) = "created"
     IN  /\ Delivered(k, effective, revision)
         /\ IF effective
              THEN Registry!CreateCollection(about.ref, about.schema, AnyRevision)
              ELSE UNCHANGED registryVars
         /\ UNCHANGED <<pc, call, outcome, retried, recalled, rebased, made, entry, issued>>

-----------------------------------------------------------------------------
CatalogInit ==
  /\ Init
  /\ sent   = [k \in SentIds |-> Absent]
  /\ entry \in [Catalogs -> {Absent, 0}]
  /\ issued = 1

CatalogNext ==
  \/ Next /\ UNCHANGED catalogVars
  \/ \E c \in Clients, ask \in Asks : Plan(c, ask)
  \/ \E k \in SentIds : ExecuteData(k) \/ ExecutePublish(k) \/ ExecuteCreate(k)

CatalogSpec == CatalogInit /\ [][CatalogNext]_allVars

-----------------------------------------------------------------------------
\* What the signatures of the surfaces allow, with the limits of the documents.
Typed(catalog, method, parameter) ==
  CASE parameter \in {"data", "changes", "selector", "definition", "schema"} -> {Value("object")}
    [] parameter \in {"where", "options"} ->
         {Value("object")} \cup IF method \in {"query", "search", "aggregate", "create_resource"}
                                  THEN {Value("null")} ELSE {}
    [] parameter \in {"select", "facets", "highlights", "groupBy"} -> {Value("texts"), Value("empty")}
    [] parameter \in {"orderBy", "metrics"}           -> {Value("objects"), Value("empty")}
    [] parameter \in {"resource", "query"}            -> {Value("text"), Value("object")}
    [] parameter \in {"namespace", "name", "version"} -> {Value("text")}
    [] parameter = "mode"          -> {Value(mode) : mode \in Modes}
    [] parameter = "limit"         -> {Number(1), Number(10000)}
    [] parameter = "allowBreaking" -> {Value("boolean")}
    [] parameter = "ttlMs"         -> {Value("null"), Number(1)}
    [] parameter = "cursor"        -> {Value("null"), Value("text")}
    [] parameter \in {"expectedVersion", "sourceVersion"} ->
         {Value("text"), Number(0), Number(1)}
         \cup IF method = "compare_and_set" THEN {} ELSE {Value("null")}
    [] OTHER -> {Value("text"), Value("null")}

TypedCalls(catalog, method) ==
  LET parameters == Parameters[catalog][method]
      values     == UNION {Typed(catalog, method, p) : p \in parameters}
  IN  {given \in [parameters -> values] :
         \A p \in parameters : given[p] \in Typed(catalog, method, p)}

Speaks(catalog, method, given) ==
  LET expression == Express(catalog, method, given)
      input      == Operation(catalog, expression).input
  IN  /\ Plannable(catalog, expression)
      /\ \A p \in DOMAIN given :
           Given(given, p) => p \in DOMAIN input /\ input[p] = given[p]

RefusedPut(given) ==
  "mode" \in DOMAIN given /\ given.mode.kind = "if_absent" /\ Given(given, "expectedVersion")

DataMethods ==
  {pair \in Catalogs \X UNION {DOMAIN Parameters[catalog] : catalog \in Catalogs} :
     pair[2] \in DOMAIN Parameters[pair[1]] \ {"publish_schema"}}

DataCalls ==
  UNION {{<<pair[1], pair[2], given>> : given \in TypedCalls(pair[1], pair[2])} :
           pair \in DataMethods}

DataSurfacesSpeak ==
  \A asked \in DataCalls : Speaks(asked[1], asked[2], asked[3]) \/ RefusedPut(asked[3])

(* What a surface lets its callers say, the provider of its Catalog accepts, *)
(* and the Operation carries all of it, the registry revision a caller has   *)
(* just seen included: the parameters of the surfaces (catalogs.py 104-366)  *)
(* and the arguments the providers admit (505-684) are two tables that       *)
(* nothing compares.  Only a put of mode if_absent with a version is refused.*)
(* (The calls on data are looked at once, before any client has made one.)   *)
SurfaceSpeaksTheContract ==
  /\ (\A c \in Clients : made[c] = 0) => DataSurfacesSpeak
  /\ \A pin \in {Value("null"), Number(0), Number(revision)} :
       Speaks("structured", "publish_schema",
              [p \in Parameters.structured.publish_schema |->
                 IF p = "expectedRegistryRevision" THEN pin
                 ELSE CHOOSE v \in Typed("structured", "publish_schema", p) : TRUE])

(* A write whose client named a version replaces that version and no other,  *)
(* a publication that named a registry revision is made at that revision,    *)
(* and a put of mode if_absent replaces nothing: no update of another client *)
(* is lost, whichever Operations were executed in between, again or late.    *)
NoLostUpdate ==
  \A k \in SentIds : sent[k] # Absent /\ sent[k].named # NotNamed =>
    sent[k].replaced \subseteq {sent[k].named}

(* An Operation that names a version, that changes the registry, or whose    *)
(* idempotency depends on its arguments takes effect once at most, however   *)
(* often and late Core repeats it on the strength of its idempotent flag.    *)
RepeatsAreHarmless ==
  \A k \in SentIds : sent[k] # Absent =>
    \/ sent[k].effects <= 1
    \/ /\ sent[k].operation.method \notin Registering
       /\ sent[k].named \in {NotNamed, Absent}
       /\ <<sent[k].operation.catalog, sent[k].operation.method>> \notin Conditional
=============================================================================
