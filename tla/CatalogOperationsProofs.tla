------------------------ MODULE CatalogOperationsProofs ------------------------
(***************************************************************************)
(* Why no update is lost and why an Operation may be repeated, for any     *)
(* number of clients, Operations and repetitions.  What a client named     *)
(* reaches the Engine unchanged; what has taken effect once leaves a trace *)
(* that keeps it from taking effect again: a version that stays known, a   *)
(* Collection that stays, or a version that is gone and never given again. *)
(***************************************************************************)
EXTENDS CatalogOperations, TLAPS

WellFormed(request) ==
  /\ request.op \in {"publish", "update", "deprecate", "read"}
  /\ request.op \in {"publish", "update", "deprecate"}
       => request.id \in SchemaIds /\ request.version \in Versions
  /\ request.op \in {"publish", "update"}
       => request.body \in Bodies /\ request.allowBreaking \in BOOLEAN

Shape ==
  /\ schemas \in [SchemaIds -> [Versions -> Registry!Publication \cup {Absent}]]
  /\ resources \in [Resources -> Registry!Collection \cup {Absent}]
  /\ DOMAIN pc = Clients /\ DOMAIN call = Clients /\ DOMAIN outcome = Clients

\* What a client may repeat, or is in the middle of, is a call that can be made.
CallsKept ==
  \A c \in Clients :
    /\ outcome[c] \in Succeeded => WellFormed(call[c])
    /\ pc[c] = "publishing" => WellFormed(call[c]) /\ call[c].op = "update"

\* Nothing in the registry is ever taken back.
RegistryGrows ==
  /\ \A id \in SchemaIds, v \in Versions : Registry!Known(id, v) => Registry!Known(id, v)'
  /\ \A r \in Resources : resources[r] # Absent => resources'[r] # Absent

Engine ==
  /\ DOMAIN entry = Catalogs /\ DOMAIN sent = SentIds /\ issued \in Int
  /\ \A catalog \in Catalogs :
       entry[catalog] = Absent \/ (entry[catalog] \in Int /\ entry[catalog] < issued)

IsMessage(m) ==
  \E operation, about, named, delivered, effects, replaced :
    m = [operation |-> operation, about |-> about, named |-> named,
         delivered |-> delivered, effects |-> effects, replaced |-> replaced]

IsConditional(m) == <<m.operation.catalog, m.operation.method>> \in Conditional

\* What the Operation compares is what its client named.
Linked(m) ==
  /\ m.operation.catalog \in Catalogs
  /\ m.operation.method = "publish_schema" =>
       /\ m.about.id \in SchemaIds /\ m.about.version \in Versions /\ m.about.body \in Bodies
       /\ Numbered(m.operation.input, "expectedRegistryRevision") = m.named
       /\ m.named = NotNamed \/ m.named \in Nat
  /\ m.operation.method = "create_resource" =>
       m.about.ref \in Resources /\ m.about.schema \in Registry!SchemaRefs /\ m.named = NotNamed
  /\ m.operation.method \notin Registering =>
       \/ m.named = Absent /\ NeedsNothing(m.operation) /\ ~IsConditional(m)
       \/ /\ Numbered(m.operation.input, "expectedVersion") = m.named
          /\ m.named = NotNamed \/ m.named \in Int
  /\ IsConditional(m) /\ m.operation.idempotent => m.named # NotNamed

Counted(m) ==
  /\ m.delivered \in Nat /\ m.effects \in Nat /\ m.effects <= m.delivered
  /\ ~m.operation.idempotent => m.delivered <= 1

Kept(m) == m.named # NotNamed => m.replaced \subseteq {m.named}

\* May take effect more than once.
Repeatable(m) ==
  /\ m.operation.method \notin Registering
  /\ m.named \in {NotNamed, Absent}
  /\ ~IsConditional(m)

\* What has taken effect has left a trace.
Traced(m) ==
  /\ m.effects <= 1 \/ Repeatable(m)
  /\ m.effects > 0 =>
       /\ m.operation.method = "publish_schema" => Registry!Known(m.about.id, m.about.version)
       /\ m.operation.method = "create_resource" => resources[m.about.ref] # Absent
       /\ m.operation.method \notin Registering /\ m.named \notin {NotNamed, Absent} =>
            m.named < issued /\ entry[m.operation.catalog] # m.named

Sound(m) == IsMessage(m) /\ Linked(m) /\ Counted(m) /\ Kept(m) /\ Traced(m)

SentSound == \A k \in SentIds : sent[k] # Absent => Sound(sent[k])

CInv == Shape /\ CallsKept /\ Engine /\ SentSound

-----------------------------------------------------------------------------
(* Planning *)

LEMMA TwoCatalogs == Catalogs = {"structured", "cache"}
BY DEF Catalogs, Required

(* A registering method belongs to the structured Catalog and has no mode;   *)
(* neither has a conditional one, nor one of the keys the contracts consult  *)
(* beside expectedVersion.                                                   *)
LEMMA WhatMethodsAdmit ==
  ASSUME NEW p \in Catalogs, NEW method \in DOMAIN Required[p],
         NEW key \in Required[p][method] \cup Optional(p, method)
  PROVE  /\ method \in Registering => key \notin {"mode", "expectedVersion"}
         /\ <<p, method>> \in Conditional => key \notin {"mode", "ifMatch", "createOnly"}
         /\ key = "expectedRegistryRevision" => method = "publish_schema"
<1>1. CASE p = "structured"
  BY <1>1 DEF Required, Optional, Registering, Conditional
<1>2. CASE p = "cache"
  BY <1>2 DEF Required, Optional, Registering, Conditional
<1> QED
  BY <1>1, <1>2, TwoCatalogs

Expression(ask) ==
  IF ask.bySurface THEN Express(ask.catalog, ask.method, ask.given)
  ELSE [catalog |-> ask.catalog, method |-> ask.method, arguments |-> ask.given]

(* What a surface leaves out was null, and it changes no version, revision   *)
(* or mode.                                                                  *)
LEMMA ExpressCarries ==
  ASSUME NEW ask
  PROVE  LET arguments == Expression(ask).arguments
         IN  /\ Expression(ask).catalog = ask.catalog /\ Expression(ask).method = ask.method
             /\ DOMAIN arguments \subseteq DOMAIN ask.given
             /\ "mode" \in DOMAIN ask.given =>
                  "mode" \in DOMAIN arguments /\ arguments["mode"] = ask.given["mode"]
             /\ \A key \in {"expectedVersion", "expectedRegistryRevision"} :
                  /\ Given(arguments, key) <=> Given(ask.given, key)
                  /\ key \in DOMAIN arguments => arguments[key] = ask.given[key]
<1>1. CASE ask.bySurface
  <2> DEFINE given == ask.given
             kept == {p \in DOMAIN given : ~LeftOut(ask.method, p, given[p])}
             optionalObject(p) == p \in {"where", "options"} /\ given[p].kind = "null"
             arguments == [p \in kept |-> IF optionalObject(p) THEN Value("object") ELSE given[p]]
  <2>1. /\ Expression(ask).arguments = arguments
        /\ Expression(ask).catalog = ask.catalog /\ Expression(ask).method = ask.method
    BY <1>1 DEF Expression, Express
  <2>2. DOMAIN arguments = kept
    OBVIOUS
  <2>3. ASSUME NEW p \in kept, p \notin {"where", "options"} PROVE arguments[p] = given[p]
    BY <2>3
  <2>4. "mode" \in DOMAIN given => "mode" \in kept
    BY DEF LeftOut
  <2>5. ASSUME NEW p \in DOMAIN given, given[p].kind # "null" PROVE p \in kept
    BY <2>5 DEF LeftOut
  <2> HIDE DEF arguments
  <2>6. \A key \in {"expectedVersion", "expectedRegistryRevision"} :
          /\ Given(arguments, key) <=> Given(given, key)
          /\ key \in DOMAIN arguments => arguments[key] = given[key]
    <3> SUFFICES ASSUME NEW key \in {"expectedVersion", "expectedRegistryRevision"}
                 PROVE  /\ Given(arguments, key) <=> Given(given, key)
                        /\ key \in DOMAIN arguments => arguments[key] = given[key]
      OBVIOUS
    <3>1. key \in kept => arguments[key] = given[key]
      BY <2>3
    <3>2. key \in kept => key \in DOMAIN given
      OBVIOUS
    <3> HIDE DEF kept
    <3> QED
      BY <2>2, <2>5, <3>1, <3>2 DEF Given
  <2> QED
    BY <2>1, <2>2, <2>3, <2>4, <2>6
<1>2. CASE ~ask.bySurface
  BY <1>2 DEF Expression
<1> QED
  BY <1>1, <1>2

(* The Operation carries the version, the revision and the mode.             *)
LEMMA InputCarries ==
  ASSUME NEW provider, NEW method, NEW arguments
  PROVE  LET input == Input(provider, method, arguments)
         IN  /\ DOMAIN input \subseteq DOMAIN arguments
             /\ "mode" \in DOMAIN arguments =>
                  "mode" \in DOMAIN input /\ input["mode"] = arguments["mode"]
             /\ \A key \in {"expectedVersion", "expectedRegistryRevision"} :
                  /\ Given(input, key) <=> Given(arguments, key)
                  /\ key \in DOMAIN input => input[key] = arguments[key]
BY DEF Input, Given

LEMMA PlannedIsSound ==
  ASSUME NEW ask \in Asks, Plannable(ask.provider, Expression(ask))
  PROVE  Sound(Message(Operation(ask.provider, Expression(ask)), ask))
<1> DEFINE arguments == Expression(ask).arguments
           method == ask.method
           provider == ask.provider
           input == Input(provider, method, arguments)
           operation == Operation(provider, Expression(ask))
           m == Message(operation, ask)
           VersionKeys == {"expectedVersion", "expectedRegistryRevision"}
<1>1. /\ provider \in Catalogs /\ ask.catalog = provider
      /\ method \in DOMAIN Required[provider]
      /\ DOMAIN arguments \subseteq Required[provider][method] \cup Optional(provider, method)
      /\ \A key \in DOMAIN arguments : Admits(key, arguments[key])
  BY ExpressCarries, AsksAssumption DEF Plannable
<1>2. operation = [catalog |-> provider, method |-> method, input |-> input,
                   idempotent |-> Idempotent(provider, method, input)]
  BY ExpressCarries DEF Operation
<1>3. m = [operation |-> operation, about |-> ask.about, named |-> Named(ask),
           delivered |-> 0, effects |-> 0, replaced |-> {}]
  BY DEF Message
<1>4. /\ DOMAIN input \subseteq Required[provider][method] \cup Optional(provider, method)
      /\ "mode" \in DOMAIN ask.given =>
           "mode" \in DOMAIN input /\ input["mode"] = ask.given["mode"]
      /\ \A key \in VersionKeys :
           /\ Given(input, key) <=> Given(ask.given, key)
           /\ Given(input, key) => input[key] = ask.given[key]
  <2>1. \A key \in VersionKeys : Given(input, key) => input[key] = ask.given[key]
    BY ExpressCarries, InputCarries DEF Given
  <2> QED
    BY <1>1, <2>1, ExpressCarries, InputCarries
<1>5. \A key \in VersionKeys : Numbered(input, key) = Numbered(ask.given, key)
  BY <1>4 DEF Numbered
<1>6. \A key \in VersionKeys :
        /\ Given(ask.given, key) => Numbered(ask.given, key) \in Int
        /\ ~Given(ask.given, key) => Numbered(ask.given, key) = NotNamed
  BY AsksAssumption DEF Numbered, Given
<1> HIDE DEF arguments, input, operation, m
<1>7. /\ m.operation = operation /\ m.about = ask.about /\ m.named = Named(ask)
      /\ m.delivered = 0 /\ m.effects = 0 /\ m.replaced = {}
      /\ operation.catalog = provider /\ operation.method = method
      /\ operation.input = input /\ operation.idempotent = Idempotent(provider, method, input)
  BY <1>2, <1>3
<1>8. IsMessage(m) /\ Counted(m) /\ Kept(m) /\ Traced(m)
  <2>1. IsMessage(m)
    BY <1>3, Zenon DEF IsMessage
  <2> QED
    BY <1>7, <2>1 DEF Counted, Kept, Traced
<1>9. "mode" \in DOMAIN ask.given => method \notin Registering /\ <<provider, method>> \notin Conditional
  BY <1>1, <1>4, WhatMethodsAdmit
<1>10. method = "publish_schema" =>
         /\ Numbered(input, "expectedRegistryRevision") = Named(ask)
         /\ Named(ask) = NotNamed \/ Named(ask) \in Nat
  <2> SUFFICES ASSUME method = "publish_schema"
               PROVE  /\ Numbered(input, "expectedRegistryRevision") = Named(ask)
                      /\ Named(ask) = NotNamed \/ Named(ask) \in Nat
    OBVIOUS
  <2>1. Named(ask) = Numbered(ask.given, "expectedRegistryRevision")
    BY <1>9 DEF Named, Registering
  <2>2. ASSUME Given(ask.given, "expectedRegistryRevision")
        PROVE  Numbered(ask.given, "expectedRegistryRevision") \in Nat
    <3>1. /\ Given(arguments, "expectedRegistryRevision")
          /\ arguments["expectedRegistryRevision"] = ask.given["expectedRegistryRevision"]
      BY <2>2, ExpressCarries DEF arguments, Given
    <3>2. Admits("expectedRegistryRevision", ask.given["expectedRegistryRevision"])
      BY <1>1, <3>1 DEF Given, arguments
    <3>3. ask.given["expectedRegistryRevision"].number >= 0
      BY <2>2, <3>2 DEF Admits, RegistryArguments, RegistryAdmits, Given
    <3> QED
      BY <2>2, <3>3, AsksAssumption DEF Numbered, Given
  <2> QED
    BY <1>5, <1>6, <2>1, <2>2
<1>11. method = "create_resource" => Named(ask) = NotNamed
  <2> SUFFICES ASSUME method = "create_resource" PROVE Named(ask) = NotNamed
    OBVIOUS
  <2>1. Named(ask) = Numbered(ask.given, "expectedVersion")
    BY <1>9 DEF Named, Registering
  <2>2. "expectedVersion" \notin DOMAIN input
    BY <1>1, <1>4, WhatMethodsAdmit DEF Registering
  <2> QED
    BY <1>5, <2>1, <2>2 DEF Numbered, Given
<1>12. method \notin Registering =>
         \/ Named(ask) = Absent /\ NeedsNothing(operation) /\ <<provider, method>> \notin Conditional
         \/ /\ Numbered(input, "expectedVersion") = Named(ask)
            /\ Named(ask) = NotNamed \/ Named(ask) \in Int
  <2>1. CASE "mode" \in DOMAIN ask.given /\ ask.given.mode.kind = "if_absent"
    BY <1>4, <1>7, <1>9, <2>1 DEF Named, NeedsNothing
  <2>2. CASE ~("mode" \in DOMAIN ask.given /\ ask.given.mode.kind = "if_absent")
    BY <1>5, <1>6, <2>2 DEF Named, Registering
  <2> QED
    BY <2>1, <2>2
<1>13. <<provider, method>> \in Conditional /\ Idempotent(provider, method, input)
         => Named(ask) # NotNamed
  <2> SUFFICES ASSUME <<provider, method>> \in Conditional, Idempotent(provider, method, input)
               PROVE  Named(ask) # NotNamed
    OBVIOUS
  <2>1. PICK key \in {"expectedVersion", "ifMatch", "createOnly"} : Given(input, key)
    BY DEF Idempotent
  <2>2. key = "expectedVersion"
    BY <1>1, <1>4, <2>1, WhatMethodsAdmit DEF Given
  <2>3. Numbered(ask.given, "expectedVersion") \in Int
    BY <1>4, <1>6, <2>1, <2>2
  <2>4. Named(ask) = Numbered(ask.given, "expectedVersion")
    BY <1>9 DEF Named, Conditional
  <2> QED
    BY <2>3, <2>4, AsksAssumption
<1>14. Linked(m)
  BY <1>1, <1>7, <1>10, <1>11, <1>12, <1>13, AsksAssumption DEF Linked, IsConditional
<1> QED
  BY <1>8, <1>14 DEF Sound, m, operation

-----------------------------------------------------------------------------
(* The registry only grows *)

LEMMA StayGrows ==
  ASSUME Shape, UNCHANGED registryVars
  PROVE  /\ schemas' \in [SchemaIds -> [Versions -> Registry!Publication \cup {Absent}]]
         /\ resources' \in [Resources -> Registry!Collection \cup {Absent}]
         /\ RegistryGrows
BY DEF Shape, registryVars, RegistryGrows, Registry!Known

LEMMA StoredGrows ==
  ASSUME Shape, NEW id \in SchemaIds, NEW v \in Versions, NEW publication \in Registry!Publication,
         schemas' = [schemas EXCEPT ![id] = [schemas[id] EXCEPT ![v] = publication]],
         resources' = resources
  PROVE  /\ schemas' \in [SchemaIds -> [Versions -> Registry!Publication \cup {Absent}]]
         /\ resources' \in [Resources -> Registry!Collection \cup {Absent}]
         /\ RegistryGrows
         /\ schemas'[id][v] # Absent
<1>1. /\ schemas' \in [SchemaIds -> [Versions -> Registry!Publication \cup {Absent}]]
      /\ resources' \in [Resources -> Registry!Collection \cup {Absent}]
  BY DEF Shape
<1>2. schemas'[id][v] = publication /\ publication # Absent
  BY AsksAssumption DEF Shape
<1>3. ASSUME NEW i \in SchemaIds, NEW w \in Versions, schemas[i][w] # Absent
      PROVE  schemas'[i][w] # Absent
  <2>1. CASE i = id /\ w = v
    BY <1>2, <2>1
  <2>2. CASE ~(i = id /\ w = v)
    BY <1>3, <2>2 DEF Shape
  <2> QED
    BY <2>1, <2>2
<1> QED
  BY <1>1, <1>2, <1>3 DEF RegistryGrows, Registry!Known

LEMMA PublishGrows ==
  ASSUME Shape, NEW id \in SchemaIds, NEW v \in Versions, NEW body \in Bodies,
         NEW expected, NEW allow, Registry!PublishSchema(id, v, body, expected, allow)
  PROVE  /\ schemas' \in [SchemaIds -> [Versions -> Registry!Publication \cup {Absent}]]
         /\ resources' \in [Resources -> Registry!Collection \cup {Absent}]
         /\ RegistryGrows
         /\ schemas'[id][v] # Absent
<1> DEFINE publication == [body |-> body, status |-> "PUBLISHED"]
<1>1. /\ schemas' = [schemas EXCEPT ![id] = [schemas[id] EXCEPT ![v] = publication]]
      /\ resources' = resources
  BY DEF Registry!PublishSchema, Registry!StorePublication, Shape
<1>2. publication \in Registry!Publication
  BY DEF Registry!Publication
<1> HIDE DEF publication
<1> QED
  BY <1>1, <1>2, StoredGrows

LEMMA DeprecateGrows ==
  ASSUME Shape, NEW id \in SchemaIds, NEW v \in Versions,
         NEW expected, Registry!DeprecateSchema(id, v, expected)
  PROVE  /\ schemas' \in [SchemaIds -> [Versions -> Registry!Publication \cup {Absent}]]
         /\ resources' \in [Resources -> Registry!Collection \cup {Absent}]
         /\ RegistryGrows
<1> DEFINE publication == [schemas[id][v] EXCEPT !.status = "DEPRECATED"]
<1>1. /\ schemas' = [schemas EXCEPT ![id] = [schemas[id] EXCEPT ![v] = publication]]
      /\ resources' = resources
  BY DEF Registry!DeprecateSchema, Registry!StoreDeprecation, Shape
<1>2. schemas[id][v] # Absent
  BY DEF Registry!DeprecateSchema, Registry!DeprecateOutcome, Registry!Known
<1>3. publication \in Registry!Publication
  BY <1>2 DEF Shape, Registry!Publication
<1> HIDE DEF publication
<1> QED
  BY <1>1, <1>3, StoredGrows

LEMMA CreateGrows ==
  ASSUME Shape, NEW r \in Resources, NEW schema \in Registry!SchemaRefs,
         NEW expected, Registry!CreateCollection(r, schema, expected)
  PROVE  /\ schemas' \in [SchemaIds -> [Versions -> Registry!Publication \cup {Absent}]]
         /\ resources' \in [Resources -> Registry!Collection \cup {Absent}]
         /\ RegistryGrows
         /\ resources'[r] # Absent
<1> DEFINE document == [schema |-> schema, state |-> "PROVISIONING"]
<1>1. resources' = [resources EXCEPT ![r] = document] /\ schemas' = schemas
  BY DEF Registry!CreateCollection, Registry!StoreCollection
<1>2. document \in Registry!Collection
  BY DEF Registry!Collection, Registry!CollectionStates
<1>3. document # Absent
  BY <1>2, AsksAssumption
<1> HIDE DEF document
<1>4. resources'[r] = document
  BY <1>1 DEF Shape
<1>5. \A s \in Resources : resources[s] # Absent => resources'[s] # Absent
  BY <1>1, <1>3, <1>4 DEF Shape
<1>6. resources' \in [Resources -> Registry!Collection \cup {Absent}]
  BY <1>1, <1>2 DEF Shape
<1> QED
  BY <1>1, <1>3, <1>4, <1>5, <1>6 DEF Shape, RegistryGrows, Registry!Known

-----------------------------------------------------------------------------
(* The clients of SchemaAPI *)

LEMMA PinnedIsWellFormed ==
  ASSUME NEW op \in {"publish", "update", "deprecate"}, NEW request \in Pinning(op)
  PROVE  WellFormed(request) /\ request.op = op
<1>1. PICK asked \in {r \in Calls : r.op = op}, expected \in {AnyRevision, revision} :
        request = AtRevision(asked, expected)
  BY DEF Pinning
<1>2. /\ "op" \in DOMAIN asked /\ "id" \in DOMAIN asked /\ "version" \in DOMAIN asked
      /\ op # "deprecate" => /\ "body" \in DOMAIN asked /\ asked.body \in Bodies
                             /\ "allowBreaking" \in DOMAIN asked /\ asked.allowBreaking \in BOOLEAN
      /\ asked.id \in SchemaIds /\ asked.version \in Versions /\ asked.op = op
  BY CallsAssumption
<1>3. \A key \in DOMAIN asked : key # "expected" => request[key] = asked[key]
  BY <1>1 DEF AtRevision
<1> QED
  BY <1>2, <1>3 DEF WellFormed

LEMMA ReadIsWellFormed ==
  ASSUME NEW c, NEW request \in Reads(c)
  PROVE  WellFormed(request)
BY CallsAssumption DEF Reads, WellFormed

\* One client has made a step: it is idle or inside an update, with its call.
Stepped(c, request) ==
  /\ DOMAIN pc' = Clients /\ DOMAIN call' = Clients /\ DOMAIN outcome' = Clients
  /\ \A d \in Clients \ {c} : pc'[d] = pc[d] /\ call'[d] = call[d] /\ outcome'[d] = outcome[d]
  /\ c \in Clients => call'[c] = request

LEMMA SteppedKeeps ==
  ASSUME CallsKept, NEW c, NEW request, WellFormed(request), Stepped(c, request),
         c \in Clients /\ pc'[c] = "publishing" => request.op = "update"
  PROVE  CallsKept'
BY DEF CallsKept, Stepped

Grown ==
  /\ schemas' \in [SchemaIds -> [Versions -> Registry!Publication \cup {Absent}]]
  /\ resources' \in [Resources -> Registry!Collection \cup {Absent}]
  /\ RegistryGrows

LEMMA PublishThroughGrows ==
  ASSUME Shape, NEW c, NEW request, WellFormed(request),
         request.op \in {"publish", "update"}, PublishThrough(c, request)
  PROVE  Grown
<1>1. CASE PublishResult(request) = "published"
  <2>1. Registry!PublishSchema(request.id, request.version, request.body,
                               request.expected, request.allowBreaking)
    BY <1>1 DEF PublishThrough
  <2> QED
    BY <2>1, PublishGrows DEF WellFormed, Grown
<1>2. CASE PublishResult(request) # "published"
  BY <1>2, StayGrows DEF PublishThrough, Grown
<1> QED
  BY <1>1, <1>2

LEMMA PublishKeeps ==
  ASSUME Shape, CallsKept, NEW c \in Clients, NEW request, WellFormed(request),
         request.op = "publish", Publish(c, request)
  PROVE  Shape' /\ CallsKept' /\ RegistryGrows
<1>1. Grown
  BY PublishThroughGrows DEF Publish
<1>2. Stepped(c, request) /\ pc'[c] = "idle"
  BY DEF Publish, Starting, PublishThrough, Answering, Stepped, Shape
<1> QED
  BY <1>1, <1>2, SteppedKeeps DEF Shape, Grown, Stepped

LEMMA DeprecateKeeps ==
  ASSUME Shape, CallsKept, NEW c \in Clients, NEW request, WellFormed(request),
         request.op = "deprecate", Deprecate(c, request)
  PROVE  Shape' /\ CallsKept' /\ RegistryGrows
<1>1. Grown
  <2>1. CASE Registry!DeprecateSchema(request.id, request.version, request.expected)
    BY <2>1, DeprecateGrows DEF WellFormed, Grown
  <2>2. CASE UNCHANGED registryVars
    BY <2>2, StayGrows DEF Grown
  <2> QED
    BY <2>1, <2>2 DEF Deprecate
<1>2. Stepped(c, request) /\ pc'[c] = "idle"
  BY DEF Deprecate, Starting, Answering, Stepped, Shape
<1> QED
  BY <1>1, <1>2, SteppedKeeps DEF Shape, Grown, Stepped

LEMMA UpdateReadsKeeps ==
  ASSUME Shape, CallsKept, NEW c \in Clients, NEW request, WellFormed(request),
         request.op = "update", UpdateReads(c, request)
  PROVE  Shape' /\ CallsKept' /\ RegistryGrows
<1>1. Grown
  BY StayGrows DEF UpdateReads, Grown
<1>2. Stepped(c, request)
  <2>1. \E to, result : /\ pc' = [pc EXCEPT ![c] = to]
                        /\ outcome' = [outcome EXCEPT ![c] = result]
    BY DEF UpdateReads, Answering
  <2>2. call' = [call EXCEPT ![c] = request]
    BY DEF UpdateReads, Starting
  <2> QED
    BY <2>1, <2>2 DEF Stepped, Shape
<1> QED
  BY <1>1, <1>2, SteppedKeeps DEF Shape, Grown, Stepped

LEMMA ReadKeeps ==
  ASSUME Shape, CallsKept, NEW c \in Clients, NEW request, WellFormed(request), Read(c, request)
  PROVE  Shape' /\ CallsKept' /\ RegistryGrows
<1>1. Grown
  BY StayGrows DEF Read, Grown
<1>2. Stepped(c, request) /\ pc'[c] = "idle"
  BY DEF Read, Starting, Answering, Stepped, Shape
<1> QED
  BY <1>1, <1>2, SteppedKeeps DEF Shape, Grown, Stepped

LEMMA UpdatePublishesKeeps ==
  ASSUME Shape, CallsKept, NEW c \in Clients, UpdatePublishes(c)
  PROVE  Shape' /\ CallsKept' /\ RegistryGrows
<1>1. WellFormed(call[c]) /\ call[c].op = "update"
  BY DEF CallsKept, UpdatePublishes
<1>2. Grown
  BY <1>1, PublishThroughGrows DEF UpdatePublishes
<1>3. Stepped(c, call[c]) /\ pc'[c] = "idle"
  BY DEF UpdatePublishes, PublishThrough, Answering, Stepped, Shape
<1> QED
  BY <1>1, <1>2, <1>3, SteppedKeeps DEF Shape, Grown, Stepped

LEMMA ClientsKeep ==
  ASSUME Shape, CallsKept, Next
  PROVE  Shape' /\ CallsKept' /\ RegistryGrows
<1>1. ASSUME NEW c \in Clients, NEW request \in Pinning("publish"), Publish(c, request)
      PROVE  Shape' /\ CallsKept' /\ RegistryGrows
  BY <1>1, PinnedIsWellFormed, PublishKeeps
<1>2. ASSUME NEW c \in Clients, NEW request \in Pinning("deprecate"), Deprecate(c, request)
      PROVE  Shape' /\ CallsKept' /\ RegistryGrows
  BY <1>2, PinnedIsWellFormed, DeprecateKeeps
<1>3. ASSUME NEW c \in Clients, NEW request \in Pinning("update"), UpdateReads(c, request)
      PROVE  Shape' /\ CallsKept' /\ RegistryGrows
  BY <1>3, PinnedIsWellFormed, UpdateReadsKeeps
<1>4. ASSUME NEW c \in Clients, NEW request \in Reads(c), Read(c, request)
      PROVE  Shape' /\ CallsKept' /\ RegistryGrows
  BY <1>4, ReadIsWellFormed, ReadKeeps
<1>5. ASSUME NEW c \in Clients, UpdatePublishes(c)
      PROVE  Shape' /\ CallsKept' /\ RegistryGrows
  BY <1>5, UpdatePublishesKeeps
<1>6. ASSUME NEW c \in Clients, Repeat(c)
      PROVE  Shape' /\ CallsKept' /\ RegistryGrows
  <2>1. WellFormed(call[c])
    BY <1>6 DEF Repeat, CallsKept
  <2>2. CASE call[c].op = "publish"
    <3>1. Publish(c, call[c])
      BY <1>6, <2>2 DEF Repeat
    <3> QED
      BY <2>1, <2>2, <3>1, PublishKeeps
  <2>3. CASE call[c].op = "deprecate"
    <3>1. Deprecate(c, call[c])
      BY <1>6, <2>3 DEF Repeat
    <3> QED
      BY <2>1, <2>3, <3>1, DeprecateKeeps
  <2>4. CASE call[c].op = "update"
    <3>1. UpdateReads(c, call[c])
      BY <1>6, <2>4 DEF Repeat
    <3> QED
      BY <2>1, <2>4, <3>1, UpdateReadsKeeps
  <2>5. CASE call[c].op = "read"
    <3>1. Read(c, call[c])
      BY <1>6, <2>5 DEF Repeat
    <3> QED
      BY <2>1, <3>1, ReadKeeps
  <2> QED
    BY <2>1, <2>2, <2>3, <2>4, <2>5 DEF WellFormed
<1> QED
  BY <1>1, <1>2, <1>3, <1>4, <1>5, <1>6 DEF Next

-----------------------------------------------------------------------------
(* Operations are executed *)

LEMMA DeliveredIs ==
  ASSUME Engine, NEW k \in SentIds, IsMessage(sent[k]), NEW effective \in BOOLEAN, NEW found,
         Delivered(k, effective, found)
  PROVE  /\ DOMAIN sent' = SentIds
         /\ \A j \in SentIds \ {k} : sent'[j] = sent[j]
         /\ sent'[k] = [operation |-> sent[k].operation, about |-> sent[k].about,
                        named |-> sent[k].named, delivered |-> sent[k].delivered + 1,
                        effects  |-> IF effective THEN sent[k].effects + 1 ELSE sent[k].effects,
                        replaced |-> IF effective THEN sent[k].replaced \cup {found}
                                                  ELSE sent[k].replaced]
<1> DEFINE m == sent[k]
           after == [m EXCEPT !.delivered = @ + 1,
                              !.effects   = IF effective THEN @ + 1 ELSE @,
                              !.replaced  = IF effective THEN @ \cup {found} ELSE @]
<1>1. sent' = [sent EXCEPT ![k] = after]
  BY DEF Delivered, Engine
<1>2. after = [operation |-> m.operation, about |-> m.about, named |-> m.named,
               delivered |-> m.delivered + 1,
               effects  |-> IF effective THEN m.effects + 1 ELSE m.effects,
               replaced |-> IF effective THEN m.replaced \cup {found} ELSE m.replaced]
  <2> DEFINE d1 == m.delivered + 1
             e1 == IF effective THEN m.effects + 1 ELSE m.effects
             r1 == IF effective THEN m.replaced \cup {found} ELSE m.replaced
  <2>1. PICK o, a, n, d, e, r :
          m = [operation |-> o, about |-> a, named |-> n,
               delivered |-> d, effects |-> e, replaced |-> r]
    BY DEF IsMessage
  <2>2. m.operation = o /\ m.about = a /\ m.named = n
    BY <2>1
  <2> DEFINE m1 == [m EXCEPT !.delivered = d1]
             m2 == [m1 EXCEPT !.effects = e1]
             m3 == [m2 EXCEPT !.replaced = r1]
  <2>3. m1 = [operation |-> o, about |-> a, named |-> n,
              delivered |-> d1, effects |-> e, replaced |-> r]
    <3> HIDE DEF m, d1
    <3> QED
      BY <2>1
  <2>4. m2 = [operation |-> o, about |-> a, named |-> n,
              delivered |-> d1, effects |-> e1, replaced |-> r]
    <3> HIDE DEF m1, e1
    <3> QED
      BY <2>3
  <2>5. m3 = [operation |-> o, about |-> a, named |-> n,
              delivered |-> d1, effects |-> e1, replaced |-> r1]
    <3> HIDE DEF m2, r1
    <3> QED
      BY <2>4
  <2>6. after = m3
    OBVIOUS
  <2> HIDE DEF m3
  <2> QED
    BY <2>2, <2>5, <2>6
<1> HIDE DEF after
<1>3. DOMAIN sent' = SentIds /\ sent'[k] = after
  BY <1>1 DEF Engine
<1>4. \A j \in SentIds \ {k} : sent'[j] = sent[j]
  BY <1>1 DEF Engine
<1> QED
  BY <1>2, <1>3, <1>4, Zenon

\* The Engine gives new versions only.
EngineMoves ==
  /\ issued' \in Int /\ issued <= issued'
  /\ \A catalog \in Catalogs : entry'[catalog] \in {entry[catalog], Absent, issued}

LEMMA TraceStays ==
  ASSUME RegistryGrows, EngineMoves, Engine, NEW m, Linked(m), Traced(m)
  PROVE  /\ m.effects <= 1 \/ Repeatable(m)
         /\ m.effects > 0 =>
              /\ m.operation.method = "publish_schema"
                   => schemas'[m.about.id][m.about.version] # Absent
              /\ m.operation.method = "create_resource" => resources'[m.about.ref] # Absent
              /\ m.operation.method \notin Registering /\ m.named \notin {NotNamed, Absent} =>
                   m.named < issued' /\ entry'[m.operation.catalog] # m.named
<1>1. ASSUME m.effects > 0, m.operation.method \notin Registering, m.named \notin {NotNamed, Absent}
      PROVE  m.named < issued' /\ entry'[m.operation.catalog] # m.named
  <2>1. m.named \in Int /\ m.operation.catalog \in Catalogs
    BY <1>1 DEF Linked
  <2>2. m.named < issued /\ entry[m.operation.catalog] # m.named
    BY <1>1 DEF Traced
  <2> QED
    BY <1>1, <2>1, <2>2 DEF EngineMoves, Engine
<1>2. m.effects > 0 /\ m.operation.method = "publish_schema"
        => schemas'[m.about.id][m.about.version] # Absent
  BY DEF Traced, Linked, RegistryGrows, Registry!Known
<1>3. m.effects > 0 /\ m.operation.method = "create_resource" => resources'[m.about.ref] # Absent
  BY DEF Traced, Linked, RegistryGrows
<1> QED
  BY <1>1, <1>2, <1>3 DEF Traced

(* An execution keeps every Operation sound, if it finds what its client     *)
(* named, takes effect a second time only where it may, and leaves its trace.*)
LEMMA ExecutedIsSound ==
  ASSUME Engine, SentSound, RegistryGrows, EngineMoves, NEW k \in SentIds, MayDeliver(k),
         NEW effective \in BOOLEAN, NEW found, Delivered(k, effective, found),
         effective =>
           /\ sent[k].named # NotNamed => found = sent[k].named
           /\ sent[k].effects = 0 \/ Repeatable(sent[k])
           /\ sent[k].operation.method = "publish_schema"
                => schemas'[sent[k].about.id][sent[k].about.version] # Absent
           /\ sent[k].operation.method = "create_resource"
                => resources'[sent[k].about.ref] # Absent
           /\ sent[k].operation.method \notin Registering /\ sent[k].named \notin {NotNamed, Absent}
                => /\ sent[k].named < issued'
                   /\ entry'[sent[k].operation.catalog] # sent[k].named
  PROVE  SentSound' /\ DOMAIN sent' = SentIds
<1>1. Sound(sent[k])
  BY DEF MayDeliver, SentSound
<1>2. /\ DOMAIN sent' = SentIds
      /\ \A j \in SentIds \ {k} : sent'[j] = sent[j]
      /\ sent'[k] = [operation |-> sent[k].operation, about |-> sent[k].about,
                     named |-> sent[k].named, delivered |-> sent[k].delivered + 1,
                     effects  |-> IF effective THEN sent[k].effects + 1 ELSE sent[k].effects,
                     replaced |-> IF effective THEN sent[k].replaced \cup {found}
                                               ELSE sent[k].replaced]
  BY <1>1, DeliveredIs DEF Sound
<1>3. Sound(sent[k])'
  <2>1. /\ sent'[k].operation = sent[k].operation /\ sent'[k].about = sent[k].about
        /\ sent'[k].named = sent[k].named /\ sent'[k].delivered = sent[k].delivered + 1
        /\ sent'[k].effects = IF effective THEN sent[k].effects + 1 ELSE sent[k].effects
        /\ sent'[k].replaced = IF effective THEN sent[k].replaced \cup {found}
                                            ELSE sent[k].replaced
    BY <1>2
  <2>2. IsMessage(sent[k])'
    BY <1>2, <2>1 DEF IsMessage
  <2>3. Linked(sent[k])'
    BY <1>1, <2>1 DEF Sound, Linked, IsConditional
  <2>4. Counted(sent[k])'
    <3>1. Counted(sent[k])
      BY <1>1 DEF Sound
    <3>2. ~sent[k].operation.idempotent => sent[k].delivered = 0
      BY DEF MayDeliver
    <3> QED
      BY <2>1, <3>1, <3>2 DEF Counted
  <2>5. Kept(sent[k])'
    BY <1>1, <2>1 DEF Sound, Kept
  <2>6. Repeatable(sent[k])' <=> Repeatable(sent[k])
    BY <2>1 DEF Repeatable, IsConditional
  <2>7. sent[k].effects \in Nat
    BY <1>1 DEF Sound, Counted
  <2>8. Traced(sent[k])'
    <3>1. Linked(sent[k]) /\ Traced(sent[k])
      BY <1>1 DEF Sound
    <3>2. /\ sent[k].effects <= 1 \/ Repeatable(sent[k])
          /\ sent[k].effects > 0 =>
              /\ sent[k].operation.method = "publish_schema"
                   => schemas'[sent[k].about.id][sent[k].about.version] # Absent
              /\ sent[k].operation.method = "create_resource"
                   => resources'[sent[k].about.ref] # Absent
              /\ sent[k].operation.method \notin Registering
                 /\ sent[k].named \notin {NotNamed, Absent} =>
                   /\ sent[k].named < issued'
                   /\ entry'[sent[k].operation.catalog] # sent[k].named
      BY <3>1, TraceStays
    <3>3. sent'[k].effects <= 1 \/ Repeatable(sent[k])
      <4>1. CASE effective
        BY <2>1, <2>7, <3>2, <4>1
      <4>2. CASE ~effective
        BY <2>1, <3>2, <4>2
      <4> QED
        BY <4>1, <4>2
    <3>4. sent'[k].effects > 0 =>
            /\ sent[k].operation.method = "publish_schema"
                 => schemas'[sent[k].about.id][sent[k].about.version] # Absent
            /\ sent[k].operation.method = "create_resource"
                 => resources'[sent[k].about.ref] # Absent
            /\ sent[k].operation.method \notin Registering
               /\ sent[k].named \notin {NotNamed, Absent} =>
                 /\ sent[k].named < issued'
                 /\ entry'[sent[k].operation.catalog] # sent[k].named
      <4>1. CASE effective
        BY <4>1
      <4>2. CASE ~effective
        BY <2>1, <3>2, <4>2
      <4> QED
        BY <4>1, <4>2
    <3> QED
      BY <2>1, <2>6, <3>3, <3>4 DEF Traced, Registry!Known
  <2> QED
    BY <2>2, <2>3, <2>4, <2>5, <2>8 DEF Sound
<1>4. ASSUME NEW j \in SentIds \ {k}, sent'[j] # Absent
      PROVE  Sound(sent[j])'
  <2>1. sent'[j] = sent[j] /\ Sound(sent[j])
    BY <1>2, <1>4 DEF SentSound
  <2>2. /\ IsMessage(sent[j]) /\ Linked(sent[j]) /\ Counted(sent[j]) /\ Kept(sent[j])
        /\ Traced(sent[j])
    BY <2>1 DEF Sound
  <2>3. /\ sent[j].effects <= 1 \/ Repeatable(sent[j])
        /\ sent[j].effects > 0 =>
             /\ sent[j].operation.method = "publish_schema"
                  => schemas'[sent[j].about.id][sent[j].about.version] # Absent
             /\ sent[j].operation.method = "create_resource"
                  => resources'[sent[j].about.ref] # Absent
             /\ sent[j].operation.method \notin Registering
                /\ sent[j].named \notin {NotNamed, Absent} =>
                  /\ sent[j].named < issued'
                  /\ entry'[sent[j].operation.catalog] # sent[j].named
    BY <2>2, TraceStays
  <2>4. Traced(sent[j])'
    BY <2>1, <2>3 DEF Traced, Repeatable, IsConditional, Registry!Known
  <2>5. IsMessage(sent[j])' /\ Counted(sent[j])' /\ Kept(sent[j])'
    BY <2>1, <2>2 DEF IsMessage, Counted, Kept
  <2>6. Linked(sent[j])'
    BY <2>1, <2>2 DEF Linked, IsConditional
  <2> QED
    BY <2>4, <2>5, <2>6 DEF Sound
<1> QED
  BY <1>2, <1>3, <1>4 DEF SentSound

\* The rest of the state of the clients stays as it is while the Engine works.
LEMMA ClientsWait ==
  ASSUME Shape, CallsKept, Grown, UNCHANGED <<pc, call, outcome>>
  PROVE  Shape' /\ CallsKept'
BY DEF Shape, CallsKept, Grown

LEMMA DataKeeps ==
  ASSUME CInv, NEW k \in SentIds, ExecuteData(k)
  PROVE  CInv'
<1> DEFINE operation == sent[k].operation
           catalog == operation.catalog
           effective == TakesEffect(operation, entry[catalog])
           removes == operation.method \in {"delete", "invalidate"}
<1>1. /\ MayDeliver(k) /\ operation.method \notin Registering
      /\ Delivered(k, effective, entry[catalog])
      /\ entry' = IF effective
                    THEN [entry EXCEPT ![catalog] = IF removes THEN Absent ELSE issued]
                    ELSE entry
      /\ issued' = IF effective /\ ~removes THEN issued + 1 ELSE issued
      /\ UNCHANGED vars
  BY DEF ExecuteData
<1>2. IsMessage(sent[k]) /\ Linked(sent[k]) /\ Counted(sent[k]) /\ Traced(sent[k])
  BY <1>1 DEF CInv, SentSound, Sound, MayDeliver
<1>3. catalog \in Catalogs
  BY <1>2 DEF Linked
<1>4. effective \in BOOLEAN
  BY DEF TakesEffect
<1>5. Shape' /\ CallsKept' /\ RegistryGrows
  BY <1>1, StayGrows, ClientsWait DEF CInv, Grown, vars, registryVars
<1>6. EngineMoves /\ DOMAIN entry' = Catalogs
  <2> HIDE DEF effective, removes
  <2> QED
    BY <1>1, <1>3 DEF EngineMoves, CInv, Engine
<1>7. \A c \in Catalogs :
        entry'[c] = Absent \/ (entry'[c] \in Int /\ entry'[c] < issued')
  <2>1. CASE effective /\ ~removes
    <3>1. issued' = issued + 1 /\ entry' = [entry EXCEPT ![catalog] = issued]
      BY <1>1, <2>1
    <3> QED
      BY <1>3, <3>1 DEF CInv, Engine
  <2>2. CASE effective /\ removes
    <3>1. issued' = issued /\ entry' = [entry EXCEPT ![catalog] = Absent]
      BY <1>1, <2>2
    <3> QED
      BY <1>3, <3>1 DEF CInv, Engine
  <2>3. CASE ~effective
    BY <1>1, <2>3 DEF CInv, Engine
  <2> QED
    BY <2>1, <2>2, <2>3
<1>8. ASSUME effective, sent[k].named # NotNamed
      PROVE  entry[catalog] = sent[k].named
  <2>1. CASE sent[k].named = Absent /\ NeedsNothing(operation)
    BY <1>8, <2>1 DEF TakesEffect
  <2>2. CASE Numbered(operation.input, "expectedVersion") = sent[k].named
    BY <1>8, <2>2 DEF TakesEffect
  <2> QED
    BY <1>1, <1>2, <2>1, <2>2 DEF Linked
<1>9. ASSUME effective, ~Repeatable(sent[k])
      PROVE  sent[k].effects = 0
  <2>1. CASE sent[k].named \notin {NotNamed, Absent}
    <3>1. entry[catalog] = sent[k].named
      BY <1>8, <1>9, <2>1
    <3>2. ~(sent[k].effects > 0)
      BY <1>1, <1>2, <2>1, <3>1 DEF Traced
    <3> QED
      BY <1>2, <3>2 DEF Counted
  <2>2. CASE sent[k].named \in {NotNamed, Absent}
    <3>1. IsConditional(sent[k])
      BY <1>1, <1>9, <2>2 DEF Repeatable
    <3>2. sent[k].named = NotNamed
      BY <1>1, <1>2, <2>2, <3>1, AsksAssumption DEF Linked
    <3>3. ~operation.idempotent
      BY <1>2, <3>1, <3>2 DEF Linked
    <3>4. sent[k].delivered = 0
      BY <1>1, <3>3 DEF MayDeliver
    <3> QED
      BY <1>2, <3>4 DEF Counted
  <2> QED
    BY <2>1, <2>2
<1>10. ASSUME effective, sent[k].named \notin {NotNamed, Absent}
       PROVE  sent[k].named < issued' /\ entry'[catalog] # sent[k].named
  <2>1. entry[catalog] = sent[k].named
    BY <1>8, <1>10
  <2>2. sent[k].named \in Int /\ sent[k].named < issued /\ issued \in Int
    BY <1>3, <1>10, <2>1 DEF CInv, Engine
  <2>3. entry'[catalog] = Absent \/ entry'[catalog] = issued
    BY <1>1, <1>3, <1>10 DEF CInv, Engine
  <2>4. issued <= issued' /\ issued' \in Int
    BY <1>6 DEF EngineMoves
  <2> QED
    BY <1>10, <2>2, <2>3, <2>4
<1> HIDE DEF effective, removes
<1>11. SentSound' /\ DOMAIN sent' = SentIds
  <2>1. effective =>
          /\ sent[k].named # NotNamed => entry[catalog] = sent[k].named
          /\ sent[k].effects = 0 \/ Repeatable(sent[k])
          /\ sent[k].operation.method = "publish_schema"
               => schemas'[sent[k].about.id][sent[k].about.version] # Absent
          /\ sent[k].operation.method = "create_resource"
               => resources'[sent[k].about.ref] # Absent
          /\ sent[k].operation.method \notin Registering /\ sent[k].named \notin {NotNamed, Absent}
               => /\ sent[k].named < issued'
                  /\ entry'[sent[k].operation.catalog] # sent[k].named
    BY <1>1, <1>8, <1>9, <1>10 DEF Registering
  <2> QED
    BY <1>1, <1>4, <1>5, <1>6, <2>1, ExecutedIsSound DEF CInv
<1> QED
  BY <1>5, <1>6, <1>7, <1>11 DEF CInv, Engine, EngineMoves

LEMMA PublishOperationKeeps ==
  ASSUME CInv, NEW k \in SentIds, ExecutePublish(k)
  PROVE  CInv'
<1> DEFINE about == sent[k].about
           expected == Numbered(sent[k].operation.input, "expectedRegistryRevision")
           pin == IF expected = NotNamed THEN AnyRevision ELSE expected
           request == [id |-> about.id, version |-> about.version, body |-> about.body,
                       allowBreaking |-> FALSE, expected |-> pin]
           effective == PublishResult(request) = "published"
<1>1. /\ MayDeliver(k) /\ sent[k].operation.method = "publish_schema"
      /\ Delivered(k, effective, revision)
      /\ effective => Registry!PublishSchema(about.id, about.version, about.body, pin, FALSE)
      /\ ~effective => UNCHANGED registryVars
      /\ UNCHANGED <<pc, call, outcome, entry, issued>>
  BY DEF ExecutePublish
<1>2. effective \in BOOLEAN
  OBVIOUS
<1> HIDE DEF request, effective
<1>3. IsMessage(sent[k]) /\ Linked(sent[k]) /\ Counted(sent[k]) /\ Traced(sent[k])
  BY <1>1 DEF CInv, SentSound, Sound, MayDeliver
<1>4. /\ about.id \in SchemaIds /\ about.version \in Versions /\ about.body \in Bodies
      /\ expected = sent[k].named /\ (sent[k].named = NotNamed \/ sent[k].named \in Nat)
  BY <1>1, <1>3 DEF Linked
<1>5. effective => Registry!PublishOutcome(about.id, about.version, about.body, pin, FALSE)
                     = "published"
  BY <1>1 DEF Registry!PublishSchema
<1>6. Grown /\ (effective => schemas'[about.id][about.version] # Absent)
  <2>1. CASE effective
    <3>1. Registry!PublishSchema(about.id, about.version, about.body, pin, FALSE)
      BY <1>1, <2>1
    <3> HIDE DEF pin, about
    <3> QED
      BY <1>4, <3>1, PublishGrows DEF CInv, Grown
  <2>2. CASE ~effective
    BY <1>1, <2>2, StayGrows DEF CInv, Grown
  <2> QED
    BY <2>1, <2>2
<1>7. Shape' /\ CallsKept' /\ RegistryGrows
  BY <1>1, <1>6, ClientsWait DEF CInv, Grown
<1>8. EngineMoves
  BY <1>1 DEF EngineMoves, CInv, Engine
<1>9. ASSUME effective, sent[k].named # NotNamed
      PROVE  revision = sent[k].named
  <2>1. Registry!RevisionMatches(pin)
    BY <1>5, <1>9 DEF Registry!PublishOutcome
  <2>2. pin = sent[k].named /\ pin # AnyRevision
    BY <1>4, <1>9, AsksAssumption
  <2> QED
    BY <2>1, <2>2 DEF Registry!RevisionMatches
<1>10. effective => sent[k].effects = 0
  <2>1. effective => ~Registry!Known(about.id, about.version)
    BY <1>5 DEF Registry!PublishOutcome
  <2>2. sent[k].effects > 0 => Registry!Known(about.id, about.version)
    BY <1>1, <1>3 DEF Traced
  <2> QED
    BY <1>3, <2>1, <2>2 DEF Counted
<1>11. SentSound' /\ DOMAIN sent' = SentIds
  <2>1. effective => schemas'[about.id][about.version] # Absent
    BY <1>6
  <2>2. sent[k].operation.method \in Registering /\ sent[k].operation.method # "create_resource"
    BY <1>1 DEF Registering
  <2>3. effective =>
          /\ sent[k].named # NotNamed => revision = sent[k].named
          /\ sent[k].effects = 0 \/ Repeatable(sent[k])
          /\ sent[k].operation.method = "publish_schema"
               => schemas'[sent[k].about.id][sent[k].about.version] # Absent
          /\ sent[k].operation.method = "create_resource"
               => resources'[sent[k].about.ref] # Absent
          /\ sent[k].operation.method \notin Registering /\ sent[k].named \notin {NotNamed, Absent}
               => /\ sent[k].named < issued'
                  /\ entry'[sent[k].operation.catalog] # sent[k].named
    BY <1>9, <1>10, <2>1, <2>2
  <2> QED
    BY <1>1, <1>7, <1>8, <1>2, <2>3, ExecutedIsSound DEF CInv
<1> QED
  BY <1>1, <1>7, <1>11 DEF CInv, Engine

LEMMA CreateOperationKeeps ==
  ASSUME CInv, NEW k \in SentIds, ExecuteCreate(k)
  PROVE  CInv'
<1> DEFINE about == sent[k].about
           effective == Registry!CreateOutcome(about.ref, about.schema, AnyRevision) = "created"
<1>1. /\ MayDeliver(k) /\ sent[k].operation.method = "create_resource"
      /\ Delivered(k, effective, revision)
      /\ effective => Registry!CreateCollection(about.ref, about.schema, AnyRevision)
      /\ ~effective => UNCHANGED registryVars
      /\ UNCHANGED <<pc, call, outcome, entry, issued>>
  BY DEF ExecuteCreate
<1>2. IsMessage(sent[k]) /\ Linked(sent[k]) /\ Counted(sent[k]) /\ Traced(sent[k])
  BY <1>1 DEF CInv, SentSound, Sound, MayDeliver
<1>3. about.ref \in Resources /\ about.schema \in Registry!SchemaRefs /\ sent[k].named = NotNamed
  BY <1>1, <1>2 DEF Linked
<1>4. Grown /\ (effective => resources'[about.ref] # Absent)
  <2>1. CASE effective
    BY <1>1, <1>3, <2>1, CreateGrows DEF CInv, Grown
  <2>2. CASE ~effective
    BY <1>1, <2>2, StayGrows DEF CInv, Grown
  <2> QED
    BY <2>1, <2>2
<1>5. Shape' /\ CallsKept' /\ RegistryGrows
  BY <1>1, <1>4, ClientsWait DEF CInv, Grown
<1>6. EngineMoves
  BY <1>1 DEF EngineMoves, CInv, Engine
<1>7. effective => sent[k].effects = 0
  <2>1. effective => resources[about.ref] = Absent
    BY DEF Registry!CreateOutcome
  <2>2. sent[k].effects > 0 => resources[about.ref] # Absent
    BY <1>1, <1>2 DEF Traced
  <2> QED
    BY <1>2, <2>1, <2>2 DEF Counted
<1>8. effective \in BOOLEAN
  OBVIOUS
<1> HIDE DEF effective
<1>9. SentSound' /\ DOMAIN sent' = SentIds
  <2>1. sent[k].operation.method \in Registering /\ sent[k].operation.method # "publish_schema"
    BY <1>1 DEF Registering
  <2>2. effective =>
          /\ sent[k].named # NotNamed => revision = sent[k].named
          /\ sent[k].effects = 0 \/ Repeatable(sent[k])
          /\ sent[k].operation.method = "publish_schema"
               => schemas'[sent[k].about.id][sent[k].about.version] # Absent
          /\ sent[k].operation.method = "create_resource"
               => resources'[sent[k].about.ref] # Absent
          /\ sent[k].operation.method \notin Registering /\ sent[k].named \notin {NotNamed, Absent}
               => /\ sent[k].named < issued'
                  /\ entry'[sent[k].operation.catalog] # sent[k].named
    BY <1>3, <1>4, <1>7, <2>1
  <2> QED
    BY <1>1, <1>5, <1>6, <1>8, <2>2, ExecutedIsSound DEF CInv
<1> QED
  BY <1>1, <1>5, <1>9 DEF CInv, Engine

-----------------------------------------------------------------------------
(* The others leave what was sent as it is *)

LEMMA SentStaysSound ==
  ASSUME Engine, SentSound, RegistryGrows, UNCHANGED <<entry, issued>>,
         NEW j \in SentIds, sent'[j] = sent[j], sent'[j] # Absent
  PROVE  Sound(sent[j])'
<1>1. IsMessage(sent[j]) /\ Linked(sent[j]) /\ Counted(sent[j]) /\ Kept(sent[j]) /\ Traced(sent[j])
  BY DEF SentSound, Sound
<1>2. EngineMoves
  BY DEF EngineMoves, Engine
<1>3. /\ sent[j].effects <= 1 \/ Repeatable(sent[j])
      /\ sent[j].effects > 0 =>
           /\ sent[j].operation.method = "publish_schema"
                => schemas'[sent[j].about.id][sent[j].about.version] # Absent
           /\ sent[j].operation.method = "create_resource"
                => resources'[sent[j].about.ref] # Absent
           /\ sent[j].operation.method \notin Registering
              /\ sent[j].named \notin {NotNamed, Absent} =>
                /\ sent[j].named < issued'
                /\ entry'[sent[j].operation.catalog] # sent[j].named
  BY <1>1, <1>2, TraceStays
<1>4. Traced(sent[j])'
  BY <1>3 DEF Traced, Repeatable, IsConditional, Registry!Known
<1>5. IsMessage(sent[j])' /\ Counted(sent[j])' /\ Kept(sent[j])'
  BY <1>1 DEF IsMessage, Counted, Kept
<1>6. Linked(sent[j])'
  BY <1>1 DEF Linked, IsConditional
<1> QED
  BY <1>4, <1>5, <1>6 DEF Sound

LEMMA PlanKeeps ==
  ASSUME CInv, NEW c \in Clients, NEW ask \in Asks, Plan(c, ask)
  PROVE  CInv'
<1>1. UNCHANGED <<registryVars, entry, issued>>
  BY DEF Plan
<1>2. Grown
  BY <1>1, StayGrows DEF CInv, Grown
<1>3. /\ pc' = [pc EXCEPT ![c] = "idle"] /\ call' = [call EXCEPT ![c] = [op |-> "plan"]]
      /\ \E result \in {"planned", "InvalidDefinition"} :
           outcome' = [outcome EXCEPT ![c] = result]
  BY DEF Plan, Starting, Answering
<1>4. Shape' /\ CallsKept'
  <2>1. ASSUME NEW d \in Clients
        PROVE  /\ outcome'[d] \in Succeeded => d # c
               /\ pc'[d] = "publishing" => d # c
    BY <1>3 DEF CInv, Shape, Succeeded
  <2>2. ASSUME NEW d \in Clients \ {c}
        PROVE  pc'[d] = pc[d] /\ call'[d] = call[d] /\ outcome'[d] = outcome[d]
    BY <1>3 DEF CInv, Shape
  <2>3. CallsKept'
    BY <2>1, <2>2 DEF CInv, CallsKept
  <2> QED
    BY <1>2, <1>3, <2>3 DEF CInv, Shape, Grown
<1> DEFINE expression == Expression(ask)
           m == Message(Operation(ask.provider, expression), ask)
<1>5. \/ UNCHANGED sent
      \/ Plannable(ask.provider, expression) /\ \E k \in SentIds : sent' = [sent EXCEPT ![k] = m]
  BY DEF Plan, Expression
<1>6. CASE UNCHANGED sent
  BY <1>1, <1>2, <1>4, <1>6, SentStaysSound DEF CInv, Engine, SentSound, Grown
<1>7. CASE Plannable(ask.provider, expression) /\ \E k \in SentIds : sent' = [sent EXCEPT ![k] = m]
  <2>1. PICK k \in SentIds : sent' = [sent EXCEPT ![k] = m]
    BY <1>7
  <2>2. Sound(m)
    BY <1>7, PlannedIsSound
  <2>3. m.effects = 0
    BY DEF Message
  <2> HIDE DEF m
  <2>4. sent'[k] = m /\ DOMAIN sent' = SentIds
    BY <2>1 DEF CInv, Engine
  <2>5. \A j \in SentIds \ {k} : sent'[j] = sent[j]
    BY <2>1 DEF CInv, Engine
  <2>6. Sound(sent[k])'
    <3>1. IsMessage(m) /\ Linked(m) /\ Counted(m) /\ Kept(m)
      BY <2>2 DEF Sound
    <3>2. Traced(sent[k])'
      BY <2>3, <2>4 DEF Traced
    <3>3. IsMessage(sent[k])' /\ Linked(sent[k])' /\ Counted(sent[k])' /\ Kept(sent[k])'
      BY <2>4, <3>1 DEF IsMessage, Linked, Counted, Kept, IsConditional
    <3> QED
      BY <3>2, <3>3 DEF Sound
  <2>7. SentSound'
    BY <1>1, <1>2, <2>5, <2>6, SentStaysSound DEF CInv, SentSound, Grown
  <2> QED
    BY <1>1, <1>4, <2>4, <2>7 DEF CInv, Engine
<1> QED
  BY <1>5, <1>6, <1>7

LEMMA CatalogInitIsSound ==
  ASSUME CatalogInit
  PROVE  CInv
<1>1. Shape
  BY DEF CatalogInit, Init, Registry!Init, Shape
<1>2. CallsKept
  BY DEF CatalogInit, Init, CallsKept, Succeeded
<1>3. Engine
  <2>1. entry \in [Catalogs -> {Absent, 0}] /\ issued = 1 /\ DOMAIN sent = SentIds
    BY DEF CatalogInit
  <2> QED
    BY <2>1 DEF Engine
<1>4. SentSound
  BY DEF CatalogInit, SentSound
<1> QED
  BY <1>1, <1>2, <1>3, <1>4 DEF CInv

LEMMA CatalogInvHolds == CatalogSpec => []CInv
<1>1. CatalogInit => CInv
  BY CatalogInitIsSound
<1>2. CInv /\ [CatalogNext]_allVars => CInv'
  <2> SUFFICES ASSUME CInv, [CatalogNext]_allVars PROVE CInv'
    OBVIOUS
  <2>1. CASE Next /\ UNCHANGED catalogVars
    <3>1. Shape' /\ CallsKept' /\ RegistryGrows
      BY <2>1, ClientsKeep DEF CInv
    <3>2. UNCHANGED <<sent, entry, issued>>
      BY <2>1 DEF catalogVars
    <3>3. SentSound'
      BY <3>1, <3>2, SentStaysSound DEF CInv, SentSound
    <3> QED
      BY <3>1, <3>2, <3>3 DEF CInv, Engine
  <2>2. ASSUME NEW c \in Clients, NEW ask \in Asks, Plan(c, ask) PROVE CInv'
    BY <2>2, PlanKeeps
  <2>3. ASSUME NEW k \in SentIds, ExecuteData(k) \/ ExecutePublish(k) \/ ExecuteCreate(k)
        PROVE  CInv'
    BY <2>3, DataKeeps, PublishOperationKeeps, CreateOperationKeeps
  <2>4. CASE UNCHANGED allVars
    <3>1. UNCHANGED <<sent, entry, issued>> /\ UNCHANGED registryVars
          /\ UNCHANGED <<pc, call, outcome>>
      BY <2>4 DEF allVars, vars, catalogVars
    <3>2. Grown
      BY <3>1, StayGrows DEF CInv, Grown
    <3>3. SentSound'
      BY <3>1, <3>2, SentStaysSound DEF CInv, SentSound, Grown
    <3> QED
      BY <3>1, <3>2, <3>3, ClientsWait DEF CInv, Engine
  <2> QED
    BY <2>1, <2>2, <2>3, <2>4 DEF CatalogNext
<1> QED
  BY <1>1, <1>2, PTL DEF CatalogSpec

(* Whatever Operations are executed in between, a write replaces the version *)
(* its client named, a publication is made at the revision it named, and a   *)
(* put of mode if_absent replaces nothing.                                   *)
THEOREM NoUpdateIsLost == CatalogSpec => []NoLostUpdate
<1>1. CInv => NoLostUpdate
  BY DEF CInv, SentSound, Sound, Kept, NoLostUpdate
<1> QED
  BY <1>1, CatalogInvHolds, PTL

(* However often and late Core repeats an Operation flagged idempotent, one  *)
(* that names a version, registers something or is flagged for its arguments *)
(* has taken effect once at most.                                            *)
THEOREM RepeatsAreAlwaysHarmless == CatalogSpec => []RepeatsAreHarmless
<1>1. CInv => RepeatsAreHarmless
  BY DEF CInv, SentSound, Sound, Traced, Repeatable, IsConditional, RepeatsAreHarmless
<1> QED
  BY <1>1, CatalogInvHolds, PTL

-----------------------------------------------------------------------------
(* What a client of SchemaAPI may rely on.  A call that succeeded has done   *)
(* what it says, and that stays done; a pin is a revision of the past, and   *)
(* while it is the present one, what an update has read is still current.    *)

Achieved(request) ==
  /\ request.op = "publish" =>
       /\ schemas[request.id][request.version] # Absent
       /\ schemas[request.id][request.version].body = request.body
       /\ request.body \notin Malformed
  /\ request.op = "deprecate" =>
       /\ schemas[request.id][request.version] # Absent
       /\ schemas[request.id][request.version].status = "DEPRECATED"

PinIsPast(request) ==
  request.op = "update" /\ request.expected # AnyRevision
    => request.expected \in Nat /\ request.expected <= revision

Relies(c) ==
  /\ outcome[c] \in Succeeded => Achieved(call[c])
  /\ outcome[c] \in Succeeded \/ pc[c] = "publishing" => PinIsPast(call[c])
  /\ pc[c] = "publishing" /\ call[c].expected = revision
       => CurrentIs(call[c].id, call[c].current)
  /\ pc[c] = "idle" /\ retried[c] /\ call[c].op \in {"publish", "deprecate"}
       /\ call[c].expected = AnyRevision => outcome[c] = "idempotent"

RInv ==
  /\ CInv
  /\ DOMAIN retried = Clients
  /\ revision \in Nat
  /\ \A c \in Clients : Relies(c)
  /\ PinnedUpdateFollowsCurrent

\* No publication is edited, withdrawn or brought back, and a revision is counted
\* for every change.
Lasting ==
  /\ \A id \in SchemaIds, v \in Versions : schemas[id][v] # Absent =>
       /\ schemas'[id][v] # Absent
       /\ schemas'[id][v].body = schemas[id][v].body
       /\ schemas[id][v].status = "DEPRECATED" => schemas'[id][v].status = "DEPRECATED"
  /\ (schemas' = schemas /\ revision' = revision) \/ revision' = revision + 1

LEMMA StayLasts == UNCHANGED registryVars => Lasting
BY DEF registryVars, Lasting

LEMMA PublishLasts ==
  ASSUME Shape, NEW id \in SchemaIds, NEW v \in Versions, NEW body, NEW expected, NEW allow,
         Registry!PublishSchema(id, v, body, expected, allow)
  PROVE  /\ Lasting
         /\ schemas'[id][v] = [body |-> body, status |-> "PUBLISHED"]
<1> DEFINE publication == [body |-> body, status |-> "PUBLISHED"]
<1>1. /\ schemas' = [schemas EXCEPT ![id] = [schemas[id] EXCEPT ![v] = publication]]
      /\ revision' = revision + 1
  BY DEF Registry!PublishSchema, Registry!StorePublication, Shape
<1>2. schemas[id][v] = Absent
  BY DEF Registry!PublishSchema, Registry!PublishOutcome, Registry!Known
<1> HIDE DEF publication
<1>3. schemas'[id][v] = publication
  BY <1>1 DEF Shape
<1>4. ASSUME NEW i \in SchemaIds, NEW w \in Versions, schemas[i][w] # Absent
      PROVE  schemas'[i][w] = schemas[i][w]
  BY <1>1, <1>2, <1>4 DEF Shape
<1> QED
  BY <1>1, <1>3, <1>4 DEF Lasting, publication

LEMMA DeprecateLasts ==
  ASSUME Shape, NEW id \in SchemaIds, NEW v \in Versions, NEW expected,
         Registry!DeprecateSchema(id, v, expected)
  PROVE  /\ Lasting
         /\ schemas'[id][v] # Absent /\ schemas'[id][v].status = "DEPRECATED"
<1> DEFINE publication == [schemas[id][v] EXCEPT !.status = "DEPRECATED"]
<1>1. /\ schemas' = [schemas EXCEPT ![id] = [schemas[id] EXCEPT ![v] = publication]]
      /\ revision' = revision + 1
  BY DEF Registry!DeprecateSchema, Registry!StoreDeprecation, Shape
<1>2. schemas[id][v] \in Registry!Publication
  BY DEF Registry!DeprecateSchema, Registry!DeprecateOutcome, Registry!Known, Shape
<1>3. /\ publication.body = schemas[id][v].body /\ publication.status = "DEPRECATED"
      /\ publication \in Registry!Publication
  BY <1>2 DEF Registry!Publication
<1>4. publication # Absent
  BY <1>3, AsksAssumption
<1> HIDE DEF publication
<1>5. schemas'[id][v] = publication
  BY <1>1 DEF Shape
<1>6. ASSUME NEW i \in SchemaIds, NEW w \in Versions, ~(i = id /\ w = v)
      PROVE  schemas'[i][w] = schemas[i][w]
  BY <1>1, <1>6 DEF Shape
<1> QED
  BY <1>1, <1>3, <1>4, <1>5, <1>6 DEF Lasting

LEMMA CreateLasts ==
  ASSUME NEW r, NEW schema, NEW expected, Registry!CreateCollection(r, schema, expected)
  PROVE  Lasting
BY DEF Registry!CreateCollection, Lasting

\* A client that makes no step keeps what it relies on.
LEMMA WaitingRelies ==
  ASSUME CallsKept, revision \in Nat, NEW c \in Clients, Relies(c), Lasting,
         pc'[c] = pc[c], call'[c] = call[c], outcome'[c] = outcome[c], retried'[c] = retried[c]
  PROVE  Relies(c)'
<1>1. ASSUME outcome[c] \in Succeeded  PROVE Achieved(call[c])'
  <2>1. WellFormed(call[c]) /\ Achieved(call[c])
    BY <1>1 DEF CallsKept, Relies
  <2> QED
    BY <2>1 DEF WellFormed, Achieved, Lasting
<1>2. ASSUME outcome[c] \in Succeeded \/ pc[c] = "publishing"  PROVE PinIsPast(call[c])'
  BY <1>2 DEF Relies, PinIsPast, Lasting
<1>3. ASSUME pc[c] = "publishing", call[c].expected = revision'
      PROVE  CurrentIs(call[c].id, call[c].current)'
  <2>1. call[c].op = "update" /\ PinIsPast(call[c])
    BY <1>3 DEF CallsKept, Relies
  <2>2. revision' \in Nat /\ revision' # AnyRevision
    BY AsksAssumption DEF Lasting
  <2>3. call[c].expected <= revision
    BY <1>3, <2>1, <2>2 DEF PinIsPast
  <2>4. schemas' = schemas /\ revision' = revision
    BY <1>3, <2>3 DEF Lasting
  <2> QED
    BY <1>3, <2>4 DEF Relies, CurrentIs, Registry!IsLatest, Registry!KnownVersions, Registry!Known
<1> QED
  BY <1>1, <1>2, <1>3 DEF Relies

\* What a publication through SchemaAPI does to the registry and to its caller.
LEMMA PublishThroughRelies ==
  ASSUME Shape, NEW c \in Clients, NEW request, WellFormed(request),
         request.op \in {"publish", "update"}, PublishThrough(c, request)
  PROVE  /\ Lasting
         /\ pc'[c] = "idle" /\ outcome'[c] = PublishResult(request)
         /\ outcome'[c] \in Succeeded =>
              /\ schemas'[request.id][request.version] # Absent
              /\ schemas'[request.id][request.version].body = request.body
              /\ request.body \notin Malformed
<1>1. pc'[c] = "idle" /\ outcome'[c] = PublishResult(request)
  BY DEF PublishThrough, Answering, Shape
<1>2. CASE PublishResult(request) = "published"
  <2>1. /\ request.body \notin Malformed /\ request.body \in Bodies
        /\ Registry!PublishSchema(request.id, request.version, request.body,
                                  request.expected, request.allowBreaking)
    BY <1>2 DEF PublishThrough, PublishResult, WellFormed
  <2>2. Lasting /\ schemas'[request.id][request.version] = [body |-> request.body, status |-> "PUBLISHED"]
    BY <2>1, PublishLasts DEF WellFormed
  <2>3. [body |-> request.body, status |-> "PUBLISHED"] # Absent
    BY <2>1, AsksAssumption DEF Registry!Publication
  <2> QED
    BY <1>1, <2>1, <2>2, <2>3
<1>3. CASE PublishResult(request) # "published"
  <2>1. UNCHANGED registryVars
    BY <1>3 DEF PublishThrough
  <2>2. PublishResult(request) \in Succeeded => PublishResult(request) = "idempotent"
    BY <1>3 DEF PublishResult, Registry!PublishOutcome, Succeeded
  <2>3. PublishResult(request) = "idempotent" =>
          /\ schemas[request.id][request.version] # Absent
          /\ schemas[request.id][request.version].body = request.body
          /\ request.body \notin Malformed
    BY DEF PublishResult, Registry!PublishOutcome, Registry!Known
  <2> QED
    BY <1>1, <2>1, <2>2, <2>3, StayLasts DEF registryVars
<1> QED
  BY <1>2, <1>3

Others(c) ==
  \A d \in Clients \ {c} :
    pc'[d] = pc[d] /\ call'[d] = call[d] /\ outcome'[d] = outcome[d] /\ retried'[d] = retried[d]

\* One step of a client, and what it leaves to be shown of it.
Advanced(c) ==
  /\ Lasting /\ Others(c) /\ Relies(c)'
  /\ DOMAIN retried' = Clients

LEMMA PublishAdvances ==
  ASSUME RInv, NEW c \in Clients, NEW request, WellFormed(request),
         request.op = "publish", Publish(c, request)
  PROVE  Advanced(c) /\ rebased' = rebased
<1>1. /\ Others(c) /\ DOMAIN retried' = Clients /\ rebased' = rebased
      /\ retried'[c] = (request = call[c] /\ outcome[c] \in Succeeded)
      /\ call'[c] = request
  BY DEF RInv, CInv, Shape, Publish, Starting, PublishThrough, Answering, Others
<1>2. /\ Lasting /\ pc'[c] = "idle" /\ outcome'[c] = PublishResult(request)
      /\ outcome'[c] \in Succeeded => Achieved(request)'
  BY PublishThroughRelies DEF RInv, CInv, Publish, Achieved
<1>3. ASSUME request = call[c], outcome[c] \in Succeeded, request.expected = AnyRevision
      PROVE  PublishResult(request) = "idempotent"
  <2>1. Achieved(request)
    BY <1>3 DEF RInv, Relies
  <2> QED
    BY <1>3, <2>1 DEF Achieved, PublishResult, Registry!PublishOutcome, Registry!RevisionMatches,
                      Registry!Known
<1>4. Relies(c)'
  BY <1>1, <1>2, <1>3 DEF Relies, PinIsPast, Achieved
<1> QED
  BY <1>1, <1>2, <1>4 DEF Advanced

LEMMA DeprecateAdvances ==
  ASSUME RInv, NEW c \in Clients, NEW request, WellFormed(request),
         request.op = "deprecate", Deprecate(c, request)
  PROVE  Advanced(c) /\ rebased' = rebased
<1> DEFINE result == Registry!DeprecateOutcome(request.id, request.version, request.expected)
<1>1. /\ Others(c) /\ DOMAIN retried' = Clients /\ rebased' = rebased
      /\ retried'[c] = (request = call[c] /\ outcome[c] \in Succeeded)
      /\ call'[c] = request /\ pc'[c] = "idle" /\ outcome'[c] = result
  BY DEF RInv, CInv, Shape, Deprecate, Starting, Answering, Others
<1>2. Lasting /\ (outcome'[c] \in Succeeded => Achieved(request)')
  <2>1. CASE result = "deprecated"
    <3>1. Registry!DeprecateSchema(request.id, request.version, request.expected)
      BY <2>1 DEF Deprecate
    <3> QED
      BY <3>1, DeprecateLasts DEF RInv, CInv, WellFormed, Achieved
  <2>2. CASE result # "deprecated"
    <3>1. UNCHANGED registryVars
      BY <2>2 DEF Deprecate
    <3>2. outcome'[c] \in Succeeded => Achieved(request)
      BY <1>1, <2>2 DEF Registry!DeprecateOutcome, Registry!Known, Succeeded, Achieved
    <3> QED
      BY <3>1, <3>2, StayLasts DEF registryVars, Achieved
  <2> QED
    BY <2>1, <2>2
<1>3. ASSUME request = call[c], outcome[c] \in Succeeded, request.expected = AnyRevision
      PROVE  result = "idempotent"
  <2>1. Achieved(request)
    BY <1>3 DEF RInv, Relies
  <2> QED
    BY <1>3, <2>1 DEF Achieved, Registry!DeprecateOutcome, Registry!RevisionMatches, Registry!Known
<1> HIDE DEF result
<1>4. Relies(c)'
  BY <1>1, <1>2, <1>3 DEF Relies, PinIsPast
<1> QED
  BY <1>1, <1>2, <1>4 DEF Advanced

LEMMA UpdateReadsAdvances ==
  ASSUME RInv, NEW c \in Clients, NEW request, WellFormed(request), PinIsPast(request),
         request.op = "update", UpdateReads(c, request)
  PROVE  Advanced(c) /\ rebased' = rebased
<1>1. /\ Others(c) /\ DOMAIN retried' = Clients /\ UNCHANGED <<registryVars, rebased>>
      /\ call'[c] = request
      /\ outcome'[c] \notin Succeeded
      /\ pc'[c] = "publishing" => CurrentIs(request.id, request.current)
  <2>1. \/ /\ pc' = [pc EXCEPT ![c] = "publishing"] /\ outcome' = [outcome EXCEPT ![c] = "none"]
           /\ CurrentIs(request.id, request.current)
        \/ /\ pc' = [pc EXCEPT ![c] = "idle"]
           /\ \E result \in {"ResourceNotFound", "RegistryRevisionConflict"} :
                outcome' = [outcome EXCEPT ![c] = result]
    BY DEF UpdateReads, Answering
  <2> QED
    BY <2>1 DEF RInv, CInv, Shape, UpdateReads, Starting, Others, Succeeded
<1>2. Lasting
  BY <1>1, StayLasts
<1>3. CurrentIs(request.id, request.current) => CurrentIs(request.id, request.current)'
  BY <1>1 DEF registryVars, CurrentIs, Registry!IsLatest, Registry!KnownVersions, Registry!Known
<1>4. PinIsPast(request)'
  BY <1>1 DEF registryVars, PinIsPast
<1>5. Relies(c)'
  BY <1>1, <1>3, <1>4 DEF Relies
<1> QED
  BY <1>1, <1>2, <1>5 DEF Advanced

LEMMA ReadAdvances ==
  ASSUME RInv, NEW c \in Clients, NEW request, request.op = "read", Read(c, request)
  PROVE  Advanced(c) /\ rebased' = rebased
<1>1. /\ Others(c) /\ DOMAIN retried' = Clients /\ UNCHANGED <<registryVars, rebased>>
      /\ call'[c] = request /\ pc'[c] = "idle"
  BY DEF RInv, CInv, Shape, Read, Starting, Answering, Others
<1>2. Relies(c)'
  BY <1>1 DEF Relies, Achieved, PinIsPast
<1> QED
  BY <1>1, <1>2, StayLasts DEF Advanced

(* The second half of an update: it lands on what its first half has read if *)
(* its pin still matches.                                                    *)
LEMMA UpdatePublishesAdvances ==
  ASSUME RInv, NEW c \in Clients, UpdatePublishes(c)
  PROVE  Advanced(c) /\ PinnedUpdateFollowsCurrent'
<1> DEFINE request == call[c]
<1>1. /\ WellFormed(request) /\ request.op = "update" /\ pc[c] = "publishing"
      /\ PinIsPast(request) /\ (request.expected = revision => CurrentIs(request.id, request.current))
  BY DEF RInv, CInv, CallsKept, Relies, UpdatePublishes
<1>2. /\ Others(c) /\ retried' = retried /\ call' = call
  BY DEF RInv, CInv, Shape, UpdatePublishes, PublishThrough, Answering, Others
<1>3. /\ Lasting /\ pc'[c] = "idle" /\ outcome'[c] = PublishResult(request)
  BY <1>1, PublishThroughRelies DEF RInv, CInv, UpdatePublishes
<1>4. PinIsPast(request)'
  BY <1>1, <1>2, <1>3 DEF PinIsPast, Lasting, RInv
<1>5. Relies(c)'
  BY <1>1, <1>2, <1>3, <1>4 DEF Relies, Achieved
<1>6. PinnedUpdateFollowsCurrent'
  <2>1. CASE outcome'[c] # "published"
    BY <2>1 DEF UpdatePublishes, RInv, PinnedUpdateFollowsCurrent
  <2>2. CASE outcome'[c] = "published"
    <3> DEFINE pinned == request.expected # AnyRevision
               below == {v \in Versions : Registry!IsLatest(request.id, TRUE, v)}
    <3>1. rebased' = rebased \cup
                       {[current |-> request.current, below |-> v, pinned |-> pinned] : v \in below}
      BY <2>2 DEF UpdatePublishes
    <3>2. pinned => request.expected = revision
      BY <1>3, <2>2 DEF PublishResult, Registry!PublishOutcome, Registry!RevisionMatches
    <3>3. ASSUME NEW v \in below, pinned  PROVE v = request.current
      BY <1>1, <3>2, <3>3 DEF CurrentIs
    <3> HIDE DEF pinned, below, request
    <3> QED
      BY <3>1, <3>3 DEF RInv, PinnedUpdateFollowsCurrent
  <2> QED
    BY <2>1, <2>2
<1> QED
  BY <1>2, <1>3, <1>5, <1>6 DEF Advanced, RInv

LEMMA PinningIsPast ==
  ASSUME revision \in Nat, NEW op, NEW request \in Pinning(op)
  PROVE  PinIsPast(request)
<1>1. PICK asked \in Calls, expected \in {AnyRevision, revision} : request = AtRevision(asked, expected)
  BY DEF Pinning
<1>2. request.expected = expected
  BY <1>1 DEF AtRevision
<1> QED
  BY <1>2 DEF PinIsPast

LEMMA ReadsAreReads ==
  ASSUME NEW c, NEW request \in Reads(c)
  PROVE  request.op = "read"
BY DEF Reads

LEMMA NextAdvances ==
  ASSUME RInv, Next
  PROVE  \E c \in Clients : Advanced(c) /\ PinnedUpdateFollowsCurrent'
<1>0. ASSUME rebased' = rebased  PROVE PinnedUpdateFollowsCurrent'
  BY <1>0 DEF RInv, PinnedUpdateFollowsCurrent
<1>1. ASSUME NEW c \in Clients, NEW request \in Pinning("publish"), Publish(c, request)
      PROVE  Advanced(c) /\ PinnedUpdateFollowsCurrent'
  BY <1>0, <1>1, PinnedIsWellFormed, PublishAdvances
<1>2. ASSUME NEW c \in Clients, NEW request \in Pinning("deprecate"), Deprecate(c, request)
      PROVE  Advanced(c) /\ PinnedUpdateFollowsCurrent'
  BY <1>0, <1>2, PinnedIsWellFormed, DeprecateAdvances
<1>3. ASSUME NEW c \in Clients, NEW request \in Pinning("update"), UpdateReads(c, request)
      PROVE  Advanced(c) /\ PinnedUpdateFollowsCurrent'
  BY <1>0, <1>3, PinnedIsWellFormed, PinningIsPast, UpdateReadsAdvances DEF RInv
<1>4. ASSUME NEW c \in Clients, NEW request \in Reads(c), Read(c, request)
      PROVE  Advanced(c) /\ PinnedUpdateFollowsCurrent'
  BY <1>0, <1>4, ReadsAreReads, ReadAdvances
<1>5. ASSUME NEW c \in Clients, UpdatePublishes(c)
      PROVE  Advanced(c) /\ PinnedUpdateFollowsCurrent'
  BY <1>5, UpdatePublishesAdvances
<1>6. ASSUME NEW c \in Clients, Repeat(c)
      PROVE  Advanced(c) /\ PinnedUpdateFollowsCurrent'
  <2>1. WellFormed(call[c]) /\ PinIsPast(call[c])
    BY <1>6 DEF Repeat, RInv, CInv, CallsKept, Relies
  <2>2. CASE call[c].op = "publish"
    <3>1. Publish(c, call[c])
      BY <1>6, <2>2 DEF Repeat
    <3> QED
      BY <1>0, <2>1, <2>2, <3>1, PublishAdvances
  <2>3. CASE call[c].op = "deprecate"
    <3>1. Deprecate(c, call[c])
      BY <1>6, <2>3 DEF Repeat
    <3> QED
      BY <1>0, <2>1, <2>3, <3>1, DeprecateAdvances
  <2>4. CASE call[c].op = "update"
    <3>1. UpdateReads(c, call[c])
      BY <1>6, <2>4 DEF Repeat
    <3> QED
      BY <1>0, <2>1, <2>4, <3>1, UpdateReadsAdvances
  <2>5. CASE call[c].op = "read"
    <3>1. Read(c, call[c])
      BY <1>6, <2>5 DEF Repeat
    <3> QED
      BY <1>0, <2>5, <3>1, ReadAdvances
  <2> QED
    BY <2>1, <2>2, <2>3, <2>4, <2>5 DEF WellFormed
<1> QED
  BY <1>1, <1>2, <1>3, <1>4, <1>5, <1>6 DEF Next

LEMMA PlanAdvances ==
  ASSUME RInv, NEW c \in Clients, NEW ask \in Asks, Plan(c, ask)
  PROVE  Advanced(c) /\ rebased' = rebased
<1>1. /\ Others(c) /\ DOMAIN retried' = Clients /\ UNCHANGED <<registryVars, rebased>>
      /\ call'[c] = [op |-> "plan"] /\ pc'[c] = "idle"
  BY DEF RInv, CInv, Shape, Plan, Starting, Answering, Others
<1>2. Relies(c)'
  BY <1>1 DEF Relies, Achieved, PinIsPast
<1> QED
  BY <1>1, <1>2, StayLasts DEF Advanced

\* The Engine leaves the clients alone.
LEMMA EngineLasts ==
  ASSUME RInv, NEW k \in SentIds, ExecuteData(k) \/ ExecutePublish(k) \/ ExecuteCreate(k)
  PROVE  Lasting /\ UNCHANGED <<pc, call, outcome, retried, rebased>>
<1>1. CASE ExecuteData(k)
  BY <1>1, StayLasts DEF ExecuteData, vars
<1>2. CASE ExecutePublish(k)
  <2> DEFINE about == sent[k].about
             expected == Numbered(sent[k].operation.input, "expectedRegistryRevision")
             pin == IF expected = NotNamed THEN AnyRevision ELSE expected
  <2>1. /\ MayDeliver(k) /\ sent[k].operation.method = "publish_schema"
        /\ \/ Registry!PublishSchema(about.id, about.version, about.body, pin, FALSE)
           \/ UNCHANGED registryVars
        /\ UNCHANGED <<pc, call, outcome, retried, rebased>>
    BY <1>2 DEF ExecutePublish
  <2>2. about.id \in SchemaIds /\ about.version \in Versions
    BY <2>1 DEF RInv, CInv, SentSound, Sound, Linked, MayDeliver
  <2> HIDE DEF about, pin
  <2> QED
    BY <2>1, <2>2, PublishLasts, StayLasts DEF RInv, CInv
<1>3. CASE ExecuteCreate(k)
  BY <1>3, CreateLasts, StayLasts DEF ExecuteCreate
<1> QED
  BY <1>1, <1>2, <1>3

LEMMA RInvHolds == CatalogSpec => []RInv
<1>1. CatalogInit => RInv
  <2> SUFFICES ASSUME CatalogInit PROVE RInv
    OBVIOUS
  <2>1. CInv
    BY CatalogInitIsSound
  <2>2. revision = 0 /\ rebased = {} /\ DOMAIN retried = Clients
    BY DEF CatalogInit, Init, Registry!Init
  <2>3. \A c \in Clients : pc[c] = "idle" /\ ~retried[c] /\ outcome[c] = "none"
    BY DEF CatalogInit, Init
  <2>4. \A c \in Clients : Relies(c)
    BY <2>3 DEF Relies, Succeeded
  <2> QED
    BY <2>1, <2>2, <2>4 DEF RInv, PinnedUpdateFollowsCurrent
<1>2. RInv /\ [CatalogNext]_allVars /\ CInv' => RInv'
  <2> SUFFICES ASSUME RInv, [CatalogNext]_allVars, CInv' PROVE RInv'
    OBVIOUS
  <2>1. ASSUME NEW c \in Clients, Advanced(c), PinnedUpdateFollowsCurrent'  PROVE RInv'
    <3>1. Lasting /\ Relies(c)' /\ DOMAIN retried' = Clients
      BY <2>1 DEF Advanced
    <3>2. ASSUME NEW d \in Clients \ {c}  PROVE Relies(d)'
      BY <2>1, <3>1, WaitingRelies DEF Advanced, Others, RInv, CInv
    <3> QED
      BY <2>1, <3>1, <3>2 DEF RInv, Lasting
  <2>2. ASSUME Lasting, UNCHANGED <<pc, call, outcome, retried, rebased>>  PROVE RInv'
    <3>1. ASSUME NEW d \in Clients  PROVE Relies(d)'
      BY <2>2, WaitingRelies DEF RInv, CInv
    <3> QED
      BY <2>2, <3>1 DEF RInv, Lasting, PinnedUpdateFollowsCurrent
  <2>3. CASE Next
    BY <2>1, <2>3, NextAdvances
  <2>4. ASSUME NEW c \in Clients, NEW ask \in Asks, Plan(c, ask)  PROVE RInv'
    <3>1. Advanced(c) /\ rebased' = rebased
      BY <2>4, PlanAdvances
    <3>2. PinnedUpdateFollowsCurrent'
      BY <3>1 DEF RInv, PinnedUpdateFollowsCurrent
    <3> QED
      BY <2>1, <3>1, <3>2
  <2>5. ASSUME NEW k \in SentIds, ExecuteData(k) \/ ExecutePublish(k) \/ ExecuteCreate(k)
        PROVE  RInv'
    BY <2>2, <2>5, EngineLasts
  <2>6. CASE UNCHANGED allVars
    BY <2>2, <2>6, StayLasts DEF allVars, vars
  <2> QED
    BY <2>3, <2>4, <2>5, <2>6 DEF CatalogNext
<1> QED
  BY <1>1, <1>2, CatalogInvHolds, PTL DEF CatalogSpec

(* An update that pins a revision lands on the version its caller named as   *)
(* current, whoever publishes between its read and its publication.          *)
THEOREM PinnedUpdateFollowsCurrentAlways == CatalogSpec => []PinnedUpdateFollowsCurrent
<1>1. RInv => PinnedUpdateFollowsCurrent
  BY DEF RInv
<1> QED
  BY <1>1, RInvHolds, PTL

(* A publication or a deprecation that succeeded and is repeated without a   *)
(* pin is answered as a replay, whatever has happened to the Schema since.   *)
THEOREM RepetitionIsIdempotentAlways == CatalogSpec => []RepetitionIsIdempotent
<1>1. RInv => RepetitionIsIdempotent
  BY DEF RInv, Relies, RepetitionIsIdempotent
<1> QED
  BY <1>1, RInvHolds, PTL

-----------------------------------------------------------------------------
(* The surfaces and the contracts: two tables, compared method by method     *)

MayBeLeftOut ==
  {"expectedVersion", "expectedRegistryRevision", "cursor", "ttlMs", "sourceVersion"}

(* A surface has the parameters its contract requires and none that it does  *)
(* not know; what it may leave out is not required.                          *)
LEMMA TablesAgree ==
  ASSUME NEW p \in Catalogs, NEW method \in DOMAIN Parameters[p]
  PROVE  /\ method \in DOMAIN Required[p]
         /\ Required[p][method] \subseteq Parameters[p][method]
         /\ Parameters[p][method] \subseteq Required[p][method] \cup Optional(p, method)
         /\ \A key \in MayBeLeftOut \cap Required[p][method] :
              method = "compare_and_set" /\ key = "expectedVersion"
         /\ <<p, method>> = <<"structured", "put">> => "mode" \in Parameters[p][method]
<1>1. CASE p = "structured"
  BY <1>1 DEF Required, Parameters, Optional, MayBeLeftOut
<1>2. CASE p = "cache"
  BY <1>2 DEF Required, Parameters, Optional, MayBeLeftOut
<1> QED
  BY <1>1, <1>2, TwoCatalogs

\* What becomes of a value on its way into the Expression.
Passed(key, value) ==
  IF key \in {"where", "options"} /\ value.kind = "null" THEN Value("object") ELSE value

Fine(method, key, value) == LeftOut(method, key, value) \/ Admits(key, Passed(key, value))

(* What the signatures allow under a parameter, its contract admits.         *)
LEMMA TypedIsFine ==
  ASSUME NEW p \in Catalogs, NEW method \in DOMAIN Parameters[p],
         NEW key \in Parameters[p][method], key # "expectedRegistryRevision",
         NEW value \in Typed(p, method, key)
  PROVE  Fine(method, key, value)
<1>0. {"data", "where", "changes", "selector", "select", "facets", "highlights", "groupBy",
       "orderBy", "metrics", "resource", "query", "mode", "limit", "cursor", "ttlMs",
       "expectedVersion", "sourceVersion", "key", "value"} \cap RegistryArguments = {}
  BY DEF RegistryArguments
<1>1. CASE key \in {"data", "changes", "selector", "definition", "schema"}
  <2>1. value = Value("object")
    BY <1>1 DEF Typed
  <2>2. Passed(key, value) = value /\ value.kind = "object"
    BY <2>1 DEF Passed, Value
  <2>3. CASE key \in {"definition", "schema"}
    <3>1. RegistryAdmits(key, value)
      BY <2>3, <2>2 DEF RegistryAdmits
    <3> QED
      BY <2>2, <2>3, <3>1 DEF Fine, Admits, RegistryArguments
  <2>4. CASE key \in {"data", "changes", "selector"}
    <3>1. DataAdmits(key, value)
      BY <2>4, <2>2 DEF DataAdmits
    <3> QED
      BY <1>0, <2>2, <2>4, <3>1 DEF Fine, Admits
  <2> QED
    BY <1>1, <2>3, <2>4
<1>2. CASE key \in {"where", "options"}
  <2>1. value \in {Value("object"), Value("null")}
    BY <1>2 DEF Typed
  <2>2. Passed(key, value).kind = "object"
    BY <1>2, <2>1 DEF Passed, Value
  <2>3. CASE key = "where"
    <3>1. DataAdmits(key, Passed(key, value))
      BY <2>3, <2>2 DEF DataAdmits
    <3> QED
      BY <1>0, <2>3, <3>1 DEF Fine, Admits
  <2>4. CASE key = "options"
    <3>1. RegistryAdmits(key, Passed(key, value))
      BY <2>4, <2>2 DEF RegistryAdmits
    <3> QED
      BY <2>4, <3>1 DEF Fine, Admits, RegistryArguments
  <2> QED
    BY <1>2, <2>3, <2>4
<1>3. CASE key \in {"select", "facets", "highlights", "groupBy", "orderBy", "metrics"}
  <2>1. Passed(key, value) = value
    BY <1>3 DEF Passed
  <2>2. CASE key \in {"select", "facets", "highlights", "groupBy"}
    <3>1. value.kind \in {"texts", "empty"}
      BY <2>2 DEF Typed, Value
    <3>2. DataAdmits(key, value)
      BY <2>2, <3>1 DEF DataAdmits
    <3> QED
      BY <1>0, <2>1, <2>2, <3>2 DEF Fine, Admits
  <2>3. CASE key \in {"orderBy", "metrics"}
    <3>1. value.kind \in {"objects", "empty"}
      BY <2>3 DEF Typed, Value
    <3>2. DataAdmits(key, value)
      BY <2>3, <3>1 DEF DataAdmits
    <3> QED
      BY <1>0, <2>1, <2>3, <3>2 DEF Fine, Admits
  <2> QED
    BY <1>3, <2>2, <2>3
<1>4. CASE key \in {"resource", "query", "namespace", "name", "version", "mode", "allowBreaking"}
  <2>1. Passed(key, value) = value
    BY <1>4 DEF Passed
  <2>2. CASE key \in {"resource", "query"}
    <3>1. value.kind \in {"text", "object"}
      BY <2>2 DEF Typed, Value
    <3>2. DataAdmits(key, value)
      BY <2>2, <3>1 DEF DataAdmits, Texts
    <3> QED
      BY <1>0, <2>1, <2>2, <3>2 DEF Fine, Admits
  <2>3. CASE key \in {"namespace", "name", "version", "allowBreaking"}
    <3>1. value.kind = IF key = "allowBreaking" THEN "boolean" ELSE "text"
      BY <2>3 DEF Typed, Value
    <3>2. RegistryAdmits(key, value)
      BY <2>3, <3>1 DEF RegistryAdmits, Texts
    <3> QED
      BY <2>1, <2>3, <3>2 DEF Fine, Admits, RegistryArguments
  <2>4. CASE key = "mode"
    <3>1. value.kind \in Modes
      BY <2>4 DEF Typed, Value
    <3>2. DataAdmits(key, value)
      BY <2>4, <3>1 DEF DataAdmits
    <3> QED
      BY <1>0, <2>1, <2>4, <3>2 DEF Fine, Admits
  <2> QED
    BY <1>4, <2>2, <2>3, <2>4
<1>5. CASE key \in {"limit", "ttlMs", "cursor"}
  <2>1. Passed(key, value) = value
    BY <1>5 DEF Passed
  <2>2. value.kind = "null" => key # "limit"
    BY <1>5 DEF Typed, Number
  <2>3. CASE value.kind = "null"
    BY <1>5, <2>2, <2>3 DEF Fine, LeftOut
  <2>4. CASE value.kind # "null"
    <3>1. ASSUME key = "limit"
          PROVE  DataAdmits(key, value)
      <4>1. value \in {Number(1), Number(10000)}
        BY <3>1 DEF Typed
      <4>2. value.kind = "integer" /\ value.number \in 1..10000
        BY <4>1 DEF Number
      <4> QED
        BY <3>1, <4>2 DEF DataAdmits
    <3>2. ASSUME key = "ttlMs"
          PROVE  DataAdmits(key, value)
      <4>1. value \in {Value("null"), Number(1)}
        BY <3>2 DEF Typed
      <4>2. value.kind = "integer" /\ value.number > 0
        BY <2>4, <4>1 DEF Value, Number
      <4> QED
        BY <3>2, <4>2 DEF DataAdmits
    <3>3. ASSUME key = "cursor"
          PROVE  DataAdmits(key, value)
      <4>1. value \in {Value("null"), Value("text")}
        BY <3>3 DEF Typed
      <4>2. value.kind = "text"
        BY <2>4, <4>1 DEF Value
      <4> QED
        BY <3>3, <4>2 DEF DataAdmits, Texts
    <3>4. DataAdmits(key, value)
      BY <1>5, <3>1, <3>2, <3>3
    <3> QED
      BY <1>0, <1>5, <2>1, <3>4 DEF Fine, Admits
  <2> QED
    BY <2>3, <2>4
<1>6. CASE key \in {"expectedVersion", "sourceVersion"}
  <2>1. Passed(key, value) = value
    BY <1>6 DEF Passed
  <2>2. value \in {Value("text"), Number(0), Number(1), Value("null")}
    BY <1>6 DEF Typed
  <2>3. value.kind \in {"text", "integer", "null"}
    BY <2>2 DEF Value, Number
  <2>4. value.kind \in Texts \cup {"null", "integer"}
    BY <2>3 DEF Texts
  <2>5. DataAdmits(key, value)
    BY <1>6, <2>4 DEF DataAdmits
  <2>6. Admits(key, value)
    BY <1>0, <1>6, <2>5 DEF Admits
  <2> QED
    BY <2>1, <2>6 DEF Fine
<1>7. CASE key \in {"key", "value"}
  BY <1>0, <1>7 DEF Fine, Passed, Admits, DataAdmits
<1>8. key \in {"data", "changes", "selector", "definition", "schema", "where", "options", "select",
               "facets", "highlights", "groupBy", "orderBy", "metrics", "resource", "query",
               "namespace", "name", "version", "mode", "allowBreaking", "limit", "ttlMs", "cursor",
               "expectedVersion", "sourceVersion", "key", "value"}
  <2>1. CASE p = "structured"
    BY <2>1 DEF Parameters
  <2>2. CASE p = "cache"
    BY <2>2 DEF Parameters
  <2> QED
    BY <2>1, <2>2, TwoCatalogs
<1> QED
  BY <1>1, <1>2, <1>3, <1>4, <1>5, <1>6, <1>7, <1>8

LEMMA FineCallsSpeak ==
  ASSUME NEW p \in Catalogs, NEW method \in DOMAIN Parameters[p], NEW given,
         DOMAIN given = Parameters[p][method], ~RefusedPut(given),
         \A key \in DOMAIN given : Fine(method, key, given[key])
  PROVE  Speaks(p, method, given)
<1> DEFINE kept == {key \in DOMAIN given : ~LeftOut(method, key, given[key])}
           arguments == [key \in kept |-> Passed(key, given[key])]
           expression == Express(p, method, given)
           input == Input(p, method, arguments)
<1>1. /\ expression.catalog = p /\ expression.method = method /\ expression.arguments = arguments
  BY DEF Express, Passed
<1>2. Operation(p, expression).input = input
  BY <1>1 DEF Operation
<1>3. /\ DOMAIN arguments = kept
      /\ \A key \in kept : arguments[key] = Passed(key, given[key])
  OBVIOUS
<1>4. \A key \in DOMAIN given : Given(given, key) => key \in kept /\ arguments[key] = given[key]
  BY DEF Given, LeftOut, Passed
<1>5. \A key \in MayBeLeftOut : Given(arguments, key) => Given(given, key)
  BY DEF Given, Passed, MayBeLeftOut
<1>6. Required[p][method] \subseteq kept
  <2>1. ASSUME NEW key \in Required[p][method]  PROVE ~LeftOut(method, key, given[key])
    BY TablesAgree DEF LeftOut, MayBeLeftOut
  <2> QED
    BY <2>1, TablesAgree
<1>7. kept \subseteq Required[p][method] \cup Optional(p, method)
  BY TablesAgree
<1>8. \A key \in kept : Admits(key, arguments[key])
  BY DEF Fine
<1>9. <<p, method>> = <<"structured", "put">>
        => ~(arguments.mode.kind = "if_absent" /\ Given(arguments, "expectedVersion"))
  <2> SUFFICES ASSUME p = "structured", method = "put", arguments.mode.kind = "if_absent",
                      Given(arguments, "expectedVersion")
               PROVE  FALSE
    OBVIOUS
  <2>1. "mode" \in DOMAIN given /\ "mode" \in kept
    BY TablesAgree DEF LeftOut
  <2>2. arguments.mode = given.mode
    BY <2>1 DEF Passed
  <2> QED
    BY <1>5, <2>1, <2>2 DEF RefusedPut, MayBeLeftOut
<1> HIDE DEF arguments, expression, kept
<1>10. Plannable(p, expression)
  BY <1>1, <1>3, <1>6, <1>7, <1>8, <1>9, TablesAgree DEF Plannable
<1>11. ASSUME NEW key \in DOMAIN given, Given(given, key)
       PROVE  key \in DOMAIN input /\ input[key] = given[key]
  <2>1. key \in DOMAIN arguments /\ arguments[key] = given[key] /\ Given(arguments, key)
    BY <1>3, <1>4, <1>11 DEF Given
  <2> QED
    BY <2>1 DEF Input
<1> QED
  BY <1>2, <1>10, <1>11 DEF Speaks, expression

LEMMA DataSurfacesDoSpeak == DataSurfacesSpeak
<1> SUFFICES ASSUME NEW asked \in DataCalls
             PROVE  Speaks(asked[1], asked[2], asked[3]) \/ RefusedPut(asked[3])
  BY DEF DataSurfacesSpeak
<1>1. PICK pair \in DataMethods :
        \E given \in TypedCalls(pair[1], pair[2]) : asked = <<pair[1], pair[2], given>>
  BY DEF DataCalls
<1>2. PICK given \in TypedCalls(pair[1], pair[2]) : asked = <<pair[1], pair[2], given>>
  BY <1>1
<1>3. /\ pair[1] \in Catalogs /\ pair[2] \in DOMAIN Parameters[pair[1]]
      /\ pair[2] # "publish_schema"
  BY DEF DataMethods
<1>4. /\ DOMAIN given = Parameters[pair[1]][pair[2]]
      /\ \A key \in DOMAIN given : given[key] \in Typed(pair[1], pair[2], key)
  BY DEF TypedCalls
<1>5. "expectedRegistryRevision" \notin DOMAIN given
  <2>1. \A key \in DOMAIN given : key \in Required[pair[1]][pair[2]] \cup Optional(pair[1], pair[2])
    BY <1>3, <1>4, TablesAgree
  <2> QED
    BY <1>3, <2>1, TablesAgree, WhatMethodsAdmit
<1>6. \A key \in DOMAIN given : Fine(pair[2], key, given[key])
  BY <1>3, <1>4, <1>5, TypedIsFine
<1> QED
  BY <1>2, <1>3, <1>4, <1>6, FineCallsSpeak

LEMMA PinnedPublicationSpeaks ==
  ASSUME revision \in Nat, NEW pin \in {Value("null"), Number(0), Number(revision)}
  PROVE  Speaks("structured", "publish_schema",
                [p \in Parameters.structured.publish_schema |->
                   IF p = "expectedRegistryRevision" THEN pin
                   ELSE CHOOSE v \in Typed("structured", "publish_schema", p) : TRUE])
<1> DEFINE parameters == Parameters.structured.publish_schema
           given == [p \in parameters |->
                       IF p = "expectedRegistryRevision" THEN pin
                       ELSE CHOOSE v \in Typed("structured", "publish_schema", p) : TRUE]
<1>1. /\ "structured" \in Catalogs /\ "publish_schema" \in DOMAIN Parameters["structured"]
      /\ parameters = Parameters["structured"]["publish_schema"]
      /\ parameters = {"namespace", "name", "version", "definition", "allowBreaking",
                       "expectedRegistryRevision"}
  BY TwoCatalogs DEF Parameters
<1>2. ASSUME NEW key \in parameters, key # "expectedRegistryRevision"
      PROVE  given[key] \in Typed("structured", "publish_schema", key)
  <2>1. Typed("structured", "publish_schema", key) # {}
    BY <1>1, <1>2 DEF Typed
  <2> QED
    BY <1>2, <2>1
<1>3. Fine("publish_schema", "expectedRegistryRevision", pin)
  BY DEF Value, Number, Fine, LeftOut, Passed, Admits, RegistryArguments, RegistryAdmits
<1>4. given["expectedRegistryRevision"] = pin /\ DOMAIN given = parameters
  BY <1>1
<1> HIDE DEF given, parameters
<1>5. \A key \in parameters : Fine("publish_schema", key, given[key])
  BY <1>1, <1>2, <1>3, <1>4, TypedIsFine
<1>6. ~RefusedPut(given)
  BY <1>1, <1>4 DEF RefusedPut
<1>7. Speaks("structured", "publish_schema", given)
  BY <1>1, <1>4, <1>5, <1>6, FineCallsSpeak
<1> QED
  BY <1>7 DEF given, parameters

(* Whatever a surface lets its callers say, the contract of its Catalog      *)
(* accepts, and the Operation carries it.                                    *)
THEOREM SurfaceSpeaksTheContractAlways == CatalogSpec => []SurfaceSpeaksTheContract
<1>1. RInv => SurfaceSpeaksTheContract
  BY DataSurfacesDoSpeak, PinnedPublicationSpeaks DEF RInv, SurfaceSpeaksTheContract
<1> QED
  BY <1>1, RInvHolds, PTL

-----------------------------------------------------------------------------
(* The registry under clients and Catalogs: whatever they do, it makes a     *)
(* step of its protocol or none.                                             *)

RegistrySteps == Registry!Next \/ UNCHANGED Registry!vars

\* An outcome other than a conflict means that the pin, if any, is the present
\* revision.
LEMMA PublishingIsAStep ==
  ASSUME NEW id \in SchemaIds, NEW v \in Versions, NEW body \in Bodies, NEW allow \in BOOLEAN,
         NEW expected, Registry!PublishSchema(id, v, body, expected, allow)
  PROVE  Registry!Next
<1>1. expected \in Registry!Expectations
  BY DEF Registry!PublishSchema, Registry!PublishOutcome, Registry!RevisionMatches,
         Registry!Expectations
<1> QED
  BY <1>1 DEF Registry!Next

LEMMA DeprecatingIsAStep ==
  ASSUME NEW id \in SchemaIds, NEW v \in Versions, NEW expected,
         Registry!DeprecateSchema(id, v, expected)
  PROVE  Registry!Next
<1>1. expected \in Registry!Expectations
  BY DEF Registry!DeprecateSchema, Registry!DeprecateOutcome, Registry!RevisionMatches,
         Registry!Expectations
<1> QED
  BY <1>1 DEF Registry!Next

LEMMA CreatingIsAStep ==
  ASSUME NEW r \in Resources, NEW schema \in Registry!SchemaRefs, NEW expected,
         Registry!CreateCollection(r, schema, expected)
  PROVE  Registry!Next
<1>1. expected \in Registry!Expectations
  BY DEF Registry!CreateCollection, Registry!CreateOutcome, Registry!RevisionMatches,
         Registry!Expectations
<1> QED
  BY <1>1 DEF Registry!Next

LEMMA PublishThroughIsAStep ==
  ASSUME NEW c, NEW request, WellFormed(request), request.op \in {"publish", "update"},
         PublishThrough(c, request)
  PROVE  RegistrySteps
<1>1. CASE PublishResult(request) = "published"
  <2>1. Registry!PublishSchema(request.id, request.version, request.body,
                               request.expected, request.allowBreaking)
    BY <1>1 DEF PublishThrough
  <2>2. /\ request.id \in SchemaIds /\ request.version \in Versions
        /\ request.body \in Bodies /\ request.allowBreaking \in BOOLEAN
    BY DEF WellFormed
  <2> QED
    BY <2>1, <2>2, PublishingIsAStep DEF RegistrySteps
<1>2. CASE PublishResult(request) # "published"
  BY <1>2 DEF PublishThrough, registryVars, RegistrySteps, Registry!vars
<1> QED
  BY <1>1, <1>2

LEMMA DeprecateIsAStep ==
  ASSUME NEW c, NEW request, WellFormed(request), request.op = "deprecate",
         Deprecate(c, request)
  PROVE  RegistrySteps
<1> DEFINE result == Registry!DeprecateOutcome(request.id, request.version, request.expected)
<1>1. IF result = "deprecated"
        THEN Registry!DeprecateSchema(request.id, request.version, request.expected)
        ELSE UNCHANGED registryVars
  BY DEF Deprecate
<1>2. request.id \in SchemaIds /\ request.version \in Versions
  BY DEF WellFormed
<1> HIDE DEF result
<1>3. CASE result = "deprecated"
  BY <1>1, <1>2, <1>3, DeprecatingIsAStep DEF RegistrySteps
<1>4. CASE result # "deprecated"
  BY <1>1, <1>4 DEF registryVars, RegistrySteps, Registry!vars
<1> QED
  BY <1>3, <1>4

LEMMA ClientsStep ==
  ASSUME CallsKept, Next
  PROVE  RegistrySteps
<1>1. ASSUME UNCHANGED registryVars  PROVE RegistrySteps
  BY <1>1 DEF registryVars, RegistrySteps, Registry!vars
<1>2. ASSUME NEW c \in Clients, NEW request, WellFormed(request), request.op = "publish",
             Publish(c, request)
      PROVE  RegistrySteps
  BY <1>2, PublishThroughIsAStep DEF Publish
<1>3. ASSUME NEW c \in Clients, UpdatePublishes(c)  PROVE RegistrySteps
  <2>1. WellFormed(call[c]) /\ call[c].op = "update" /\ PublishThrough(c, call[c])
    BY <1>3 DEF UpdatePublishes, CallsKept
  <2> QED
    BY <2>1, PublishThroughIsAStep
<1>4. ASSUME NEW c \in Clients, NEW request, UpdateReads(c, request) \/ Read(c, request)
      PROVE  RegistrySteps
  BY <1>1, <1>4 DEF UpdateReads, Read
<1>5. ASSUME NEW c \in Clients, Repeat(c)  PROVE RegistrySteps
  <2>1. WellFormed(call[c])
    BY <1>5 DEF Repeat, CallsKept
  <2>2. CASE call[c].op = "publish"
    BY <1>2, <1>5, <2>1, <2>2 DEF Repeat
  <2>3. CASE call[c].op = "deprecate"
    BY <1>5, <2>1, <2>3, DeprecateIsAStep DEF Repeat
  <2>4. CASE call[c].op = "update"
    BY <1>4, <1>5, <2>4 DEF Repeat
  <2>5. CASE call[c].op = "read"
    BY <1>4, <1>5, <2>5 DEF Repeat
  <2> QED
    BY <2>1, <2>2, <2>3, <2>4, <2>5 DEF WellFormed
<1> QED
  BY <1>2, <1>3, <1>4, <1>5, PinnedIsWellFormed, DeprecateIsAStep DEF Next

LEMMA EngineSteps ==
  ASSUME CInv, NEW k \in SentIds, ExecuteData(k) \/ ExecutePublish(k) \/ ExecuteCreate(k)
  PROVE  RegistrySteps
<1>0. ASSUME UNCHANGED registryVars  PROVE RegistrySteps
  BY <1>0 DEF registryVars, RegistrySteps, Registry!vars
<1>1. CASE ExecuteData(k)
  BY <1>0, <1>1 DEF ExecuteData, vars
<1>2. CASE ExecutePublish(k)
  <2> DEFINE about == sent[k].about
             expected == Numbered(sent[k].operation.input, "expectedRegistryRevision")
             pin == IF expected = NotNamed THEN AnyRevision ELSE expected
  <2>1. /\ MayDeliver(k) /\ sent[k].operation.method = "publish_schema"
        /\ \/ Registry!PublishSchema(about.id, about.version, about.body, pin, FALSE)
           \/ UNCHANGED registryVars
    BY <1>2 DEF ExecutePublish
  <2>2. about.id \in SchemaIds /\ about.version \in Versions /\ about.body \in Bodies
    BY <2>1 DEF CInv, SentSound, Sound, Linked, MayDeliver
  <2> HIDE DEF about, pin
  <2> QED
    BY <1>0, <2>1, <2>2, PublishingIsAStep DEF RegistrySteps
<1>3. CASE ExecuteCreate(k)
  <2> DEFINE about == sent[k].about
  <2>1. /\ MayDeliver(k) /\ sent[k].operation.method = "create_resource"
        /\ \/ Registry!CreateCollection(about.ref, about.schema, AnyRevision)
           \/ UNCHANGED registryVars
    BY <1>3 DEF ExecuteCreate
  <2>2. about.ref \in Resources /\ about.schema \in Registry!SchemaRefs
    BY <2>1 DEF CInv, SentSound, Sound, Linked, MayDeliver
  <2> HIDE DEF about
  <2> QED
    BY <1>0, <2>1, <2>2, CreatingIsAStep DEF RegistrySteps
<1> QED
  BY <1>1, <1>2, <1>3

(* SchemaAPI and the Operations of the Catalogs reach the registry through   *)
(* its protocol only: under any clients, repetitions and deliveries it goes  *)
(* through the steps of MetadataRepository, pins included.                   *)
THEOREM CatalogsDriveTheRegistry == CatalogSpec => Registry!Spec
<1>1. CatalogInit => Registry!Init
  BY DEF CatalogInit, Init
<1>2. CInv /\ [CatalogNext]_allVars => [Registry!Next]_(Registry!vars)
  <2> SUFFICES ASSUME CInv, [CatalogNext]_allVars PROVE RegistrySteps
    BY DEF RegistrySteps
  <2>1. CASE Next
    BY <2>1, ClientsStep DEF CInv
  <2>2. ASSUME NEW c \in Clients, NEW ask \in Asks, Plan(c, ask)  PROVE RegistrySteps
    BY <2>2 DEF Plan, registryVars, RegistrySteps, Registry!vars
  <2>3. CASE UNCHANGED allVars
    BY <2>3 DEF allVars, vars, registryVars, RegistrySteps, Registry!vars
  <2> QED
    BY <2>1, <2>2, <2>3, EngineSteps DEF CatalogNext
<1> QED
  BY <1>1, <1>2, CatalogInvHolds, PTL DEF CatalogSpec, Registry!Spec

-----------------------------------------------------------------------------
(* What is proved of the registry holds under clients and Catalogs.          *)
Proved == INSTANCE MetadataRepositoryProofs

LEMMA ProvedIsTheRegistry == Registry!Spec => Proved!Spec
<1>1. Registry!Init => Proved!Init
  BY DEF Registry!Init, Proved!Init
<1>2. [Registry!Next]_(Registry!vars) => [Proved!Next]_(Proved!vars)
  <2>1. ASSUME Registry!Next  PROVE Proved!Next
    BY <2>1
      DEF Registry!Next, Proved!Next, Registry!Expectations, Proved!Expectations,
          Registry!SchemaRefs, Proved!SchemaRefs, Registry!Collection, Proved!Collection,
          Registry!CollectionStates, Proved!CollectionStates, Registry!PublishSchema,
          Proved!PublishSchema, Registry!DeprecateSchema, Proved!DeprecateSchema,
          Registry!CreateCollection, Proved!CreateCollection, Registry!ReplaceCollection,
          Proved!ReplaceCollection, Registry!PublishOutcome, Proved!PublishOutcome,
          Registry!DeprecateOutcome, Proved!DeprecateOutcome, Registry!CreateOutcome,
          Proved!CreateOutcome, Registry!ReplaceOutcome, Proved!ReplaceOutcome,
          Registry!StorePublication, Proved!StorePublication, Registry!StoreDeprecation,
          Proved!StoreDeprecation, Registry!StoreCollection, Proved!StoreCollection,
          Registry!Known, Proved!Known, Registry!NotAboveLatest, Proved!NotAboveLatest,
          Registry!BreaksLatest, Proved!BreaksLatest, Registry!IsLatest, Proved!IsLatest,
          Registry!KnownVersions, Proved!KnownVersions, Registry!Readable, Proved!Readable,
          Registry!RevisionMatches, Proved!RevisionMatches
  <2>2. ASSUME UNCHANGED Registry!vars  PROVE UNCHANGED Proved!vars
    BY <2>2 DEF Registry!vars, Proved!vars
  <2> QED
    BY <2>1, <2>2
<1> QED
  BY <1>1, <1>2, PTL DEF Registry!Spec, Proved!Spec

(* Whatever clients call and Core delivers, also again and late: "latest" is *)
(* one version, evolution is guarded, a published document stays, and every  *)
(* change has its revision.                                                  *)
THEOREM RegistryUnderCatalogs ==
  CatalogSpec => /\ []Proved!LatestIsUnique
                 /\ []Proved!EvolutionIsGuarded
                 /\ Proved!PublishedForever
                 /\ Proved!RevisionNamesState
<1>1. Rank \in [Versions -> Nat] /\ Breaking \subseteq Bodies \X Bodies
  BY RegistryAssumption
<1>2. MaxRevision \in Nat /\ AnyRevision \notin Nat
  BY RegistryAssumption, AsksAssumption
<1>3. Absent \notin Proved!Publication /\ Absent \notin Proved!Collection
  BY AsksAssumption
  DEF Registry!Publication, Registry!Collection, Registry!SchemaRefs, Registry!CollectionStates,
      Proved!Publication, Proved!Collection, Proved!SchemaRefs, Proved!CollectionStates
<1>4. Proved!Spec => []Proved!LatestIsUnique
  BY <1>1, <1>2, <1>3, Proved!LatestIsUniqueAlways, PTL
<1>5. Proved!Spec => []Proved!EvolutionIsGuarded
  BY <1>1, <1>2, <1>3, Proved!EvolutionIsGuardedAlways, PTL
<1>6. Proved!Spec => Proved!PublishedForever
  BY <1>1, <1>2, <1>3, Proved!PublishedForeverAlways, PTL
<1>7. Proved!Spec => Proved!RevisionNamesState
  BY <1>1, <1>2, <1>3, Proved!RevisionNamesStateAlways, PTL
<1> QED
  BY <1>4, <1>5, <1>6, <1>7, CatalogsDriveTheRegistry, ProvedIsTheRegistry, PTL
=============================================================================
