# Verification of Meridian Semantics

TLA+ modules, TLC runs and TLAPS proofs for the Python package
`meridian_storage.semantics` (`src/meridian_storage/semantics`). The package
declares what data means: versioned Schemas with fields, constraints, relations
and profiles; a registry that publishes and deprecates them and holds Collection
documents; validation of Records and patches against a Schema; the
classification of one version against the next; a traversal of relation
Collections; and localized messages.

## 1. The system

### 1.1 Components

Paths are relative to `src/meridian_storage/semantics`.

| Component | State it keeps | Operations | What makes it correct |
|---|---|---|---|
| Registry (`publication.py` 122-403, `resources.py`) | publications by Schema and version, Collection documents, a revision | `publish_schema`, `deprecate_schema`, `create_collection`, `replace_collection`, the reads, `snapshot` | a published definition is for ever; one latest version; each version was compared with the one right below it; a revision names one state |
| Its threads (same class) | a re-entrant lock | the same, concurrently | every operation is atomic, snapshots are consistent, pinned changes follow their pin, every call returns |
| `SchemaAPI` (`publication.py` 406-542) | none | `publish`, `update`, `deprecate`, `read`, `versions` | pinned updates build on the version they name; pinned reads keep matching; repeated calls are replays |
| `ResourceAPI` and the Adapter SPI (`publication.py` 545-582, `spi.py`) | the activation state of a Collection | `create`, which calls an Adapter | an ACTIVE Collection was applied as planned; states move one way; a create settles its Collection |
| `resolve_all_neighbors` (`publication.py` 584-645) | frontier, visited set, selection | one breadth-first walk | selects exactly the neighborhood, and stays inside what the caller may see |
| Compatibility (`compatibility.py`) | none | `classify_compatibility` | the class of each step promises something of a whole chain of versions |
| Records (`validation.py` 126-265, `schemas.py`) | the result being built | `validate_record`, `validate_patch`, default expressions | validity does not depend on the order of fields; immutability; what is stored can be validated again |
| Field types and constraints (`validation.py` 266-420, 580-843) | none | `validate_schema` on constraints, `_validate_field_value` | what is declared is what decides; what is accepted is accepted again |
| Relations (`profiles.py` 249-303, `validation.py` 523-580, 710-727) | none | profile and endpoint checks | traversal covers the Records that constrained endpoints admit |
| Semantic versions (`canonical.py` 139-222) | none | parse, compare, `max()` | a total, transitive order; the scan finds the highest |
| Localized messages (`i18n.py`) | messages by locale | construction, `format` | nearest locale, innermost `#`, the right plural form, an answer or the exception of its argument |
| Catalogs (`catalogs.py`) | none; the Operations they plan live on in Core | the methods of both surfaces, `_normalize`, the argument contracts | what a surface lets say is admitted and carried; no update is lost; a repeated Operation does no harm |
| Planning of traverse (`catalogs.py` 256-282, 427-463, 566-603) | none; the Operation carries a fingerprint | `traverse`, the `relation_resolver` | a plan that went stale can be told from one that did not |
| Schema provider, live bundle (`publication.py` 648-749) | none | `load`, `load_live` | the live bundle contains what it refers to, and what every earlier one did |
| Documents and profiles (`schemas.py`, `profiles.py`, `validation.py` 38-125, 465-580) | none | `from_definition`, `to_dict`, `profile_from_mapping`, `validate_schema` | what is written is read back as the same document; the fields of a profile can go on playing their roles |
| Canonical JSON, names, errors | none | text | an opaque value or an outcome in the models above |

### 1.2 How they interact

`SchemaAPI` and `ResourceAPI` call one repository; each call is atomic, a
sequence of calls is not. `SchemaAPI.update` reads the latest version and then
publishes; `ResourceAPI.create` registers a Collection, looks its Schema up
again, asks the Adapter for a plan and an activation, and replaces the document.
Between two calls anybody may publish, deprecate or replace. The repository asks
`classify_compatibility` whether a new version breaks the latest one. The
traversal reads one snapshot. Records are validated against one version of a
Schema while the next ones are published: Records written earlier stay in the
store. The relation profile is read by the traversal, the constraints of the
endpoint fields by the validation of Records, and `validate_schema` compares the
two.

The Catalogs work at a distance. A surface makes an Expression of a call, a
provider plans it as an Operation, and Core has an Engine execute the Operation:
later, after Operations of others, and again if it is flagged idempotent. A
`traverse` that asks for all neighbors is expanded while it is planned, against
the registry of that moment. `load_live` projects a snapshot of the registry
into the bundle Core loads, while Collections are created and activated. A
definition a client sends becomes a document, the document is judged, published,
written with `to_dict`, and read again by whoever asks for the Schema.

### 1.3 What is hard

* calls that consist of several calls of the repository, with others in between
  (`update`, `create`), and operations of the repository seen by several threads;
* failures half way: an Adapter that applies and then raises, a Schema that is
  deprecated between two lookups, a clock that raises inside the lock;
* retries after lost answers, and pins (revision, fingerprint, version) that
  have become stale;
* rules that look at one step (one version against the next, one patch) and
  have to add up over a chain of steps;
* decisions made when an Operation is planned and relied upon when it is executed:
  the version it names, whether it may be repeated, the relations it traverses;
* two tables that nothing compares: the parameters of a surface and the arguments
  its provider admits;
* a document that is judged alone, with a profile that refers to its fields, and
  a chain of such documents in which fields change their kinds;
* defaults that depend on each other in any order, cyclically too;
* checks of the same thing in two places (profile and constraints, types when a
  value is written and when it is validated again);
* comparison rules: SemVer precedence, decimals and bounds, plural forms.

`PROJECT.json` lists each hazard with its line and the properties that would
catch it.

## 2. The modules

| Module | Models | Built on |
|---|---|---|
| `MetadataRepository` | the registry, one step per operation | |
| `InMemoryRepository` | the same class at the grain of threads and the lock | implements `MetadataRepository` |
| `SchemaClients` | clients of `SchemaAPI` | instance of `MetadataRepository` |
| `CatalogOperations` | both Catalogs: surfaces, planning, Operations executed late and again | extends `SchemaClients` |
| `ResourceActivation` | `ResourceAPI.create`, the Adapter, lifecycle tools | instance of `MetadataRepository` |
| `LiveBundle` | what `load_live` makes of the registry | extends `ResourceActivation` |
| `NeighborTraversal` | `resolve_all_neighbors` | |
| `TraversePlanning` | planning of `traverse`, with the registry moving on | extends `NeighborTraversal` |
| `Records` | when a mapping is a Record of a Schema, as a predicate | |
| `RecordValidation` | the loops of `validate_record` and `validate_patch` | extends `Records`, checked against it |
| `SchemaEvolution` | chains of versions with a Record in the store | extends `Records` |
| `SchemaDocuments` | definitions, documents, profiles and `validate_schema` | extends `SchemaEvolution`, implements it |
| `FieldValues` | declarations of types and constraints, and values under them | |
| `RelationRecords` | the profile, the endpoint constraints and Records as the Schema evolves | |
| `SemanticVersions` | SemVer precedence and the scan for the latest version | |
| `LocalizedMessages` | construction, locale fallback, choices and plurals | |

`*Proofs` holds the theorems of a module, or of a few (section 5), `MC*` and
`MC*.cfg` its instance for TLC. Definitions carry the names of the code where TLA+ allows it; operators
whose comment begins with "Mutant" are plausible bugs. They take no part in
`Spec`; each stands in for the definition below it to see that a property
notices.

### 2.1 The registry: `MetadataRepository`, `InMemoryRepository`

`schemas[id][v]` is `_schemas`, `resources` is `_resources`, `revision` is
`_revision`. A definition is an opaque body, its fingerprint is its identity,
`Rank` is the precedence of a version string (two strings that differ in build
metadata share it, as they do in the code), and `Breaking` is the table of
pairs that `classify_compatibility` would call BREAKING. Every operation has an
*outcome*, the exception or answer of the code in its order of checks, and an
action that is enabled for the successful outcome and makes the change. All
other outcomes leave the registry alone. `waived` remembers which versions were
published with `allow_breaking`; it is a history variable.

`InMemoryRepository` splits an operation into taking the lock, deciding,
(for `create_collection`) taking the lock again and looking the Schema up,
writing the dictionary, incrementing the revision, and leaving. The clock is
read before the write and may raise. `snapshot` copies three fields in three
steps. A thread may pin the revision it last saw. `AtomicSpec` says that this is
`MetadataRepository`: under the refinement mapping an operation takes effect
with the write to the dictionary, and the revision counts the threads that have
written and not yet incremented. The increment is then a stuttering step. `Call`
says what a thread can call: the methods of the protocols, with the arguments
these type.

### 2.2 The clients: `SchemaClients`, `CatalogOperations`, `ResourceActivation`, `LiveBundle`

In `SchemaClients` each client makes a bounded number of calls, may repeat the
last one exactly when it succeeded (an answer that was lost), pins revisions it
might have seen, and pins in a read the fingerprint it was given (`recalled`).
`UpdateReads` and `UpdatePublishes` are the two calls of `update`.

`CatalogOperations` adds the Catalogs to those clients. `Parameters` and
`Required`/`Optional` are the two tables of `catalogs.py`, read off the
signatures and off the argument contracts; `Express` is what a surface does with
its parameters (which it leaves out when they are None), `Plannable` is
`_normalize` up to the refusal, `Operation` is the rest of it: the input and the
idempotent flag. An argument value is its JSON kind and, where one matters, its
number: 0 and null must not be confused. An Operation that writes goes into
`sent`; `ExecuteData`, `ExecutePublish` and `ExecuteCreate` are Core and the
Engines, external. They may execute an Operation at any later time, and once
more if it is idempotent. What an Engine does is taken from the conformance
cases of put and extended to the other methods: a version that is named is
compared, `if_absent` needs nothing to be there, an update something. `entry` is
one Record and one cache entry, seen as the version they have; the Engine gives
no version twice, which the code takes for granted where it compares versions.
`named`, `effects` and `replaced` remember what the client wanted and what
happened; they are history variables.

In `ResourceActivation` a `create` has six steps. `LookUpTarget` is the second
lookup, outside the `try` block. `Prepare`, `ApplyRaises` and `ApplyReturns`
are the Adapter: external, modelled from how `create` uses it. It may raise at
any point, before or after it has changed the Engine, and may report a
fingerprint that is not the plan's. `physical` is what the Adapter did. `Manage`
is external as well: tools that move an active Collection on through
`replace_collection`, pinning the revision. That such tools leave a Collection
alone that is still PROVISIONING is an assumption of the model; the repository
does not enforce it (`replace_collection` stores what it is given), and
`ActivationOwnsItsCollection` says what `create` would lose without it.

`LiveBundle` has no state of its own: in every state of `ResourceActivation` it
projects the registry as `load_live` does, with the Schema versions there are and
each Collection, in whatever state it is, with the Schema it pins. The namespaces
that `load_live` declares, and the bootstrap bundle of `load`, which is a
constant, are left out; see section 6 for the one that is declared by nobody.

### 2.3 Schemas, Records and evolution: `Records`, `RecordValidation`, `SchemaEvolution`, `SchemaDocuments`, `RelationRecords`, `FieldValues`

A Schema is a record of fields, identity, profile, indexes and a few opaque
parts. A logical type and the constraints of a field are the sets of values they
admit; what these sets are for numbers, decimals, strings and arrays is in
`FieldValues`. `Records!Validated(doc, given)` is the declarative meaning of
`validate_record`: the (at most one) mapping in which what is given is given,
every default has its value among the final values, and everything fits.
`RecordValidation` has the code's loop instead: fields in sorted order, rounds
over the pending defaults, the three kinds of immutability, removal, the merge
of a patch.

`SchemaEvolution` classifies versions as `classify_compatibility` does, rule by
rule, publishes well-formed versions (a breaking one only with
`allow_breaking`), and keeps the Record that was written last together with the
version it was written under (`origin`) and the highest class since (`worst`).

`SchemaDocuments` says where those versions come from. A definition is a record
without the members that are left out. `ReadDocument` reads it with the defaults
of the code, `ReadProfile` the profile in its extensions, `WriteDocument` is
`to_dict` (with the fields as an array, which reading takes by another branch than
an object), and `Outcome` is what `SchemaAPI.publish` answers, in the order in
which the code finds out: a definition that cannot be read or that names another address
than the one it is published under (`address` stands for formatVersion, id and
version), an invalid shape, a
`KeyError` that nobody catches, a profile that cannot be built, a profile that
does not fit. The table `Roles` replaces eleven constructors and validators: it
lists the roles of each profile, how many fields play them, and of which kinds.
`DocSpec` publishes definitions instead of documents.

`RelationRecords` does the same for a relation: its profile, the
`allowedCollections` of its endpoint fields, which `validate_schema` compares
only where both are declared, and the Records written.

`FieldValues` goes through every small declaration: `validate_schema` judges it,
a value is validated under it, and what is stored is validated again after the
type was widened. `Tens` and `Twos` are the powers the code computes with; `Places`
belongs to the reference the code is compared with, which writes all decimals at
one power of ten.

### 2.4 `NeighborTraversal`, `TraversePlanning`, `SemanticVersions`, `LocalizedMessages`

`NeighborTraversal` makes one step per round of the loop, over any relation
graph, visibility, activity and Binding. Its reference is the set of walks of
bounded length. `TraversePlanning` has such a walk made while an Operation is
planned. The walk sees the registry of its snapshot (the inputs of
`NeighborTraversal`); `present` is the registry as it moves on. `Now` is an
instance of the walk on the present registry, so that a plan can be compared with
the one that would be made now. `SemanticVersions` scans the dictionary with `max()` one version
at a time, with the comparison operators that `total_ordering` derives from
`__lt__` and `__eq__`. `LocalizedMessages` builds a text from messages one
locale at a time, then tries the candidates of a requested locale and descends
through choices; a message is followed down one path, with the value of `#` that
is in force there. `Nodes` are the messages and everything nested in them, so
that "parsed" can be said of each node and messages may have any depth. A value is
its text and what `Decimal` reads in it (`Readings`): a number, in tenths, an
infinity, a NaN that is quiet or signaling, or nothing; a plural of anything but
a number raises (`Raises`). Its
initial predicate and next-state relation are called `TextInit` and `TextNext`,
those of `RelationRecords` `RelationInit` and `RelationNext`, those of
`FieldValues` `FieldInit` and `FieldNext`: their proofs share a module with those
of others.

## 3. The runs

Every run takes at most about a minute. `CHECK_DEADLOCK FALSE` stands where the
modelled system stops by itself: when calls or revisions are used up (registry,
threads, activation, clients), when a walk has ended (traversal), when a value
has been judged (fields) or a text rendered (messages).

| Run | Checks | Bounds |
|---|---|---|
| `registry` | `TypeOK`, `LatestIsUnique`, `EvolutionIsGuarded`, `PublishedForever`, `RevisionNamesState` | one Schema, four version strings two of which share a precedence, two bodies of which one direction breaks, one Collection, revisions to 5 |
| `threads` | `SnapshotIsOneRevision`, `PinnedChangeFollowsItsPin`, `AtomicSpec` (refinement), `CallsReturn` (liveness) | two threads, every operation, two calls each |
| `clients` | `PinnedUpdateFollowsCurrent`, `RepetitionIsIdempotent`, `SurfaceSpeaksTheContract`, `NoLostUpdate`, `RepeatsAreHarmless` | two clients with two calls each, three versions, a breaking and a malformed body; nine asks of the Catalogs (every put mode, null and 0 as versions, one call made by hand), two Operations that write (`MaxSent`), each executed twice at most (`MaxDeliveries`) |
| `activation` | `ActivationOwnsItsCollection`, `ActivatedIsApplied`, `LiveBundleIsClosed`, `StatesMoveOn`, `ProvisioningSettles` (liveness) | two callers with two tries each, two Collections, two versions |
| `activation_lookup` | `FailedCreateIsMarked`: violated, see section 6 | one caller |
| `traversal` | `StalenessShows`, `SelectsTheNeighborhood` | three Collections, two relations with one source and one or two targets, directed or not, at most one Collection hidden and one inactive, with and without Bindings, depths 0 to 3; five calls, planned or not; one change of the registry (`MaxMoves`) after the walk, where everything is visible |
| `records` | `StoredIsARecord`, `RoundsDecideValidity`, `ImmutableFieldsKeep`, `ValidationEnds` (liveness) | six Schemas of four fields whose defaults form chains, a cycle, string functions, null that is passed on, a filled identity; every input of present, null, removed, absent and ill-typed values |
| `evolution` | `MildStepsKeepTheRecord`, `MildStepsCompose`, `UnbrokenShape`, `ReadBackIsTheSame`, `RolesStayOpen` | definitions with an identity and two fields of ten (twelve beside each other) and four variants, fields as an object and as an array, integers and decimals that are widened, every profile with a change of it, one variant of every other part, all three Catalogs, definitions that are refused for each reason; chains of any length |
| `versions` | `PublishedAscend`, `LatestIsHighest`, `PrecedenceIsSemVer` | thirteen versions with numeric, textual and mixed prereleases and builds, in every order |
| `fields` | `StoredIsAcceptedAgain`, `DeclaredIsWhatDecides` | integers of 2 and 3 bits, decimals of up to 3 digits with exponents -2 to 1, short strings, arrays of up to two; every pair of constraints with bounds -1, 0, 1, null |
| `relation_records` | `TraversalFindsRecords` | three Collections, five profiles, every allowlist of the endpoint fields, chains of any length |
| `messages` | `ResolvesToNearest`, `PoundIsInnermost`, `SlavicFormsApply`, `FormatAnswers` (liveness) | five spellings of locales, texts of two messages, four messages with nested choices, every assignment of two arguments, an infinity, a NaN, a signaling NaN and a word among the values |

Why these bounds are enough. The registry compares at most a new version with
the latest, so a third and a fourth version reach every relation between new,
latest and deprecated; two strings of one precedence are the case a dictionary
of strings gets wrong. Two threads suffice for a lock without fairness among
more: each interleaving of a violation of atomicity has one operation and one
intruder. Two callers reach the race for one Collection and the independence of
two. Three Collections and two relations give walks that return, that reach a
Collection twice with different depths, and that end early; one change of the
registry is enough to make a plan stale, and the fingerprint counts revisions, so
further changes cannot make it fresh again. Two Operations executed twice give an
update of another client between the two executions of one. The calls on data
that a surface allows are not drawn from the nine asks: `SurfaceSpeaksTheContract`
goes through all of them. Classification looks
at two versions only, and state is `document`, `record`, `origin` and `worst`, so
the runs of `evolution` and `relation_records` cover chains of every length over
their versions. What TLC shows for these instances the theorems of section 5
show for all, where there is one.

The type invariant of the registry is checked and proved; `AtomicSpec` contains it
for the threads. Those of the other modules are conjuncts of inductive invariants
(section 5) or say no more than the definitions of their values, and no run is
spent on them.

### 3.1 What the properties say about each other's components

* `EvolutionIsGuarded` is stated for *adjacent* versions of the final order,
  although publication compares with the version that was latest then; it holds
  since deprecated versions count for the comparison and nothing is ever
  published below the latest.
* `MildStepsKeepTheRecord` relates the words of `compatibility.py` to what
  `validate_record` does: while no step asked for a proof, a transform or a
  waiver, a stored Record is still one of the latest version, provided the
  defaults that complete it are literals (see section 6 for the others).
* `MildStepsCompose` and `UnbrokenShape` are about chains: the classes of the
  steps bound the class of the whole. Conditional steps do not compose: a
  required field added with a default, and stripped of the default by the next
  version, was never breaking.
* `RoundsDecideValidity` equates the loop with the declarative meaning, so the
  order of fields, the order of the input and the number of rounds do not matter.
* `NoLostUpdate` and `RepeatsAreHarmless` join what a client says, what the
  surface makes of it, what the provider flags and what an Engine does much
  later. They depend on details far apart: that a version of 0 is a version, that
  the idempotent flag of a patch looks at the value and not at the key, that a
  null given by hand is nothing. What they leave out is said in section 6.
* `StalenessShows` is about the order of two lines: the resolver takes a snapshot,
  walks it, and hands the fingerprint of *that* snapshot to the Operation.
* `ReadBackIsTheSame` needs that what is left out of a definition and what is
  written for it are the same, a default that is the literal null included.
* `RolesStayOpen` joins the classification with `validate_schema`. A profile names
  fields of some kinds; a widened field still is of a kind its role admits,
  although no rule of either part mentions the other, and although the profile
  itself may have changed in a step that was not breaking.
* `LiveBundleIsClosed` joins the registry, which never forgets a Schema version,
  with a projection that declares a Collection in whatever state it is. A lookup
  hides a deprecated version unless it is asked for; the snapshot must not, or a
  Collection that pins one refers to nothing. That a later bundle contains an
  earlier one depends on whoever writes a Collection writing the Schema it had.
* `TraversalFindsRecords` joins two components that never call each other.
  It needs constrained endpoint fields: without `allowedCollections` the profile
  of a relation binds no Record.

## 4. Fairness

* `threads`: weak fairness of each thread's steps. A runnable thread is
  scheduled again; nobody is promised the lock ahead of others. With finitely
  many calls per thread this suffices for `CallsReturn`. The re-entrant lock is
  what it depends on: with a plain lock `create_collection` waits for itself.
* `activation`: weak fairness of each `create` that has begun. The Adapter's
  calls end somehow, which the code takes for granted (it has no timeout).
  Nobody has to publish, deprecate, manage or call `create`.
* `records`, `messages`: a call that has begun runs to its end; it is sequential
  code.
* The others have safety properties only. Core promises no Operation that it will
  be executed, and nothing in this package waits for one.

## 5. Proofs

All theorems hold for every value of the constants that satisfies the named
assumptions next to them. These say what the constants are, and TLC evaluates
each of them in a run:

* registry, clients, activation: `Rank` maps versions to numbers, `MaxRevision` is
  one and `AnyRevision` none (`RankAssumption`, `RevisionAssumption`, and
  `RegistryAssumption` where the registry is an instance); `Null` and `Absent` are
  no values, asks
  have the arguments of their methods;
* threads: what is called is typed as in the protocols (`CallsAssumption`), there
  are finitely many threads, none of them is `Nobody`, and the cap on revisions
  leaves room for every call (`CallBound`): the cap is no part of the code, and a
  thread that had passed the checks of the class could otherwise not write;
* Records and documents: the names of fields are finitely many and ordered, a
  default that takes an operand has one (`DocumentsAssumption`), `Publishable`
  definitions give documents;
* messages: what the parser of `i18n.py` guarantees of every node (`Parsed`), that
  a word such as "few" denotes no number, and that a locale is a language and
  subtags;
* field values: the bounds of the model, `MaxDigits` and `Places`, are large enough
  for the decimals it has (`DigitsAssumption`).

Apart from `CallBound` and `DigitsAssumption` nothing is said about sizes. That
there is a `Rank` is itself a theorem: `VersionsHaveRanks` finds one for every
finite set of parsed versions, so the number that `MetadataRepository` takes for
a version stands for what `SemanticVersions` computes from it.

| Theorem | Statement |
|---|---|
| `MetadataRepositoryProofs!TypeCorrect` | `Spec => []TypeOK` |
| `LatestIsUniqueAlways`, `EvolutionIsGuardedAlways` | the two invariants of the registry |
| `PublishedForeverAlways`, `RevisionNamesStateAlways` | its two action properties |
| `InMemoryRepositoryProofs!TypedAndLocked` | types, and mutual exclusion: who is between acquiring and releasing owns the lock |
| `SnapshotIsOneRevisionAlways`, `PinnedChangeFollowsItsPinAlways` | the two invariants of the threads |
| `ThreadsRefineRegistry` | the class under threads implements `MetadataRepository`: `Spec => AtomicSpec` |
| `RegistryUnderThreads` | the invariants and action properties of the registry, carried over to the threads |
| `ThreadsNeverDeadlock`, `CallsRunDown` | the lock is never held by a thread that waits; each step of a call brings it nearer to its return |
| `CatalogOperationsProofs!NoUpdateIsLost`, `RepeatsAreAlwaysHarmless` | Operations replace what their clients named, and take effect once, whoever else writes in between |
| `PinnedUpdateFollowsCurrentAlways`, `RepetitionIsIdempotentAlways` | an update that pins a revision lands on the version it names; repeated calls are replays |
| `SurfaceSpeaksTheContractAlways` | what a surface lets say, its provider admits and carries |
| `CatalogsDriveTheRegistry`, `RegistryUnderCatalogs` | Catalogs and clients together implement `MetadataRepository`: `CatalogSpec => Registry!Spec`, with all that is proved of it |
| `ResourceActivationProofs!ActivationOwnsItsCollectionAlways`, `ActivatedIsAppliedAlways`, `StatesMoveOnAlways` | who writes a Collection while it is created, what backs it afterwards, and which way its states go |
| `ActivationDrivesTheRegistry`, `RegistryUnderActivation` | the same for `create`, publishers and lifecycle tools |
| `SettlingNeverFails`, `CreateRunsDown` | a `create` on its way finds its Collection; each of its steps brings it nearer to its end |
| `LiveBundleIsAlwaysClosed` | the live bundle refers to nothing outside it and loses nothing |
| `TraversePlanningProofs!NothingLeftBehindAlways`, `StaysInSightAlways`, `ExhaustedAlways` | the walk is complete when its frontier is empty, visits visible and active Collections only, and selects visible relations that touch one of them |
| `SelectsTheNeighborhoodAlways` | it selects exactly the relations that touch what walks of the given length reach |
| `BindingDecidesAlways` | it is resolved iff what it visited and selected has one Binding, or none is asked for |
| `StalenessAlwaysShows` | a plan whose fingerprint is the present one is the plan that would be made now |
| `RecordsProofs!RoundsDecideValidityAlways` | the rounds over the defaults return the one Record there is, or there is none |
| `StoredIsARecordAlways`, `ImmutableFieldsKeepAlways` | what any sequence of patches leaves is a Record, with its immutable fields |
| `ValidationRunsDown` | every step of `validate_record` comes nearer to its end, whatever the defaults depend on |
| `TraversalFindsRecordsAlways` | traversal covers constrained Records |
| `SchemaEvolutionProofs!TypeCorrect`, `UnbrokenShapeAlways`, `MildStepsKeepTheRecordAlways` | what the classes of steps promise of chains |
| `MildStepsComposeAlways` | a chain of mild steps is a mild step |
| `DocumentsEvolve` | publishing definitions (`DocSpec`) implements evolution (`Spec`), which carries the theorems above over |
| `RolesStayOpenAlways`, `ReadBackIsTheSameAlways` | the two properties of documents |
| `ValuesProofs!PrecedenceIsTotal`, `PrecedenceIsTransitive` | the order of versions, over prereleases of any length |
| `VersionsHaveRanks` | that order as numbers, for every finite set of versions |
| `PublishedAscendAlways`, `LatestIsHighestAlways` | what publication makes of that order |
| `PrecedenceIsSemVerAlways` | it is the order of the list in section 11 of SemVer 2.0, whatever else is published |
| `ResolvesToNearestAlways`, `PoundIsInnermostAlways`, `SlavicFormsApplyAlways` | the three invariants of texts, for locales of any length and choices nested to any depth |
| `FormatFailsOnItsInputOnly` | `format` ends in a text, or fails on a missing argument or a plural of no finite number, never for want of a message |
| `StoredIsAcceptedAgainAlways`, `DeclaredIsWhatDecidesAlways` | the two invariants of field values, for every type, declaration and value |

`RecordsProofs` and `ValuesProofs` have parts about modules that share nothing:
what becomes of Records and of relations between them; versions, texts and the
values of fields. The parts use no more of each other than an induction over the
naturals.

The arguments:

* **Registry.** `LatestIsUnique` and `EvolutionIsGuarded` are not inductive by
  themselves. `NotAboveLatest` and `BreaksLatest` refuse something only if there
  *is* a latest version, and over an infinite set of version strings a maximum
  need not exist. The strengthening `LatestExists` says that a Schema with a
  version has a latest one. With it a new publication lies above all others
  (lemma `PublishedIsAbove`), hence is adjacent only to the former latest, which
  is the one it was compared with. `IInv` is the conjunction.
* **Threads.** Mutual exclusion is `Locked`. The heart is `Knows`: what the owner of
  the lock has found out about the registry (the outcome it decided on, the pin it
  compared, the part of a snapshot it copied) stays true until it gives the lock
  back, because nobody but the owner writes (`OnlyTheOwnerWrites`). `Recorded` and
  `Taken` tie revision and snapshots to the history: entry n + 1 is the registry
  of revision n. The write is where an operation takes effect: the owner's
  knowledge is the guard of the atomic action at that moment (`WriteRefines`), and
  all other steps stutter (`OtherStepsStutter`); the increment does, since at most
  one thread is counting (`AtMostOneCounts`). That the cap on revisions never
  stops a write needs `Bounded`: a revision for each call that has ended, at most.
  `RegistryUnderThreads` instantiates the proofs of the registry under the
  refinement mapping.
* **Who drives the registry.** `MetadataRepository` is proved on its own, with every
  operation at any time. Its users restrict it: that each of their steps is one of
  its operations or a stutter is proved action by action, for the threads, for the
  Catalogs with the clients of `SchemaAPI`, and for activation. That takes
  the invariants: a thread writes on what it knows, and a `create` that settles
  writes a document without asking whether there is one, which the ownership below
  answers. The invariants and action properties of
  the registry are then carried over by instantiating its proofs.
* **Activation.** A create owns its Collection: callers on their way have
  different Collections, each PROVISIONING and pinning what was asked for. That
  is inductive because `create_collection` refuses a reference that exists and
  lifecycle tools touch activated Collections only. Together with `Applied` (a
  caller about to activate has an Adapter that applied its plan) it gives
  `ActivatedIsApplied`: an Adapter call changes nothing for any other Collection,
  and its own is not yet ACTIVE. `StatesMoveOn` follows from the ownership: a late
  create writes over PROVISIONING and nothing else.
* **Live bundle.** To the invariant above `Pinned` adds that every Collection pins
  a Schema version that is known. A known version stays known (`SchemasGrow`),
  and whoever writes a document writes the Schema it had (`SchemasKept`): that no
  Collection leaves the bundle or changes its Schema is proved action by action.
* **Catalogs.** What a client named reaches the Engine unchanged: surface and
  provider carry it (`ExpressCarries`, `InputCarries`, `PlannedIsSound`), which
  goes through the methods one by one since each has arguments of its own. An
  Operation that took effect leaves a trace, after which it cannot take effect
  again: the version it published stays known, the Collection it created stays,
  and the version it replaced is gone and never given again. `CInv` says this of
  every Operation sent, together with what the clients of `SchemaAPI` hold in
  their hands (`CallsKept`), for they change the same registry.
* **Clients of `SchemaAPI`.** What was achieved stays so: a version published with a
  body keeps it, a version deprecated stays deprecated (`Lasting`), and a client
  that was answered has achieved what it called (`Achieved`); its repetition then
  meets just that. For updates `PinIsPast` says that a pin is a revision there has
  been, and `Relies` that, as long as it is the present one, the version that was
  read is the latest.
* **Surfaces.** `SurfaceSpeaksTheContract` compares two tables method by method:
  each parameter of a surface is an argument its provider admits, each required
  argument a parameter, and what is typed by the one is admitted by the other.
* **Traversal.** `NothingLeftBehind` (what was passed is closed under hops) is
  inductive together with the frontier being part of what was visited. That the
  selection is exact compares rounds with walks: `Exact` says that after a round
  what was visited is what walks of that length reach. Walks of length n + 1
  are walks of length n and a hop (`WithinNext`); a frontier that is empty means
  that longer walks reach nothing more (`ClosedSetsHoldWalks`, over the least
  step at which a walk would leave). What was visited is then what walks of
  maxDepth hops reach (`EndedIsExact`), which is what the Bindings are compared on.
* **Planning.** The walk sees the registry of its snapshot, so its result is a
  function of what the fingerprint stands for; if the fingerprint is still the
  present one, so is everything the walk looked at.
* **Evolution.** The highest class bounds every change (`HighestBounds`,
  `ClassifyBounds`), so a class below a bound says which changes a step cannot
  have made (`UnbrokenStep`, `MildField`). For the Record the induction carries
  that it is a function into the values. What is missing from it is always
  completed by the same literals: defaults may not change in a mild step. That
  mild steps compose is not proved rule by rule along the chain: `MildStep` shows
  that a step is classified data-change or milder exactly when the later Schema
  `MildlyExtends` the earlier one (a relation of two Schemas in which no class
  occurs), and that relation is reflexive and transitive
  (`MildExtensionsCompose`).
* **Records.** The invariant follows the loop. What is filled so far is partly the
  Record (`PartlyFilled`): each default among it has been evaluated, in some order,
  from what had been filled before. By that order every Record that completes what
  was given agrees with it (`Forced`), which makes the Record unique and the order
  of the fields irrelevant. A default that cannot be evaluated or does not fit
  therefore refuses every completion. When a round makes no progress, each default
  left refers to a field left; a completion would order them, and the least of
  them refers to none (`StuckIsUnordered`). For patches `MergedKeeps` says that the
  merged Record has the immutable fields of the stored one, since those a patch
  names were compared and none was removed.
* **Documents.** A step of `DocNext` publishes a document that is publishable,
  hence in `Documents`: with that `DocSpec` implements `Spec`. For the roles the
  invariant `KindsKept` says that the kind of each field of `origin` is the kind
  it has now or an integer that was widened; the roles that take one integer take
  all (`RolesTakeIntegers`). Reading back goes member by member, with a lemma for
  a field and its default (`FieldReadsBack`).
* **Versions.** Two prereleases differ at a first position (`FirstDifference`, by
  well-foundedness of the naturals) or one is a prefix of the other; totality and
  transitivity follow by cases on the positions. The scan keeps a maximum because
  of totality, and `Decide` preserves ascent because of transitivity. The rank of a
  version in a finite set is how many of the set come before it. For the list of
  SemVer 2.0, `ShortPrereleases` says how prereleases of up to two identifiers
  compare; of two versions the later in the list is then never less
  (`LaterVersionIsNotLess`), so what ascends follows the list.
* **Texts.** Normalizing a locale keeps its subtags apart, so the candidates of a
  locale are its parents from the longest on (`CandidatesAre`); `TriedInVain` says
  that those passed have no message. `ChoicesFollow` and `InnermostShows` are the
  path: each choice taken was nested in the one before, and `#` is the number of
  the last plural on it. The Slavic forms are arithmetic on the last two digits
  (`SlavicCategoryIsTheForm`), and a word is chosen where no selector is exact.
* **Field values.** `FieldInv`: what came back for a value is what would come back
  for it now. Widening keeps this since a type that is wider takes more values
  (`WiderTypesTake`), for which powers of two ascend. Comparing a decimal with a
  bound at a power of ten of its own changes nothing (`DecimalsCompare`): that needs
  10^(m + n) = 10^m * 10^n. Powers are recursive functions; that they exist and
  obey these laws is proved by induction in the form "a set of naturals with 0 that
  is closed under + 1 holds all of them" (`SetInduction`), which needs no operator
  as a parameter. An array has different items iff there are as many items as its
  length says (`UniqueMeansDifferent`).
* **Relations.** `ProfileKept`: the Record is admitted by the version it was written
  under, and the profile is that version's until a breaking change.

* **Nothing goes on for ever.** The four liveness properties say that what has begun
  comes to its end. Fairness and `ENABLED` are beyond the prover; the rest of
  each argument is not, and is proved. For threads, `create` and `validate_record`
  it is a measure: each step of the actor makes it less, and nobody else's step
  touches it. The places of a call and of a `create` are numbered. The loop over the
  defaults is lexicographic: stages, then rounds (a round that makes no progress is
  the last, a round that makes some leaves fewer defaults), then what the round has
  still to visit, which is finite. For threads `NoDeadlock` adds that one of those in
  a call can always go on, since the owner of the lock never waits for it. For
  `format`, `AnswerInv` keeps the default locale among the candidates until it is
  tried, so the `AssertionError` at `i18n.py:244` is out of reach, and says that a
  call that raised stopped at the choice whose argument raises so.

Model-checked only:

* liveness itself (`CallsReturn`, `ProvisioningSettles`, `ValidationEnds`,
  `FormatAnswers`): that a step which can always be taken is taken in the end;
* `FailedCreateIsMarked`, which is violated (section 6). `SettlingNeverFails` is what
  holds in its place: a `create` that gets as far as settling its Collection does.

## 6. Where code and documents disagree

Shown by a run:

* `activation_lookup` (`publication.py:560`). `create` looks the Schema up a
  second time after it has registered the Collection and before its `try` block.
  When the Schema was deprecated in between, `create` ends with
  `ResourceNotFound`, the Collection stays PROVISIONING, and since it exists no
  later `create` can succeed. `tests/integration/test_publication.py:184-187`
  expects a Collection whose create failed to be PROVISIONING_FAILED. This is
  also why `ProvisioningSettles` excepts a deprecated Schema.

Seen while modelling; the models show the behaviour, no run is spent on it:

* `SchemaAPI.update` compares `current_version` with what is latest *now*, so an
  exact repetition of an update that was applied ends in
  `RegistryRevisionConflict` (`publication.py:512`); `docs/contracts.md:26-28`
  says exact retries are idempotent. `RepetitionIsIdempotent` is about publish
  and deprecate therefore.
* `ActivationFailed` is retryable (`errors.py:113`), and a retry of `create`
  meets the Collection of the failed one: `ResourceAlreadyExists`
  (`publication.py:333`).
* An added field with any default is classified backward-compatible
  (`compatibility.py:98`, `docs/compatibility.md:15-16`). A default that names a
  nullable field cannot be evaluated for a stored Record without that field:
  validating the Record, or a patch of it, fails from then on. Defaults that are
  computed from literals are not evaluated by `validate_schema` either.
  `MildStepsKeepTheRecord` is about literal defaults therefore.
* A decimal with a positive exponent is measured by its coefficient and stored
  with its zeros: `1E+6` fits a precision of 3 when written and not when it is
  validated again (`validation.py:655`; `StoredIsAcceptedAgain` excepts it).
* The string functions of defaults raise a plain `ValueError` on what is no
  string (`schemas.py:201`), and a null `minLength` beside a `maxLength` a
  `TypeError` (`validation.py:303`); `docs/contracts.md:88` promises typed errors.
* Constraints of scalars are accepted for a field of cardinality many and applied
  to none of its items (`validation.py:815`).
* The allowlist of a relation profile binds Records only through
  `allowedCollections` of the endpoint fields (`validation.py:543`;
  `docs/contracts.md:69-70`).
* A profile without one of its required keys raises a plain `KeyError`
  (`profiles.py:401`), which `SchemaAPI.publish` does not turn into a typed error
  as it does with `ValueError` (`publication.py:436`): `docs/contracts.md:88`
  again. `Outcome` names it.
* An immutable field is compared with Python's equality (`validation.py:172`), by
  which 1, 1.0 and true are the same: a field of kind json may be patched from one
  to the other. The classification compares defaults the same way
  (`compatibility.py:213`), so that documents with different fingerprints may be
  "identical". So may documents that differ in `compatibility`, which nothing
  compares; and a profile whose defaults are spelled out has another fingerprint
  than one that leaves them out, since extensions are kept as they were given.
* A Schema of semantic kind artifact may declare a profile that says `"profile":
  "object"`: its kind is then object, and it needs no lineage policy
  (`profiles.py:338`, `validation.py:558`).
* put is declared idempotent always (`catalogs.py:48`). A put of mode update or
  upsert without a version that is repeated late overwrites what was written
  meanwhile, and one of mode if_absent brings back what was deleted.
  `RepeatsAreHarmless` excepts them.
* `compare_and_set` with a version of null can be planned by hand
  (`catalogs.py:694`): it is then not idempotent and compares nothing.
* The namespace `meridian` is left out of the live bundle for every Catalog
  (`publication.py:708`), and the bootstrap bundle declares it for structured and
  cache (`publication.py:679-680`). `validate_schema` and `publish_schema` accept
  an `object:meridian.x`, which then lies in a namespace neither bundle declares.
* A plural whose argument is an infinity ends `format` with a plain
  `OverflowError`, a NaN with the `ValueError` of `int`, and a signaling NaN with
  an `ArithmeticError` of `decimal` (`i18n.py:297`, `i18n.py:303`): only what
  `Decimal` refuses is turned into the `ValueError` of `i18n.py:294`, and none of
  them is typed (`docs/contracts.md:88`). `FormatAnswers` says which value ends a
  call in which way.
* The surface raises a plain `ValueError` when a traverse names relations and asks
  for all neighbors, or neither (`catalogs.py:270`), the provider
  `InvalidDefinition` for the same (`catalogs.py:602`).
* `=1.0` is a valid exact selector and can never be chosen (`i18n.py:287`); the
  form of a plural with an offset is that of the number before the offset is
  subtracted (`i18n.py:288`), unlike in ICU.

## 7. What is not modelled

* **Text**: canonical JSON and its digests (a fingerprint is a value that differs
  when the document differs), Unicode normalization, the syntax of names, locales,
  messages and single scalar formats, the portable subset of patterns, wording of
  errors and of changes. TLA+ has no means to compute with them that would not
  be a copy of the code.
* **`mediaTypes`**: validated when they are declared and applied to nothing.
* **Record, ObjectMetadata, CacheEntry**: values that are checked when they are
  built and change nothing. `CollectionDocument` and `RecordReference` are values
  of the models.
* **Adapters, Engines and Core**: external, as the code uses them or as its
  conformance cases describe them.
* **Nested default expressions**: an operand is a value or a field; the code lets
  it be an expression, which needs the fields it names all the same.
* **Namespaces of bundles** and the bootstrap bundle: names and a constant.
* **Very long numbers**: a decimal of more digits than its context rounds when it
  is normalized, and `str` refuses very long integers.
* **Members of profiles that name no field** and agree with nothing (analyzer,
  precision, retention and the like): one opaque value, compared as a whole.
* **Package exports, contract files, scripts**: no state and no operation.

## 8. Plan

Done: the registry and its threads, its clients and the Catalogs, activation and
the live bundle, Records, documents and their evolution, traversal and its
planning, field values, relations, versions, messages; theorems for every
invariant and action property that holds, for the refinements, and for the safety
half of each liveness property.

Left:

1. `RecordValidation` with the types of `FieldValues` in place of sets of values,
   so that validating a Record again after a type was widened is one statement;
2. `LiveBundle` beside the Catalogs: it is taken while Collections are activated
   and Schemas published, not while Operations are executed late and again.

## 9. Running it

`tlc -workers 2 -config MCMetadataRepository.cfg MCMetadataRepository.tla` checks
one run; `PROJECT.json` names module, configuration and properties of each.
`tlapm MetadataRepositoryProofs.tla` checks the proofs of one module.
