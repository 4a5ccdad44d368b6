------------------------- MODULE ResourceActivation -------------------------
(***************************************************************************)
(* ResourceAPI.create (publication.py 545-582): several callers register   *)
(* Collections and have an Adapter activate them, while others publish and *)
(* deprecate Schemas and while active Collections are managed.             *)
(*                                                                         *)
(* The calls on the repository are atomic (MetadataRepository, and         *)
(* InMemoryRepository implements it); between two calls of one create      *)
(* anything may happen.  A call of the Adapter ends in one of the ways the *)
(* code tells apart.                                                       *)
(***************************************************************************)
EXTENDS Integers

CONSTANTS
  SchemaIds, Versions, Rank, Bodies, Breaking, Resources,
  Absent, AnyRevision, MaxRevision,         \* as in MetadataRepository
  Callers,     \* threads or processes that call create
  MaxTries,    \* bound: calls of create per caller
  ManageBound  \* bound: Collections are managed at revisions below it

VARIABLES
  schemas, resources, revision, waived,     \* as in MetadataRepository
  pc,         \* where each caller is in create
  request,    \* the Collection it creates: its reference and pinned Schema
  answer,     \* how its last create ended
  tries,      \* how often it has called create
  physical    \* external: the Schema the Adapter has activated per Collection

registryVars == <<schemas, resources, revision, waived>>
vars == <<registryVars, pc, request, answer, tries, physical>>

Registry == INSTANCE MetadataRepository

ASSUME DocumentAssumption == Absent \notin Registry!Collection
ASSUME RegistryAssumption ==
  /\ Rank \in [Versions -> Nat] /\ Breaking \subseteq Bodies \X Bodies
  /\ MaxRevision \in Nat /\ AnyRevision \notin Nat

Init ==
  /\ Registry!Init
  /\ pc       = [c \in Callers |-> "idle"]
  /\ request  = [c \in Callers |-> Absent]
  /\ answer   = [c \in Callers |-> "none"]
  /\ tries    = [c \in Callers |-> 0]
  /\ physical = [r \in Resources |-> Absent]

-----------------------------------------------------------------------------
(* ResourceAPI.create *)

Goto(c, from, to) == pc[c] = from /\ pc' = [pc EXCEPT ![c] = to]

Return(c, from, outcome) ==
  /\ Goto(c, from, "idle")
  /\ answer' = [answer EXCEPT ![c] = outcome]

\* create_collection: the Collection is registered, or an exception ends create.
Register(c, r, schema, expected) ==
  LET outcome == Registry!CreateOutcome(r, schema, expected)
  IN  /\ pc[c] = "idle" /\ tries[c] < MaxTries
      /\ tries'   = [tries EXCEPT ![c] = @ + 1]
      /\ request' = [request EXCEPT ![c] = [ref |-> r, schema |-> schema]]
      /\ UNCHANGED physical
      /\ \/ /\ Registry!CreateCollection(r, schema, expected)
            /\ Goto(c, "idle", "registered")
            /\ answer' = [answer EXCEPT ![c] = "none"]
         \/ /\ outcome # "created"
            /\ Return(c, "idle", outcome)
            /\ UNCHANGED registryVars

\* get_schema, a second time and before the try block: a Schema deprecated since
\* ends the call with ResourceNotFound (named apart here from the ResourceNotFound
\* of create_collection) and leaves the Collection as it is.
LookUpTarget(c) ==
  LET schema == request[c].schema
  IN  /\ pc[c] = "registered"
      /\ IF Registry!Readable(schema[1], schema[2], FALSE)
           THEN Goto(c, "registered", "preparing") /\ UNCHANGED answer
           ELSE Return(c, "registered", "TargetNotFound")
      /\ UNCHANGED <<registryVars, request, tries, physical>>

\* validate_definition and plan_activation return, or one of them raises.
Prepare(c) ==
  /\ Goto(c, "preparing", "applying") \/ Goto(c, "preparing", "failing")
  /\ UNCHANGED <<registryVars, request, answer, tries, physical>>

\* apply_activation raises, before or after it has changed the Engine.
ApplyRaises(c) ==
  /\ Goto(c, "applying", "failing")
  /\ \/ UNCHANGED physical
     \/ physical' = [physical EXCEPT ![request[c].ref] = request[c].schema]
  /\ UNCHANGED <<registryVars, request, answer, tries>>

\* Mutant: the fingerprints are not compared.
ApplyReturnsUnread(c, matches) ==
  /\ Goto(c, "applying", "activating")
  /\ physical' = IF matches
                   THEN [physical EXCEPT ![request[c].ref] = request[c].schema]
                   ELSE physical
  /\ UNCHANGED <<registryVars, request, answer, tries>>

\* It returns the result of a plan.  An Adapter that reports the fingerprint of
\* this plan has applied it; of another one, it has not.
ApplyReturns(c, matches) ==
  /\ Goto(c, "applying", IF matches THEN "activating" ELSE "failing")
  /\ physical' = IF matches
                   THEN [physical EXCEPT ![request[c].ref] = request[c].schema]
                   ELSE physical
  /\ UNCHANGED <<registryVars, request, answer, tries>>

Marked(c, state) == [schema |-> request[c].schema, state |-> state]

\* replace_collection without a pinned revision, on success and on failure.
Settle(c, from, state, outcome) ==
  /\ Registry!ReplaceCollection(request[c].ref, Marked(c, state), AnyRevision)
  /\ Return(c, from, outcome)
  /\ UNCHANGED <<request, tries, physical>>

\* Mutant: the handler reports the failure and does not record it.
FailUnmarked(c) ==
  /\ Return(c, "failing", "ActivationFailed")
  /\ UNCHANGED <<registryVars, request, tries, physical>>

Activate(c) == pc[c] = "activating" /\ Settle(c, "activating", "ACTIVE", "activated")
Fail(c)     == pc[c] = "failing" /\ Settle(c, "failing", "PROVISIONING_FAILED", "ActivationFailed")

-----------------------------------------------------------------------------
(* The others *)

Publish(id, v, body) ==
  /\ Registry!PublishSchema(id, v, body, AnyRevision, FALSE)
  /\ UNCHANGED <<pc, request, answer, tries, physical>>

Deprecate(id, v) ==
  /\ Registry!DeprecateSchema(id, v, AnyRevision)
  /\ UNCHANGED <<pc, request, answer, tries, physical>>

\* External: lifecycle tools move a Collection on once it has been activated,
\* through replace_collection and pinning the revision they have seen.
Managed == {<<"ACTIVE", "MIGRATING">>, <<"MIGRATING", "ACTIVE">>, <<"ACTIVE", "DEPRECATED">>}

Manage(r, state) ==
  /\ revision < ManageBound
  /\ resources[r] # Absent /\ <<resources[r].state, state>> \in Managed
  /\ Registry!ReplaceCollection(r, [resources[r] EXCEPT !.state = state], revision)
  /\ UNCHANGED <<pc, request, answer, tries, physical>>

-----------------------------------------------------------------------------
Create(c) ==
  \/ LookUpTarget(c) \/ Prepare(c)
  \/ ApplyRaises(c) \/ \E matches \in BOOLEAN : ApplyReturns(c, matches)
  \/ Activate(c) \/ Fail(c)

Next ==
  \/ \E c \in Callers :
       \/ \E r \in Resources, schema \in Registry!SchemaRefs,
             expected \in {AnyRevision} \cup 0..revision :
            Register(c, r, schema, expected)
       \/ Create(c)
  \/ \E id \in SchemaIds, v \in Versions, body \in Bodies : Publish(id, v, body)
  \/ \E id \in SchemaIds, v \in Versions : Deprecate(id, v)
  \/ \E r \in Resources, state \in Registry!CollectionStates : Manage(r, state)

\* A create that has begun runs on, and a call of the Adapter ends somehow.
\* Nobody has to call create, publish, deprecate or manage.
Fairness == \A c \in Callers : WF_vars(Create(c))

Spec == Init /\ [][Next]_vars /\ Fairness

-----------------------------------------------------------------------------
State(r) == IF resources[r] = Absent THEN "none" ELSE resources[r].state

(* The create that is under way for a Collection is the only one, and nobody *)
(* else changes the Collection meanwhile: it is PROVISIONING and pins the    *)
(* Schema the Adapter was asked for.  The two replace_collection calls pin   *)
(* no revision and overwrite what they find; this is why they may.           *)
ActivationOwnsItsCollection ==
  /\ \A c \in Callers : pc[c] # "idle" =>
       resources[request[c].ref] = Marked(c, "PROVISIONING")
  /\ \A c, d \in Callers : pc[c] # "idle" /\ pc[d] # "idle" /\ c # d =>
       request[c].ref # request[d].ref

(* A Collection that is or was ACTIVE is backed by the Schema it pins: the   *)
(* Adapter has applied the very plan made for it.                            *)
ActivatedIsApplied ==
  \A r \in Resources : State(r) \in {"ACTIVE", "MIGRATING", "DEPRECATED"} =>
    physical[r] = resources[r].schema

(* The states of a Collection are passed through in one direction: a failed  *)
(* activation is never taken up again and a Collection that was managed      *)
(* further is never set back by a create that ends late.                     *)
StateMoves ==
  {<<"none", "PROVISIONING">>, <<"PROVISIONING", "ACTIVE">>,
   <<"PROVISIONING", "PROVISIONING_FAILED">>} \cup Managed

StatesMoveOn ==
  [][\A r \in Resources : State(r)' # State(r) => <<State(r), State(r)'>> \in StateMoves]_vars

(* A create whose Schema is not deprecated meanwhile settles its Collection: *)
(* PROVISIONING is left for ACTIVE or PROVISIONING_FAILED, whatever the      *)
(* Adapter does.                                                             *)
ProvisioningSettles ==
  \A r \in Resources :
    State(r) = "PROVISIONING" ~>
      \/ State(r) # "PROVISIONING"
      \/ LET schema == resources[r].schema
         IN  schemas[schema[1]][schema[2]].status = "DEPRECATED"

(* A create that answers with an exception after it has registered the       *)
(* Collection leaves it PROVISIONING_FAILED, as the test of a failing        *)
(* activation asserts (tests/integration/test_publication.py:187).           *)
FailedCreateIsMarked ==
  \A c \in Callers : pc[c] = "idle" /\ answer[c] \in {"ActivationFailed", "TargetNotFound"} =>
    State(request[c].ref) = "PROVISIONING_FAILED"
=============================================================================
