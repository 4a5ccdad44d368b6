---------------------------- MODULE SchemaClients ----------------------------
(***************************************************************************)
(* SchemaAPI (publication.py 406-542): clients publish, update, deprecate  *)
(* and read the versions of Schemas through one repository.  A client may  *)
(* repeat a call that succeeded, exactly as it was, as one does whose      *)
(* answer was lost.                                                        *)
(*                                                                         *)
(* publish, deprecate and read are one call of the repository each.        *)
(* update is two: it reads the latest version, compares it with the        *)
(* current_version its caller named, and then publishes.                   *)
(***************************************************************************)
EXTENDS Integers

CONSTANTS
  SchemaIds, Versions, Rank, Bodies, Breaking, Resources,
  Absent, AnyRevision, MaxRevision,       \* as in MetadataRepository
  Malformed,    \* bodies that SchemaDocument or validate_schema refuses
  Clients,
  Calls,        \* the calls clients make, without their expected_revision
  MaxCalls      \* bound: calls per client

ASSUME MalformedAssumption == Malformed \subseteq Bodies
ASSUME RegistryAssumption ==
  Rank \in [Versions -> Nat] /\ Breaking \subseteq Bodies \X Bodies /\ MaxRevision \in Nat

ASSUME CallsAssumption ==
  Calls \subseteq
    [op : {"publish"}, id : SchemaIds, version : Versions, body : Bodies, allowBreaking : BOOLEAN]
    \cup [op : {"update"}, id : SchemaIds, current : Versions, version : Versions, body : Bodies,
          allowBreaking : BOOLEAN]
    \cup [op : {"deprecate"}, id : SchemaIds, version : Versions]
    \cup [op : {"read"}, id : SchemaIds, version : Versions \cup {Absent},
          includeDeprecated : BOOLEAN, pin : Bodies \cup {Absent}]

VARIABLES
  schemas, resources, revision, waived,   \* as in MetadataRepository
  pc,        \* "idle", or "publishing": inside update, after its read
  call,      \* the last call of each client
  outcome,   \* how it ended
  retried,   \* it is the exact repetition of a call that succeeded
  recalled,  \* the <<id, version, body>> a client was ever given
  rebased,   \* history: <<current_version, pinned?, version below>> per update
  made       \* calls made so far

registryVars == <<schemas, resources, revision, waived>>
vars == <<registryVars, pc, call, outcome, retried, recalled, rebased, made>>

Registry == INSTANCE MetadataRepository

Init ==
  /\ Registry!Init
  /\ pc       = [c \in Clients |-> "idle"]
  /\ call     = [c \in Clients |-> Absent]
  /\ outcome  = [c \in Clients |-> "none"]
  /\ retried  = [c \in Clients |-> FALSE]
  /\ recalled = [c \in Clients |-> {}]
  /\ rebased  = {}
  /\ made     = [c \in Clients |-> 0]

-----------------------------------------------------------------------------
\* A call pins no revision or the present one; stale pins come by repetition.
AtRevision(request, expected) ==
  [field \in DOMAIN request \cup {"expected"} |->
     IF field = "expected" THEN expected ELSE request[field]]

Pinning(op) ==
  {AtRevision(request, expected) :
     request \in {r \in Calls : r.op = op}, expected \in {AnyRevision, revision}}

\* A read may name the fingerprint, here the body, of a version the client was
\* given.
Reads(c) ==
  {r \in Calls : r.op = "read"}
  \cup {[op |-> "read", id |-> known[1], version |-> known[2],
         includeDeprecated |-> TRUE, pin |-> known[3]] : known \in recalled[c]}

Succeeded == {"published", "deprecated", "idempotent", "found"}

Starting(c, request) ==
  /\ pc[c] = "idle" /\ made[c] < MaxCalls
  /\ made'    = [made EXCEPT ![c] = @ + 1]
  /\ call'    = [call EXCEPT ![c] = request]
  /\ retried' = [retried EXCEPT ![c] = request = call[c] /\ outcome[c] \in Succeeded]

Answering(c, result) ==
  /\ pc' = [pc EXCEPT ![c] = "idle"]
  /\ outcome' = [outcome EXCEPT ![c] = result]

Recall(c, id, v, body) == recalled' = [recalled EXCEPT ![c] = @ \cup {<<id, v, body>>}]

-----------------------------------------------------------------------------
\* SchemaAPI.publish: the document is built and validated first.
PublishResult(request) ==
  IF request.body \in Malformed
    THEN "InvalidDefinition"
    ELSE Registry!PublishOutcome(request.id, request.version, request.body,
                                 request.expected, request.allowBreaking)

PublishThrough(c, request) ==
  LET result == PublishResult(request)
  IN  /\ Answering(c, result)
      /\ IF result = "published"
           THEN Registry!PublishSchema(request.id, request.version, request.body,
                                       request.expected, request.allowBreaking)
           ELSE UNCHANGED registryVars
      /\ IF result \in Succeeded
           THEN Recall(c, request.id, request.version, request.body)
           ELSE UNCHANGED recalled

Publish(c, request) ==
  /\ Starting(c, request)
  /\ PublishThrough(c, request)
  /\ UNCHANGED rebased

Deprecate(c, request) ==
  LET result == Registry!DeprecateOutcome(request.id, request.version, request.expected)
  IN  /\ Starting(c, request)
      /\ Answering(c, result)
      /\ IF result = "deprecated"
           THEN Registry!DeprecateSchema(request.id, request.version, request.expected)
           ELSE UNCHANGED registryVars
      /\ UNCHANGED <<recalled, rebased>>

CurrentIs(id, current) ==
  \A v \in Versions : Registry!IsLatest(id, TRUE, v) => v = current

\* The first half of update: read, include_deprecated=True, and compare.
UpdateReads(c, request) ==
  LET result == IF Registry!KnownVersions(request.id, TRUE) = {}  THEN "ResourceNotFound"
                ELSE IF ~CurrentIs(request.id, request.current)   THEN "RegistryRevisionConflict"
                                                                  ELSE "current"
  IN  /\ Starting(c, request)
      /\ IF result = "current"
           THEN /\ pc' = [pc EXCEPT ![c] = "publishing"]
                /\ outcome' = [outcome EXCEPT ![c] = "none"]
           ELSE Answering(c, result)
      /\ UNCHANGED <<registryVars, recalled, rebased>>

\* The second half publishes, whatever happened in between.
UpdatePublishes(c) ==
  LET request == call[c]
      below   == {v \in Versions : Registry!IsLatest(request.id, TRUE, v)}
  IN  /\ pc[c] = "publishing"
      /\ PublishThrough(c, request)
      /\ rebased' = IF outcome'[c] = "published"
                      THEN rebased \cup
                             {[current |-> request.current, below |-> v,
                               pinned |-> request.expected # AnyRevision] : v \in below}
                      ELSE rebased
      /\ UNCHANGED <<call, retried, made>>

\* With no version named, the latest one that counts.
Found(request) ==
  {v \in Versions : IF request.version = Absent
                      THEN Registry!IsLatest(request.id, request.includeDeprecated, v)
                      ELSE /\ v = request.version
                           /\ Registry!Readable(request.id, v, request.includeDeprecated)}

ReadResult(request) ==
  IF request.pin # Absent /\ request.version = Absent  THEN "ValueError"
  ELSE IF Found(request) = {}                          THEN "ResourceNotFound"
  ELSE IF \E v \in Found(request) :
            request.pin \notin {Absent, schemas[request.id][v].body}
                                                       THEN "IncompatibleSchema"
                                                       ELSE "found"

Read(c, request) ==
  LET result == ReadResult(request)
  IN  /\ Starting(c, request)
      /\ Answering(c, result)
      /\ IF result = "found"
           THEN \E v \in Found(request) :
                  Recall(c, request.id, v, schemas[request.id][v].body)
           ELSE UNCHANGED recalled
      /\ UNCHANGED <<registryVars, rebased>>

\* The same call once more, pin included.
Repeat(c) ==
  /\ pc[c] = "idle" /\ outcome[c] \in Succeeded
  /\ CASE call[c].op = "publish"   -> Publish(c, call[c])
       [] call[c].op = "deprecate" -> Deprecate(c, call[c])
       [] call[c].op = "update"    -> UpdateReads(c, call[c])
       [] call[c].op = "read"      -> Read(c, call[c])

Next ==
  \E c \in Clients :
    \/ \E request \in Pinning("publish")   : Publish(c, request)
    \/ \E request \in Pinning("deprecate") : Deprecate(c, request)
    \/ \E request \in Pinning("update")    : UpdateReads(c, request)
    \/ \E request \in Reads(c)             : Read(c, request)
    \/ UpdatePublishes(c)
    \/ Repeat(c)

Spec == Init /\ [][Next]_vars

-----------------------------------------------------------------------------
(* An update that pins a revision lands on the version it names as current:  *)
(* nothing was published between its read and its publication, although      *)
(* these are two calls of the repository.  (Without the pin it may land on   *)
(* a version its caller never saw.)                                          *)
PinnedUpdateFollowsCurrent ==
  \A update \in rebased : update.pinned => update.below = update.current

(* Publishing or deprecating once more what has been published or            *)
(* deprecated, with no revision pinned, is answered as a replay, whatever    *)
(* has happened to the Schema since.                                         *)
RepetitionIsIdempotent ==
  \A c \in Clients :
    pc[c] = "idle" /\ retried[c] /\ call[c].op \in {"publish", "deprecate"}
      /\ call[c].expected = AnyRevision
      => outcome[c] = "idempotent"
=============================================================================
