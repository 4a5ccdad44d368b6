------------------------- MODULE InMemoryRepository -------------------------
(***************************************************************************)
(* InMemoryMetadataRepository (publication.py 177-403) at the grain of its *)
(* threads: taking and giving back the reentrant lock, the checks, the     *)
(* write to a dictionary and the increment of the revision are steps of    *)
(* their own.  Whether the lock makes them one step is what is checked:    *)
(* this module implements MetadataRepository.                              *)
(*                                                                         *)
(* A thread makes one call at a time.  What it calls is drawn from Calls,  *)
(* and a call that takes expected_revision pins nothing or the revision    *)
(* the thread last saw.                                                    *)
(***************************************************************************)
EXTENDS Integers, Sequences, FiniteSets

CONSTANTS
  SchemaIds, Versions, Rank, Bodies, Breaking, Resources,
  Absent, AnyRevision, MaxRevision,         \* as in MetadataRepository
  Threads,
  Calls,        \* the calls threads make, without their expected_revision
  MaxCalls,     \* bound: calls per thread
  Nobody        \* the owner of a free lock


VARIABLES
  schemas, resources, revision, waived,     \* as in MetadataRepository
  owner, depth, \* _lock: the thread that holds the RLock, and how many times
  pc,           \* where each thread is
  call,         \* the call it is making
  reply,        \* how its last call ended: a result or an exception
  seen,         \* the revision its last call reported
  copied,       \* the tuples its last snapshot() took
  made,         \* calls made so far
  history       \* history: the state of every revision, and who asked for it

registryVars == <<schemas, resources, waived>>
lockVars     == <<owner, depth>>
clientVars   == <<call, made>>
resultVars   == <<reply, seen, copied>>
vars == <<registryVars, revision, lockVars, pc, clientVars, resultVars, history>>

Registry == INSTANCE MetadataRepository

\* What a thread may call, with the arguments the protocols type.
Call ==
  [op : {"publish"}, id : SchemaIds, version : Versions, body : Bodies, allowBreaking : BOOLEAN]
  \cup [op : {"deprecate"}, id : SchemaIds, version : Versions]
  \cup [op : {"create"}, ref : Resources, schema : Registry!SchemaRefs]
  \cup [op : {"replace"}, ref : Resources, document : Registry!Collection]
  \cup [op : {"get"}, id : SchemaIds, version : Versions \cup {Absent}]
  \cup [op : {"snapshot", "revision"}]

ASSUME CallsAssumption   == Calls \subseteq Call
ASSUME ThreadsAssumption == IsFiniteSet(Threads) /\ Nobody \notin Threads
ASSUME CallBound ==
  MaxCalls \in Nat /\ MaxRevision \in Nat /\ Cardinality(Threads) * MaxCalls <= MaxRevision
ASSUME AbsentAssumption  == Absent \notin Registry!Publication /\ Absent \notin Registry!Collection
ASSUME RegistryAssumption ==
  Rank \in [Versions -> Nat] /\ Breaking \subseteq Bodies \X Bodies /\ AnyRevision \notin Nat

NoCopy == [schemas |-> Absent, resources |-> Absent, revision |-> Absent]

Init ==
  /\ Registry!Init
  /\ owner  = Nobody
  /\ depth  = 0
  /\ pc     = [t \in Threads |-> "idle"]
  /\ call   = [t \in Threads |-> Absent]
  /\ reply  = [t \in Threads |-> "none"]
  /\ seen   = [t \in Threads |-> 0]
  /\ copied = [t \in Threads |-> NoCopy]
  /\ made   = [t \in Threads |-> 0]
  /\ history = <<[pinned |-> AnyRevision, schemas |-> schemas, resources |-> resources]>>

-----------------------------------------------------------------------------
(* Steps every operation shares *)

Goto(t, from, to) == pc[t] = from /\ pc' = [pc EXCEPT ![t] = to]

\* Of the results, PublishResult, RegistrySnapshot and an int carry a revision.
Answer(t, outcome, revisionSeen) ==
  /\ reply' = [reply EXCEPT ![t] = outcome]
  /\ seen'  = [seen EXCEPT ![t] = revisionSeen]
  /\ UNCHANGED copied

Reply(t, outcome) == Answer(t, outcome, seen[t])

Invoke(t) ==
  /\ Goto(t, "idle", "entering")
  /\ made[t] < MaxCalls
  /\ made' = [made EXCEPT ![t] = @ + 1]
  /\ \E c \in Calls, expected \in {AnyRevision, seen[t]} :
       call' = [call EXCEPT ![t] = [request |-> c, expected |-> expected]]
  /\ reply'  = [reply EXCEPT ![t] = "none"]
  /\ copied' = [copied EXCEPT ![t] = NoCopy]
  /\ UNCHANGED <<registryVars, revision, lockVars, seen, history>>

\* Mutants: no lock at all; a lock that is not reentrant.
LockIgnored(t) == TRUE
LockFree(t) == owner = Nobody

\* A thread that holds the lock may take it once more.
LockAvailable(t) == owner \in {Nobody, t}

Take(t) == LockAvailable(t) /\ owner' = t /\ depth' = depth + 1

GiveBack(t) ==
  /\ depth' = depth - 1
  /\ owner' = IF depth = 1 THEN Nobody ELSE owner

\* "with self._lock": entering, and leaving by return or by an exception.
Enter(t) ==
  /\ Goto(t, "entering", "checking")
  /\ Take(t)
  /\ UNCHANGED <<registryVars, revision, clientVars, resultVars, history>>

Leave(t) ==
  /\ Goto(t, "leaving", "idle")
  /\ GiveBack(t)
  /\ call' = [call EXCEPT ![t] = Absent]
  /\ UNCHANGED <<registryVars, revision, made, resultVars, history>>

\* The increment, and the result that is built from it.
Count(t) ==
  /\ Goto(t, "counting", "leaving")
  /\ revision' = revision + 1
  /\ Answer(t, "stored", IF call[t].request.op = "publish" THEN revision' ELSE seen[t])
  /\ history' = Append(history, [pinned    |-> call[t].expected,
                                 schemas   |-> schemas,
                                 resources |-> resources])
  /\ UNCHANGED <<registryVars, lockVars, clientVars>>

\* Decided under the lock: go on to the write, or answer without changing
\* anything.
Decide(t, outcome, success) ==
  /\ IF outcome = success
       THEN Goto(t, "checking", "writing") /\ UNCHANGED resultVars
       ELSE /\ Goto(t, "checking", "leaving")
            /\ Answer(t, outcome, IF outcome = "idempotent" /\ call[t].request.op = "publish"
                                    THEN revision ELSE seen[t])
  /\ UNCHANGED <<registryVars, revision, lockVars, clientVars, history>>

Calling(t, op) == call[t].request.op = op

-----------------------------------------------------------------------------
(* publish_schema and deprecate_schema *)

CheckPublish(t) ==
  LET c == call[t].request
  IN  /\ pc[t] = "checking" /\ Calling(t, "publish")
      /\ Decide(t, Registry!PublishOutcome(c.id, c.version, c.body,
                                           call[t].expected, c.allowBreaking),
                "published")

WritePublication(t) ==
  LET c == call[t].request
  IN  /\ Goto(t, "writing", "counting")
      /\ Calling(t, "publish")
      /\ Registry!StorePublication(c.id, c.version, c.body)
      /\ waived' = IF c.allowBreaking THEN waived \cup {<<c.id, c.version>>} ELSE waived
      /\ UNCHANGED <<resources, revision, lockVars, clientVars, resultVars, history>>

CheckDeprecate(t) ==
  LET c == call[t].request
  IN  /\ pc[t] = "checking" /\ Calling(t, "deprecate")
      /\ Decide(t, Registry!DeprecateOutcome(c.id, c.version, call[t].expected),
                "deprecated")

WriteDeprecation(t) ==
  LET c == call[t].request
  IN  /\ Goto(t, "writing", "counting")
      /\ Calling(t, "deprecate")
      /\ Registry!StoreDeprecation(c.id, c.version)
      /\ UNCHANGED <<resources, waived, revision, lockVars, clientVars, resultVars, history>>

\* Mutant: the clock is read after the write.
ClockFailsLate(t) ==
  /\ Goto(t, "counting", "leaving")
  /\ Calling(t, "publish") \/ Calling(t, "deprecate")
  /\ Reply(t, "ValueError")
  /\ UNCHANGED <<registryVars, revision, lockVars, clientVars, history>>

\* The injected clock is read before the write; _timestamp refuses a naive time.
ClockFails(t) ==
  /\ Goto(t, "writing", "leaving")
  /\ Calling(t, "publish") \/ Calling(t, "deprecate")
  /\ Reply(t, "ValueError")
  /\ UNCHANGED <<registryVars, revision, lockVars, clientVars, history>>

-----------------------------------------------------------------------------
(* create_collection calls get_schema, which takes the lock a second time *)

CheckCreate(t) ==
  LET c == call[t].request
      outcome == Registry!CreateOutcome(c.ref, c.schema, call[t].expected)
  IN  /\ pc[t] = "checking" /\ Calling(t, "create")
      /\ IF outcome \in {"RegistryRevisionConflict", "ResourceAlreadyExists"}
           THEN Goto(t, "checking", "leaving") /\ Reply(t, outcome)
           ELSE Goto(t, "checking", "reentering") /\ UNCHANGED resultVars
      /\ UNCHANGED <<registryVars, revision, lockVars, clientVars, history>>

Reenter(t) ==
  /\ Goto(t, "reentering", "looking")
  /\ Take(t)
  /\ UNCHANGED <<registryVars, revision, clientVars, resultVars, history>>

LookUpSchema(t) ==
  LET pinned == call[t].request.schema
  IN  /\ pc[t] = "looking"
      /\ IF Registry!Readable(pinned[1], pinned[2], FALSE)
           THEN Goto(t, "looking", "writing") /\ UNCHANGED resultVars
           ELSE Goto(t, "looking", "leaving") /\ Reply(t, "ResourceNotFound")
      /\ GiveBack(t)
      /\ UNCHANGED <<registryVars, revision, clientVars, history>>

CheckReplace(t) ==
  /\ pc[t] = "checking" /\ Calling(t, "replace")
  /\ Decide(t, Registry!ReplaceOutcome(call[t].request.ref, call[t].expected), "replaced")

WriteCollection(t) ==
  LET c == call[t].request
      stored == IF c.op = "create" THEN [schema |-> c.schema, state |-> "PROVISIONING"]
                                   ELSE c.document
  IN  /\ Goto(t, "writing", "counting")
      /\ Calling(t, "create") \/ Calling(t, "replace")
      /\ Registry!StoreCollection(c.ref, stored)
      /\ UNCHANGED <<schemas, waived, revision, lockVars, clientVars, resultVars, history>>

-----------------------------------------------------------------------------
(* Reads.  snapshot() takes its three parts one after the other; get_schema, *)
(* list_schema_versions, get_collection and revision each take one.          *)

Copy(t, part, value, from, to) ==
  /\ Goto(t, from, to)
  /\ copied' = [copied EXCEPT ![t][part] = value]
  /\ UNCHANGED <<registryVars, revision, lockVars, clientVars, reply, seen, history>>

CopySchemas(t)   == /\ Copy(t, "schemas", schemas, "checking", "copying")
                    /\ Calling(t, "snapshot")
CopyResources(t) == Copy(t, "resources", resources, "copying", "copied")

CopyRevision(t) ==
  /\ Goto(t, "copied", "leaving")
  /\ copied' = [copied EXCEPT ![t].revision = revision]
  /\ reply'  = [reply EXCEPT ![t] = "snapshot"]
  /\ seen'   = [seen EXCEPT ![t] = revision]
  /\ UNCHANGED <<registryVars, revision, lockVars, clientVars, history>>

\* get_schema finds a published version: the one named, or with none named the
\* latest; _latest is then the greatest precedence.
GetSchema(t) ==
  LET c == call[t].request
      found == {v \in Versions : IF c.version = Absent
                                   THEN Registry!IsLatest(c.id, FALSE, v)
                                   ELSE v = c.version /\ Registry!Readable(c.id, v, FALSE)}
  IN  /\ pc[t] = "checking" /\ Goto(t, "checking", "leaving")
      /\ Calling(t, "get")
      /\ Reply(t, IF found = {} THEN "ResourceNotFound" ELSE "found")
      /\ UNCHANGED <<registryVars, revision, lockVars, clientVars, history>>

ReadRevision(t) ==
  /\ Goto(t, "checking", "leaving")
  /\ Calling(t, "revision")
  /\ Answer(t, "revision", revision)
  /\ UNCHANGED <<registryVars, revision, lockVars, clientVars, history>>

-----------------------------------------------------------------------------
Step(t) ==
  \/ Enter(t) \/ Leave(t) \/ Count(t)
  \/ CheckPublish(t) \/ WritePublication(t)
  \/ CheckDeprecate(t) \/ WriteDeprecation(t)
  \/ ClockFails(t)
  \/ CheckCreate(t) \/ Reenter(t) \/ LookUpSchema(t)
  \/ CheckReplace(t) \/ WriteCollection(t)
  \/ CopySchemas(t) \/ CopyResources(t) \/ CopyRevision(t)
  \/ GetSchema(t) \/ ReadRevision(t)

Next == \E t \in Threads : Invoke(t) \/ Step(t)

\* A runnable thread is scheduled again.  No thread is promised the lock ahead
\* of others, but a thread makes finitely many calls.
Fairness == \A t \in Threads : WF_vars(Step(t))

Spec == Init /\ [][Next]_vars /\ Fairness

-----------------------------------------------------------------------------
(* Every operation takes effect at one moment between its call and its      *)
(* return, the write to the dictionary, and the registry goes only through  *)
(* the steps the protocol has: check, write and increment are atomic.       *)
Atomic == INSTANCE MetadataRepository
            WITH revision <- revision + Cardinality({t \in Threads : pc[t] = "counting"})

AtomicSpec == Atomic!Spec

(* A snapshot is a consistent read of one revision: the publications and    *)
(* Collections it copied are those the registry had at the revision it      *)
(* reports, although it copies them one after the other.                    *)
SnapshotIsOneRevision ==
  \A t \in Threads : reply[t] = "snapshot" /\ pc[t] = "idle" =>
    LET past == history[copied[t].revision + 1]
    IN  copied[t].schemas = past.schemas /\ copied[t].resources = past.resources

(* Compare-and-set: a change whose caller pinned a revision follows that     *)
(* revision at once; nothing another thread did lies between the two.        *)
PinnedChangeFollowsItsPin ==
  \A n \in 2..Len(history) : history[n].pinned \in {AnyRevision, n - 2}

(* Every call returns: no thread waits forever for the lock, also not for    *)
(* one it holds itself.                                                      *)
CallsReturn == \A t \in Threads : pc[t] = "entering" ~> pc[t] = "idle"
=============================================================================
