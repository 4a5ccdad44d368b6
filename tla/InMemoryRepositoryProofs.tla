----------------------- MODULE InMemoryRepositoryProofs -----------------------
(***************************************************************************)
(* The lock makes the operations of InMemoryRepository atomic, for any     *)
(* number of threads and calls: it implements MetadataRepository, so what  *)
(* holds of the registry holds under threads; a snapshot is one revision,  *)
(* and a pinned change follows its pin.                                    *)
(*                                                                         *)
(* The invariant has a part for the lock, one for what the owner of the    *)
(* lock has found out and may rely on until it gives the lock back, and    *)
(* one for the history of revisions.                                       *)
(***************************************************************************)
EXTENDS InMemoryRepository, TLAPS, FiniteSetTheorems

Holding ==
  {"checking", "reentering", "looking", "writing", "counting", "leaving", "copying", "copied"}

Places == {"idle", "entering"} \cup Holding

\* How a call ends; nothing yet is none.
Replies ==
  {"none", "stored", "idempotent", "found", "snapshot", "revision", "ValueError",
   "RegistryRevisionConflict", "SchemaVersionConflict", "IncompatibleSchema",
   "ResourceNotFound", "ResourceAlreadyExists", "published", "deprecated", "replaced"}

Expected == {AnyRevision} \cup Nat
Request  == [request : Calls, expected : Expected]

AllSchemas   == [SchemaIds -> [Versions -> Registry!Publication \cup {Absent}]]
AllResources == [Resources -> Registry!Collection \cup {Absent}]
Past == [pinned : Expected, schemas : AllSchemas, resources : AllResources]

Copied == [schemas : AllSchemas \cup {Absent}, resources : AllResources \cup {Absent},
           revision : Nat \cup {Absent}]

Threaded ==
  /\ pc \in [Threads -> Places]
  /\ call \in [Threads -> Request \cup {Absent}]
  /\ reply \in [Threads -> Replies]
  /\ seen \in [Threads -> Nat]
  /\ copied \in [Threads -> Copied]
  /\ made \in [Threads -> 0..MaxCalls]
  /\ \A t \in Threads : pc[t] # "idle" => call[t] \in Request /\ made[t] >= 1
  /\ history \in Seq(Past)

\* Who is past "with self._lock" owns the lock, and has it twice inside get_schema.
Locked ==
  /\ \A t \in Threads : pc[t] \in Holding => owner = t
  /\ owner # Nobody => owner \in Threads /\ pc[owner] \in Holding
  /\ depth = IF owner = Nobody THEN 0 ELSE IF pc[owner] = "looking" THEN 2 ELSE 1

\* The answer of the checks, as of now.
Succeeds(c, expected) ==
  \/ c.op = "publish"
       /\ Registry!PublishOutcome(c.id, c.version, c.body, expected, c.allowBreaking) = "published"
  \/ c.op = "deprecate" /\ Registry!DeprecateOutcome(c.id, c.version, expected) = "deprecated"
  \/ c.op = "create" /\ Registry!CreateOutcome(c.ref, c.schema, expected) = "created"
  \/ c.op = "replace" /\ Registry!ReplaceOutcome(c.ref, expected) = "replaced"

\* What a thread has found out is still so while it holds the lock.
Knows(t) ==
  /\ pc[t] \in {"reentering", "looking"} =>
       /\ call[t].request.op = "create"
       /\ resources[call[t].request.ref] = Absent
  /\ pc[t] = "writing" => Succeeds(call[t].request, call[t].expected)
  /\ pc[t] \in {"reentering", "looking", "counting"} => Registry!RevisionMatches(call[t].expected)
  /\ pc[t] \in {"copying", "copied"} => copied[t].schemas = schemas
  /\ pc[t] = "copied" => copied[t].resources = resources

Relied == \A t \in Threads : Knows(t)

\* The calls that have returned, or are about to: none of them was counted twice.
Ended == {one \in Threads \X (1..MaxCalls) :
            \/ one[2] < made[one[1]]
            \/ one[2] = made[one[1]] /\ pc[one[1]] \in {"idle", "leaving"}}

Bounded == revision <= Cardinality(Ended)

\* The history has every revision; the last one is the present unless a
\* thread has written and not yet counted.
Recorded ==
  /\ Len(history) = revision + 1
  /\ (\A t \in Threads : pc[t] # "counting") =>
       history[revision + 1].schemas = schemas /\ history[revision + 1].resources = resources

\* What a thread copied, at the revision it reports.
Taken(t) ==
  /\ pc[t] \notin {"idle", "leaving"} => reply[t] = "none"
  /\ reply[t] = "snapshot" =>
       /\ copied[t].revision \in 0..revision
       /\ copied[t].schemas = history[copied[t].revision + 1].schemas
       /\ copied[t].resources = history[copied[t].revision + 1].resources

AllTaken == \A t \in Threads : Taken(t)

IInv ==
  /\ Registry!TypeOK /\ Threaded /\ Locked /\ Relied /\ Bounded
  /\ Recorded /\ AllTaken /\ PinnedChangeFollowsItsPin

-----------------------------------------------------------------------------
(* A step is a step of one thread: the others stay where they are, and the   *)
(* registry changes only by a thread past the lock.                          *)
LEMMA OthersStay ==
  ASSUME Threaded, NEW t \in Threads, Invoke(t) \/ Step(t), NEW u \in Threads, u # t
  PROVE  /\ pc'[u] = pc[u] /\ call'[u] = call[u] /\ made'[u] = made[u]
         /\ reply'[u] = reply[u] /\ seen'[u] = seen[u] /\ copied'[u] = copied[u]
<1> USE DEF Threaded, Goto, Answer, Reply, clientVars, resultVars
<1>1. CASE Invoke(t)
  BY <1>1 DEF Invoke
<1>2. CASE Enter(t) \/ Leave(t) \/ Count(t) \/ Reenter(t) \/ LookUpSchema(t)
  BY <1>2 DEF Enter, Leave, Count, Reenter, LookUpSchema
<1>3. CASE CheckPublish(t) \/ CheckDeprecate(t) \/ CheckReplace(t) \/ CheckCreate(t)
  BY <1>3 DEF CheckPublish, CheckDeprecate, CheckReplace, CheckCreate, Decide
<1>4. CASE WritePublication(t) \/ WriteDeprecation(t) \/ WriteCollection(t) \/ ClockFails(t)
  BY <1>4 DEF WritePublication, WriteDeprecation, WriteCollection, ClockFails
<1>5. CASE CopySchemas(t) \/ CopyResources(t) \/ CopyRevision(t) \/ GetSchema(t) \/ ReadRevision(t)
  BY <1>5 DEF CopySchemas, CopyResources, Copy, CopyRevision, GetSchema, ReadRevision
<1> QED
  BY <1>1, <1>2, <1>3, <1>4, <1>5 DEF Step

LEMMA OnlyTheOwnerWrites ==
  ASSUME NEW t \in Threads, Invoke(t) \/ Step(t), pc[t] \notin Holding
  PROVE  UNCHANGED <<registryVars, revision, history>>
<1> USE DEF Holding, Goto
<1>1. CASE Invoke(t) \/ Enter(t)
  BY <1>1 DEF Invoke, Enter
<1>2. CASE Leave(t) \/ Count(t) \/ Reenter(t) \/ LookUpSchema(t)
  BY <1>2 DEF Leave, Count, Reenter, LookUpSchema
<1>3. CASE CheckPublish(t) \/ CheckDeprecate(t) \/ CheckReplace(t) \/ CheckCreate(t)
  BY <1>3 DEF CheckPublish, CheckDeprecate, CheckReplace, CheckCreate
<1>4. CASE WritePublication(t) \/ WriteDeprecation(t) \/ WriteCollection(t) \/ ClockFails(t)
  BY <1>4 DEF WritePublication, WriteDeprecation, WriteCollection, ClockFails
<1>5. CASE CopySchemas(t) \/ CopyResources(t) \/ CopyRevision(t) \/ GetSchema(t) \/ ReadRevision(t)
  BY <1>5 DEF CopySchemas, CopyResources, Copy, CopyRevision, GetSchema, ReadRevision
<1> QED
  BY <1>1, <1>2, <1>3, <1>4, <1>5 DEF Step

-----------------------------------------------------------------------------
(* What the variables range over.                                            *)
LEMMA RegistryTypeStep ==
  ASSUME Registry!TypeOK, Threaded, Relied, NEW t \in Threads, Invoke(t) \/ Step(t)
  PROVE  Registry!TypeOK'
<1>0. pc[t] # "idle" => call[t].request \in Call
  BY CallsAssumption DEF Threaded, Request
<1>1. CASE UNCHANGED <<registryVars, revision>>
  BY <1>1 DEF Registry!TypeOK, registryVars
<1>2. CASE Count(t)
  BY <1>2 DEF Count, Registry!TypeOK, registryVars
<1>3. CASE WritePublication(t)
  <2> DEFINE c == call[t].request
  <2>1. /\ c \in Call /\ c.op = "publish"
        /\ schemas' = [schemas EXCEPT ![c.id][c.version] = [body |-> c.body, status |-> "PUBLISHED"]]
        /\ waived' = IF c.allowBreaking THEN waived \cup {<<c.id, c.version>>} ELSE waived
        /\ UNCHANGED <<resources, revision>>
    BY <1>0, <1>3 DEF WritePublication, Goto, Calling, Registry!StorePublication
  <2>2. c.id \in SchemaIds /\ c.version \in Versions /\ c.body \in Bodies
    BY <2>1 DEF Call
  <2> QED
    BY <2>1, <2>2, SMTT(60) DEF Registry!TypeOK, Registry!Publication, Registry!SchemaRefs
<1>4. CASE WriteDeprecation(t)
  <2> DEFINE c == call[t].request
  <2>1. /\ c \in Call /\ c.op = "deprecate" /\ Succeeds(c, call[t].expected)
        /\ schemas' = [schemas EXCEPT ![c.id][c.version].status = "DEPRECATED"]
        /\ UNCHANGED <<resources, waived, revision>>
    BY <1>0, <1>4 DEF WriteDeprecation, Goto, Calling, Registry!StoreDeprecation, Relied, Knows
  <2>2. c.id \in SchemaIds /\ c.version \in Versions
    BY <2>1 DEF Call
  <2>3. schemas[c.id][c.version] \in Registry!Publication
    BY <2>1, <2>2 DEF Succeeds, Registry!DeprecateOutcome, Registry!Known, Registry!TypeOK
  <2> QED
    BY <2>1, <2>2, <2>3 DEF Registry!TypeOK, Registry!Publication
<1>5. CASE WriteCollection(t)
  <2> DEFINE c == call[t].request
             stored == IF c.op = "create" THEN [schema |-> c.schema, state |-> "PROVISIONING"]
                                          ELSE c.document
  <2>1. /\ c \in Call /\ c.op \in {"create", "replace"}
        /\ resources' = [resources EXCEPT ![c.ref] = stored]
        /\ UNCHANGED <<schemas, waived, revision>>
    BY <1>0, <1>5 DEF WriteCollection, Goto, Calling, Registry!StoreCollection
  <2>2. c.ref \in Resources /\ stored \in Registry!Collection
    BY <2>1 DEF Call, Registry!Collection, Registry!CollectionStates
  <2> QED
    BY <2>1, <2>2 DEF Registry!TypeOK
<1>6. CASE Invoke(t) \/ Enter(t) \/ Leave(t) \/ Reenter(t) \/ LookUpSchema(t) \/ ClockFails(t)
  BY <1>1, <1>6 DEF Invoke, Enter, Leave, Reenter, LookUpSchema, ClockFails
<1>7. CASE CheckPublish(t) \/ CheckDeprecate(t) \/ CheckReplace(t) \/ CheckCreate(t)
  BY <1>1, <1>7 DEF CheckPublish, CheckDeprecate, CheckReplace, CheckCreate, Decide
<1>8. CASE CopySchemas(t) \/ CopyResources(t) \/ CopyRevision(t) \/ GetSchema(t) \/ ReadRevision(t)
  BY <1>1, <1>8 DEF CopySchemas, CopyResources, Copy, CopyRevision, GetSchema, ReadRevision
<1> QED
  BY <1>2, <1>3, <1>4, <1>5, <1>6, <1>7, <1>8 DEF Step

LEMMA ThreadedStep ==
  ASSUME Registry!TypeOK, Threaded, NEW t \in Threads, Invoke(t) \/ Step(t)
  PROVE  Threaded'
<1>0. ASSUME pc[t] # "idle", NEW to \in Places, NEW answer \in Replies, NEW number \in Nat,
             pc' = [pc EXCEPT ![t] = to],
             reply' = reply \/ reply' = [reply EXCEPT ![t] = answer],
             seen' = seen \/ seen' = [seen EXCEPT ![t] = number],
             UNCHANGED <<copied, call, made, history>>
      PROVE  Threaded'
  <2>1. pc' \in [Threads -> Places] /\ \A u \in Threads : pc'[u] # "idle" => pc[u] # "idle"
    BY <1>0 DEF Threaded
  <2>2. reply' \in [Threads -> Replies] /\ seen' \in [Threads -> Nat]
    BY <1>0 DEF Threaded
  <2> QED
    BY <1>0, <2>1, <2>2 DEF Threaded
<1> USE DEF Goto, Answer, Reply, clientVars, resultVars, Places, Holding, Replies
<1>1. CASE Invoke(t)
  <2>1. /\ pc[t] = "idle" /\ pc' = [pc EXCEPT ![t] = "entering"]
        /\ made[t] < MaxCalls /\ made' = [made EXCEPT ![t] = @ + 1]
        /\ UNCHANGED <<seen, history>>
    BY <1>1 DEF Invoke
  <2>2. reply' = [reply EXCEPT ![t] = "none"] /\ copied' = [copied EXCEPT ![t] = NoCopy]
    BY <1>1 DEF Invoke
  <2>3. PICK c \in Calls, expected \in {AnyRevision, seen[t]} :
          call' = [call EXCEPT ![t] = [request |-> c, expected |-> expected]]
    BY <1>1 DEF Invoke
  <2>4. [request |-> c, expected |-> expected] \in Request
    BY <2>3 DEF Threaded, Request, Expected
  <2>5. NoCopy \in Copied
    BY DEF NoCopy, Copied
  <2>6. pc' \in [Threads -> Places] /\ call' \in [Threads -> Request \cup {Absent}]
    BY <2>1, <2>3, <2>4 DEF Threaded
  <2>7. made' \in [Threads -> 0..MaxCalls] /\ made'[t] >= 1
    BY <2>1, CallBound DEF Threaded
  <2>8. \A u \in Threads : pc'[u] # "idle" => call'[u] \in Request /\ made'[u] >= 1
    BY <2>1, <2>3, <2>4, <2>7 DEF Threaded
  <2>9. copied' \in [Threads -> Copied]
    BY <2>2, <2>5 DEF Threaded
  <2> QED
    BY <2>1, <2>2, <2>6, <2>7, <2>8, <2>9 DEF Threaded
<1>2. CASE Enter(t) \/ Reenter(t) \/ ClockFails(t)
  BY <1>2 DEF Enter, Reenter, ClockFails, Threaded
<1>3. CASE Leave(t)
  BY <1>3 DEF Leave, Threaded
<1>4. CASE LookUpSchema(t)
  BY <1>4 DEF LookUpSchema, Threaded
<1>5. CASE Count(t)
  <2>1. /\ pc' = [pc EXCEPT ![t] = "leaving"] /\ pc[t] = "counting"
        /\ revision' = revision + 1
        /\ reply' = [reply EXCEPT ![t] = "stored"]
        /\ seen' = [seen EXCEPT ![t] = IF call[t].request.op = "publish" THEN revision' ELSE seen[t]]
        /\ UNCHANGED <<copied, call, made>>
    BY <1>5 DEF Count
  <2>2. history' = Append(history, [pinned |-> call[t].expected, schemas |-> schemas, resources |-> resources])
    BY <1>5 DEF Count
  <2>3. [pinned |-> call[t].expected, schemas |-> schemas, resources |-> resources] \in Past
    BY <2>1 DEF Threaded, Request, Past, AllSchemas, AllResources, Registry!TypeOK
  <2>4. history' \in Seq(Past)
    BY <2>2, <2>3 DEF Threaded
  <2>5. seen' \in [Threads -> Nat]
    BY <2>1 DEF Threaded, Registry!TypeOK
  <2> QED
    BY <2>1, <2>4, <2>5 DEF Threaded
<1>6. CASE CheckPublish(t) \/ CheckDeprecate(t) \/ CheckReplace(t)
  <2>1. ASSUME NEW outcome \in Replies, NEW success, Decide(t, outcome, success)
        PROVE  Threaded'
    BY <2>1 DEF Decide, Threaded, Registry!TypeOK
  <2>2. CASE CheckPublish(t)
    BY <2>1, <2>2 DEF CheckPublish, Registry!PublishOutcome
  <2>3. CASE CheckDeprecate(t)
    BY <2>1, <2>3 DEF CheckDeprecate, Registry!DeprecateOutcome
  <2>4. CASE CheckReplace(t)
    BY <2>1, <2>4 DEF CheckReplace, Registry!ReplaceOutcome
  <2> QED
    BY <1>6, <2>2, <2>3, <2>4
<1>7. CASE CheckCreate(t)
  <2>1. PICK to \in {"leaving", "reentering"}, answer \in Replies :
          /\ pc[t] = "checking" /\ pc' = [pc EXCEPT ![t] = to]
          /\ reply' = reply \/ reply' = [reply EXCEPT ![t] = answer]
          /\ seen' = seen \/ seen' = [seen EXCEPT ![t] = seen[t]]
          /\ UNCHANGED <<copied, call, made, history>>
    BY <1>7 DEF CheckCreate, Registry!CreateOutcome
  <2>2. pc[t] # "idle" /\ to \in Places /\ seen[t] \in Nat
    BY <2>1 DEF Threaded
  <2> HIDE DEF Places, Replies
  <2> QED
    BY <1>0, <2>1, <2>2
<1>8. CASE WritePublication(t) \/ WriteDeprecation(t) \/ WriteCollection(t)
  BY <1>8 DEF WritePublication, WriteDeprecation, WriteCollection, Threaded
<1>9. CASE CopySchemas(t) \/ CopyResources(t) \/ CopyRevision(t)
  <2>1. /\ pc' \in [Threads -> Places] /\ pc[t] # "idle"
        /\ reply' \in [Threads -> Replies] /\ seen' \in [Threads -> Nat]
        /\ \A u \in Threads : pc'[u] # "idle" => pc[u] # "idle"
        /\ UNCHANGED <<call, made, history>>
    <3>1. CASE CopySchemas(t)
      BY <3>1 DEF CopySchemas, Copy, Threaded
    <3>2. CASE CopyResources(t)
      BY <3>2 DEF CopyResources, Copy, Threaded
    <3>3. CASE CopyRevision(t)
      BY <3>3 DEF CopyRevision, Threaded, Registry!TypeOK
    <3> QED
      BY <1>9, <3>1, <3>2, <3>3
  <2>2. /\ schemas \in AllSchemas /\ resources \in AllResources /\ revision \in Nat
    BY DEF Registry!TypeOK, AllSchemas, AllResources
  <2>3. \/ copied' = [copied EXCEPT ![t]["schemas"] = schemas]
        \/ copied' = [copied EXCEPT ![t]["resources"] = resources]
        \/ copied' = [copied EXCEPT ![t].revision = revision]
    BY <1>9 DEF CopySchemas, CopyResources, Copy, CopyRevision
  <2>4. /\ [copied[t] EXCEPT !["schemas"] = schemas] \in Copied
        /\ [copied[t] EXCEPT !["resources"] = resources] \in Copied
        /\ [copied[t] EXCEPT !.revision = revision] \in Copied
    BY <2>2 DEF Threaded, Copied
  <2>5. \E new \in Copied : copied' = [copied EXCEPT ![t] = new]
    BY <2>3, <2>4
  <2>6. copied' \in [Threads -> Copied]
    BY <2>5 DEF Threaded
  <2> QED
    BY <2>1, <2>6 DEF Threaded
<1>10. CASE GetSchema(t) \/ ReadRevision(t)
  <2>1. PICK answer \in Replies, number \in {seen[t], revision} :
          /\ pc[t] = "checking" /\ pc' = [pc EXCEPT ![t] = "leaving"]
          /\ reply' = [reply EXCEPT ![t] = answer]
          /\ seen' = [seen EXCEPT ![t] = number]
          /\ UNCHANGED <<copied, call, made, history>>
    BY <1>10 DEF GetSchema, ReadRevision
  <2>2. seen[t] \in Nat /\ revision \in Nat
    BY DEF Threaded, Registry!TypeOK
  <2> QED
    BY <1>0, <2>1, <2>2
<1> QED
  BY <1>1, <1>2, <1>3, <1>4, <1>5, <1>6, <1>7, <1>8, <1>9, <1>10 DEF Step

-----------------------------------------------------------------------------
(* The lock has at most one owner.                                           *)
LEMMA LockedStep ==
  ASSUME Threaded, Locked, NEW t \in Threads, Invoke(t) \/ Step(t)
  PROVE  Locked'
<1> USE DEF Goto
<1>1. Nobody \notin Threads
  BY ThreadsAssumption
<1>2. \A u \in Threads : u # t => pc'[u] = pc[u]
  BY OthersStay
<1>3. /\ pc'[t] = "entering" => pc[t] = "idle" /\ UNCHANGED lockVars
      /\ pc[t] \in Holding \/ pc'[t] \in {"entering", "checking"}
  BY DEF Invoke, Step, Enter, Leave, Count, CheckPublish, WritePublication, CheckDeprecate,
         WriteDeprecation, ClockFails, CheckCreate, Reenter, LookUpSchema, CheckReplace,
         WriteCollection, CopySchemas, CopyResources, Copy, CopyRevision, GetSchema,
         ReadRevision, Decide, Threaded, Holding
<1>4. CASE Invoke(t)
  BY <1>1, <1>2, <1>4 DEF Invoke, lockVars, Locked, Threaded, Holding
<1>5. CASE Enter(t)
  <2>1. owner = Nobody /\ owner' = t /\ depth' = depth + 1 /\ pc[t] = "entering" /\ pc'[t] = "checking"
    BY <1>5 DEF Enter, Take, LockAvailable, Locked, Threaded, Holding
  <2> QED
    BY <1>1, <1>2, <2>1 DEF Locked, Holding
<1>6. CASE Leave(t)
  <2>1. owner = t /\ depth = 1 /\ pc[t] = "leaving" /\ pc'[t] = "idle"
    BY <1>1, <1>6 DEF Leave, Locked, Threaded, Holding
  <2>2. owner' = Nobody /\ depth' = 0
    BY <1>6, <2>1 DEF Leave, GiveBack
  <2> QED
    BY <1>2, <2>1, <2>2 DEF Locked, Holding
<1>7. CASE Reenter(t)
  <2>1. owner = t /\ depth = 1 /\ pc[t] = "reentering" /\ pc'[t] = "looking"
    BY <1>1, <1>7 DEF Reenter, Locked, Threaded, Holding
  <2>2. owner' = t /\ depth' = 2
    BY <1>7, <2>1 DEF Reenter, Take
  <2> QED
    BY <1>1, <1>2, <2>1, <2>2 DEF Locked, Holding
<1>8. CASE LookUpSchema(t)
  <2>1. owner = t /\ depth = 2 /\ pc[t] = "looking" /\ pc'[t] \in {"writing", "leaving"}
    BY <1>1, <1>8 DEF LookUpSchema, Locked, Threaded, Holding
  <2>2. owner' = t /\ depth' = 1
    BY <1>8, <2>1 DEF LookUpSchema, GiveBack
  <2> QED
    BY <1>1, <1>2, <2>1, <2>2 DEF Locked, Holding
<1>9. ASSUME UNCHANGED lockVars, pc[t] \in Holding \ {"looking"}, pc'[t] \in Holding \ {"looking"}
      PROVE  Locked'
  BY <1>1, <1>2, <1>9 DEF Locked, Threaded, lockVars, Holding
<1>10. CASE Count(t) \/ ClockFails(t) \/ WritePublication(t) \/ WriteDeprecation(t) \/ WriteCollection(t)
  BY <1>9, <1>10 DEF Count, ClockFails, WritePublication, WriteDeprecation, WriteCollection, Threaded, Holding
<1>11. CASE CheckPublish(t) \/ CheckDeprecate(t) \/ CheckReplace(t) \/ CheckCreate(t)
  BY <1>9, <1>11 DEF CheckPublish, CheckDeprecate, CheckReplace, CheckCreate, Decide, Threaded, Holding
<1>12. CASE CopySchemas(t) \/ CopyResources(t) \/ CopyRevision(t) \/ GetSchema(t) \/ ReadRevision(t)
  BY <1>9, <1>12 DEF CopySchemas, CopyResources, Copy, CopyRevision, GetSchema, ReadRevision, Threaded, Holding
<1> QED
  BY <1>4, <1>5, <1>6, <1>7, <1>8, <1>10, <1>11, <1>12 DEF Step

\* What a thread has found out depends on the registry and on its own state.
LEMMA KnowsUnchanged ==
  ASSUME NEW u, Knows(u), UNCHANGED <<schemas, resources, revision>>,
         pc'[u] = pc[u], call'[u] = call[u], copied'[u] = copied[u]
  PROVE  Knows(u)'
  BY DEF Knows, Succeeds, Registry!PublishOutcome, Registry!DeprecateOutcome, Registry!CreateOutcome,
         Registry!ReplaceOutcome, Registry!RevisionMatches, Registry!Known, Registry!NotAboveLatest,
         Registry!BreaksLatest, Registry!IsLatest, Registry!KnownVersions, Registry!Readable

(* What another thread has found out stays so, since only the owner writes.  *)
LEMMA OthersStillKnow ==
  ASSUME Threaded, Locked, Relied, NEW t \in Threads, Invoke(t) \/ Step(t),
         NEW u \in Threads, u # t
  PROVE  Knows(u)'
<1>1. pc'[u] = pc[u] /\ call'[u] = call[u] /\ copied'[u] = copied[u]
  BY OthersStay
<1>2. CASE pc[u] \notin Holding
  BY <1>1, <1>2 DEF Knows, Holding
<1>3. CASE pc[u] \in Holding
  <2>1. pc[t] \notin Holding
    BY <1>3 DEF Locked
  <2>2. schemas' = schemas /\ resources' = resources /\ revision' = revision
    BY <2>1, OnlyTheOwnerWrites DEF registryVars
  <2> QED
    BY <1>1, <2>2, KnowsUnchanged DEF Relied
<1> QED
  BY <1>2, <1>3

(* The checks are made under the lock and their answer is used under it.     *)
LEMMA KnowsStep ==
  ASSUME Threaded, NEW t \in Threads, Knows(t), Invoke(t) \/ Step(t)
  PROVE  Knows(t)'
<1> USE DEF Goto, Threaded
<1>1. ASSUME pc'[t] \in {"idle", "entering", "checking", "leaving"}
      PROVE  Knows(t)'
  BY <1>1 DEF Knows
<1>2. CASE Invoke(t) \/ Enter(t) \/ Leave(t) \/ Count(t) \/ ClockFails(t) \/ CopyRevision(t)
           \/ GetSchema(t) \/ ReadRevision(t)
  BY <1>1, <1>2 DEF Invoke, Enter, Leave, Count, ClockFails, CopyRevision, GetSchema, ReadRevision
<1>3. CASE CheckPublish(t) \/ CheckDeprecate(t) \/ CheckReplace(t)
  <2>1. /\ pc'[t] \in {"writing", "leaving"}
        /\ UNCHANGED <<schemas, resources, revision, call>>
        /\ pc'[t] = "writing" => Succeeds(call[t].request, call[t].expected)
    BY <1>3, SMTT(60)
    DEF CheckPublish, CheckDeprecate, CheckReplace, Decide, Succeeds, Calling, registryVars, clientVars
  <2>2. pc'[t] = "writing" => Succeeds(call[t].request, call[t].expected)'
    BY <2>1
    DEF Succeeds, Registry!PublishOutcome, Registry!DeprecateOutcome, Registry!CreateOutcome,
        Registry!ReplaceOutcome, Registry!RevisionMatches, Registry!Known, Registry!NotAboveLatest,
        Registry!BreaksLatest, Registry!IsLatest, Registry!KnownVersions, Registry!Readable
  <2> QED
    BY <2>1, <2>2 DEF Knows
<1>4. CASE CheckCreate(t)
  <2>1. /\ pc'[t] \in {"reentering", "leaving"}
        /\ UNCHANGED <<schemas, resources, revision, call>>
        /\ call[t].request.op = "create"
        /\ pc'[t] = "reentering" =>
             /\ resources[call[t].request.ref] = Absent
             /\ Registry!RevisionMatches(call[t].expected)
    BY <1>4 DEF CheckCreate, Calling, registryVars, clientVars, Registry!CreateOutcome
  <2> QED
    BY <2>1 DEF Knows, Registry!RevisionMatches
<1>5. CASE Reenter(t)
  BY <1>5 DEF Reenter, Knows, registryVars, clientVars, Registry!RevisionMatches
<1>6. CASE LookUpSchema(t)
  <2> DEFINE c == call[t].request
  <2>1. /\ pc[t] = "looking" /\ pc'[t] \in {"writing", "leaving"}
        /\ UNCHANGED <<schemas, resources, revision, call>>
        /\ pc'[t] = "writing" => Registry!Readable(c.schema[1], c.schema[2], FALSE)
    BY <1>6 DEF LookUpSchema, registryVars, clientVars
  <2>2. /\ c.op = "create" /\ resources[c.ref] = Absent
        /\ Registry!RevisionMatches(call[t].expected)
    BY <2>1 DEF Knows
  <2>3. pc'[t] = "writing" => Succeeds(c, call[t].expected)
    BY <2>1, <2>2 DEF Succeeds, Registry!CreateOutcome
  <2>4. pc'[t] = "writing" => Succeeds(c, call[t].expected)'
    BY <2>1, <2>3
    DEF Succeeds, Registry!PublishOutcome, Registry!DeprecateOutcome, Registry!CreateOutcome,
        Registry!ReplaceOutcome, Registry!RevisionMatches, Registry!Known, Registry!NotAboveLatest,
        Registry!BreaksLatest, Registry!IsLatest, Registry!KnownVersions, Registry!Readable
  <2> QED
    BY <2>1, <2>4 DEF Knows
<1>7. CASE WritePublication(t) \/ WriteDeprecation(t) \/ WriteCollection(t)
  <2>1. /\ pc[t] = "writing" /\ pc'[t] = "counting" /\ UNCHANGED <<revision, call>>
    BY <1>7 DEF WritePublication, WriteDeprecation, WriteCollection, clientVars
  <2>2. Registry!RevisionMatches(call[t].expected)
    BY <2>1 DEF Knows, Succeeds, Registry!PublishOutcome, Registry!DeprecateOutcome,
                Registry!CreateOutcome, Registry!ReplaceOutcome
  <2> QED
    BY <2>1, <2>2 DEF Knows, Registry!RevisionMatches
<1>8. CASE CopySchemas(t) \/ CopyResources(t)
  <2>1. UNCHANGED <<schemas, resources>>
    BY <1>8 DEF CopySchemas, CopyResources, Copy, registryVars
  <2>2. CASE CopySchemas(t)
    <3>1. pc'[t] = "copying" /\ copied' = [copied EXCEPT ![t]["schemas"] = schemas]
      BY <2>2 DEF CopySchemas, Copy
    <3>2. copied'[t].schemas = schemas
      BY <3>1 DEF Copied
    <3> QED
      BY <2>1, <3>1, <3>2 DEF Knows
  <2>3. CASE CopyResources(t)
    <3>1. /\ pc[t] = "copying" /\ pc'[t] = "copied"
          /\ copied' = [copied EXCEPT ![t]["resources"] = resources]
      BY <2>3 DEF CopyResources, Copy
    <3>2. copied'[t].schemas = copied[t].schemas /\ copied'[t].resources = resources
      BY <3>1 DEF Copied
    <3> QED
      BY <2>1, <3>1, <3>2 DEF Knows
  <2> QED
    BY <1>8, <2>2, <2>3
<1> QED
  BY <1>2, <1>3, <1>4, <1>5, <1>6, <1>7, <1>8 DEF Step

LEMMA ReliedStep ==
  ASSUME Threaded, Locked, Relied, NEW t \in Threads, Invoke(t) \/ Step(t)
  PROVE  Relied'
<1>1. Knows(t)'
  BY KnowsStep DEF Relied
<1>2. \A u \in Threads : u # t => Knows(u)'
  BY OthersStillKnow
<1> QED
  BY <1>1, <1>2 DEF Relied

-----------------------------------------------------------------------------
(* Calls are counted, and the revision counts some of them, so that it stays *)
(* within the bound.                                                         *)
LEMMA EndedIsFinite ==
  /\ IsFiniteSet(Threads \X (1..MaxCalls))
  /\ Cardinality(Threads \X (1..MaxCalls)) = Cardinality(Threads) * MaxCalls
  /\ IsFiniteSet(Ended)
<1>1. IsFiniteSet(1..MaxCalls) /\ Cardinality(1..MaxCalls) = MaxCalls
  BY FS_Interval, CallBound
<1>2. /\ IsFiniteSet(Threads \X (1..MaxCalls))
      /\ Cardinality(Threads \X (1..MaxCalls)) = Cardinality(Threads) * MaxCalls
  BY <1>1, FS_Product, ThreadsAssumption
<1>3. Ended \subseteq Threads \X (1..MaxCalls)
  BY DEF Ended
<1> QED
  BY <1>2, <1>3, FS_Subset

\* A step counts nothing, or it is Count and ends a call that had not ended.
LEMMA EndedGrows ==
  ASSUME Threaded, Registry!TypeOK, NEW t \in Threads, Invoke(t) \/ Step(t)
  PROVE  \/ UNCHANGED revision /\ Ended \subseteq Ended'
         \/ /\ revision' = revision + 1
            /\ Ended \cup {<<t, made[t]>>} \subseteq Ended'
            /\ <<t, made[t]>> \notin Ended
<1> USE DEF Goto
<1>1. \A u \in Threads : u # t => pc'[u] = pc[u] /\ made'[u] = made[u]
  BY OthersStay
<1>2. CASE Invoke(t)
  <2>1. /\ pc[t] = "idle" /\ made'[t] = made[t] + 1 /\ UNCHANGED revision
    BY <1>2 DEF Invoke, Threaded
  <2>2. ASSUME NEW one \in Ended  PROVE one \in Ended'
    <3>1. CASE one[1] = t
      <4>1. one[2] \in 1..MaxCalls /\ one[2] <= made[t] /\ made[t] \in Nat
        BY <3>1 DEF Ended, Threaded
      <4> QED
        BY <2>1, <3>1, <4>1 DEF Ended
    <3>2. CASE one[1] # t
      BY <1>1, <3>2 DEF Ended
    <3> QED
      BY <3>1, <3>2
  <2> QED
    BY <2>1, <2>2
<1>3. CASE Count(t)
  <2>1. /\ pc[t] = "counting" /\ pc'[t] = "leaving" /\ made' = made /\ revision' = revision + 1
    BY <1>3 DEF Count, clientVars, Threaded
  <2>2. made[t] \in 1..MaxCalls
    BY <2>1, CallBound DEF Threaded
  <2>3. Ended \subseteq Ended' /\ <<t, made[t]>> \notin Ended
    BY <1>1, <2>1, <2>2 DEF Ended, Threaded
  <2>4. <<t, made[t]>> \in Ended'
    BY <2>1, <2>2 DEF Ended
  <2> QED
    BY <2>1, <2>3, <2>4
<1>4. ASSUME made' = made, UNCHANGED revision,
             pc[t] \in {"idle", "leaving"} => pc'[t] \in {"idle", "leaving"}
      PROVE  UNCHANGED revision /\ Ended \subseteq Ended'
  BY <1>1, <1>4 DEF Ended, Threaded
<1>5. CASE Enter(t) \/ Leave(t) \/ Reenter(t) \/ LookUpSchema(t) \/ ClockFails(t)
  BY <1>4, <1>5 DEF Enter, Leave, Reenter, LookUpSchema, ClockFails, clientVars, Threaded
<1>6. CASE CheckPublish(t) \/ CheckDeprecate(t) \/ CheckReplace(t) \/ CheckCreate(t)
  BY <1>4, <1>6 DEF CheckPublish, CheckDeprecate, CheckReplace, CheckCreate, Decide, clientVars
<1>7. CASE WritePublication(t) \/ WriteDeprecation(t) \/ WriteCollection(t)
  BY <1>4, <1>7 DEF WritePublication, WriteDeprecation, WriteCollection, clientVars
<1>8. CASE CopySchemas(t) \/ CopyResources(t) \/ CopyRevision(t) \/ GetSchema(t) \/ ReadRevision(t)
  BY <1>4, <1>8 DEF CopySchemas, CopyResources, Copy, CopyRevision, GetSchema, ReadRevision, clientVars
<1> QED
  BY <1>2, <1>3, <1>5, <1>6, <1>7, <1>8 DEF Step

LEMMA BoundedStep ==
  ASSUME Threaded, Registry!TypeOK, Bounded, NEW t \in Threads, Invoke(t) \/ Step(t), Threaded'
  PROVE  Bounded'
<1>1. IsFiniteSet(Ended) /\ Cardinality(Ended) \in Nat
  BY EndedIsFinite, FS_CardinalityType
<1>2. IsFiniteSet(Ended')
  <2>1. Ended' \subseteq Threads \X (1..MaxCalls)
    BY DEF Ended
  <2> QED
    BY <2>1, EndedIsFinite, FS_Subset
<1>3. Cardinality(Ended') \in Nat
  BY <1>2, FS_CardinalityType
<1>4. CASE UNCHANGED revision /\ Ended \subseteq Ended'
  <2>1. Cardinality(Ended) <= Cardinality(Ended')
    BY <1>2, <1>4, FS_Subset
  <2> QED
    BY <1>1, <1>3, <1>4, <2>1 DEF Bounded, Registry!TypeOK
<1>5. CASE /\ revision' = revision + 1
           /\ Ended \cup {<<t, made[t]>>} \subseteq Ended'
           /\ <<t, made[t]>> \notin Ended
  <2>1. Cardinality(Ended \cup {<<t, made[t]>>}) = Cardinality(Ended) + 1
    BY <1>1, <1>5, FS_AddElement
  <2>2. Cardinality(Ended \cup {<<t, made[t]>>}) <= Cardinality(Ended')
    BY <1>2, <1>5, FS_Subset
  <2> QED
    BY <1>1, <1>3, <1>5, <2>1, <2>2 DEF Bounded, Registry!TypeOK
<1> QED
  BY <1>4, <1>5, EndedGrows

-----------------------------------------------------------------------------
(* The history has one entry per revision and never changes one.             *)
LEMMA HistoryGrows ==
  ASSUME Registry!TypeOK, Threaded, Recorded, NEW t \in Threads, Invoke(t) \/ Step(t)
  PROVE  \/ UNCHANGED <<revision, history>>
         \/ /\ revision' = revision + 1
            /\ Len(history') = revision + 2
            /\ \A n \in 1..(revision + 1) : history'[n] = history[n]
            /\ history'[revision + 2].pinned = call[t].expected
            /\ pc[t] = "counting"
<1> USE DEF Goto
<1>1. CASE Count(t)
  <2>1. history' = Append(history, [pinned |-> call[t].expected, schemas |-> schemas,
                                    resources |-> resources])
    BY <1>1 DEF Count
  <2> QED
    BY <1>1, <2>1 DEF Count, Threaded, Recorded, Registry!TypeOK
<1>2. CASE Invoke(t) \/ Enter(t) \/ Leave(t) \/ Reenter(t) \/ LookUpSchema(t) \/ ClockFails(t)
  BY <1>2 DEF Invoke, Enter, Leave, Reenter, LookUpSchema, ClockFails
<1>3. CASE CheckPublish(t) \/ CheckDeprecate(t) \/ CheckReplace(t) \/ CheckCreate(t)
  BY <1>3 DEF CheckPublish, CheckDeprecate, CheckReplace, CheckCreate, Decide
<1>4. CASE WritePublication(t) \/ WriteDeprecation(t) \/ WriteCollection(t)
  BY <1>4 DEF WritePublication, WriteDeprecation, WriteCollection
<1>5. CASE CopySchemas(t) \/ CopyResources(t) \/ CopyRevision(t) \/ GetSchema(t) \/ ReadRevision(t)
  BY <1>5 DEF CopySchemas, CopyResources, Copy, CopyRevision, GetSchema, ReadRevision
<1> QED
  BY <1>1, <1>2, <1>3, <1>4, <1>5 DEF Step

LEMMA RecordedStep ==
  ASSUME Registry!TypeOK, Threaded, Recorded, NEW t \in Threads, Invoke(t) \/ Step(t)
  PROVE  Recorded'
<1> USE DEF Goto
<1>1. CASE Count(t)
  BY <1>1, HistoryGrows DEF Count, Recorded, registryVars, Registry!TypeOK
<1>2. ASSUME UNCHANGED <<schemas, resources, revision, history>>, pc[t] # "counting"
      PROVE  Recorded'
  BY <1>2, OthersStay DEF Recorded
<1>3. CASE Invoke(t) \/ Enter(t) \/ Leave(t) \/ Reenter(t) \/ LookUpSchema(t) \/ ClockFails(t)
  BY <1>2, <1>3 DEF Invoke, Enter, Leave, Reenter, LookUpSchema, ClockFails, registryVars
<1>4. CASE CheckPublish(t) \/ CheckDeprecate(t) \/ CheckReplace(t) \/ CheckCreate(t)
  BY <1>2, <1>4 DEF CheckPublish, CheckDeprecate, CheckReplace, CheckCreate, Decide, registryVars
<1>5. CASE WritePublication(t) \/ WriteDeprecation(t) \/ WriteCollection(t)
  <2>1. pc'[t] = "counting" /\ UNCHANGED <<revision, history>>
    BY <1>5 DEF WritePublication, WriteDeprecation, WriteCollection, Threaded
  <2> QED
    BY <2>1 DEF Recorded
<1>6. CASE CopySchemas(t) \/ CopyResources(t) \/ CopyRevision(t) \/ GetSchema(t) \/ ReadRevision(t)
  BY <1>2, <1>6 DEF CopySchemas, CopyResources, Copy, CopyRevision, GetSchema, ReadRevision, registryVars
<1> QED
  BY <1>1, <1>3, <1>4, <1>5, <1>6 DEF Step

LEMMA PinnedStep ==
  ASSUME Registry!TypeOK, Threaded, Relied, Recorded, PinnedChangeFollowsItsPin,
         NEW t \in Threads, Invoke(t) \/ Step(t)
  PROVE  PinnedChangeFollowsItsPin'
<1>1. CASE UNCHANGED <<revision, history>>
  BY <1>1 DEF PinnedChangeFollowsItsPin
<1>2. CASE /\ revision' = revision + 1
           /\ Len(history') = revision + 2
           /\ \A n \in 1..(revision + 1) : history'[n] = history[n]
           /\ history'[revision + 2].pinned = call[t].expected
           /\ pc[t] = "counting"
  <2>1. call[t].expected \in {AnyRevision, revision}
    BY <1>2 DEF Relied, Knows, Registry!RevisionMatches
  <2>2. ASSUME NEW n \in 2..(revision + 2)  PROVE history'[n].pinned \in {AnyRevision, n - 2}
    <3>1. CASE n = revision + 2
      BY <1>2, <2>1, <3>1 DEF Registry!TypeOK
    <3>2. CASE n \in 2..(revision + 1)
      BY <1>2, <3>2 DEF PinnedChangeFollowsItsPin, Recorded, Registry!TypeOK
    <3> QED
      BY <3>1, <3>2 DEF Registry!TypeOK
  <2> QED
    BY <1>2, <2>2 DEF PinnedChangeFollowsItsPin
<1> QED
  <2>1. \/ UNCHANGED <<revision, history>>
         \/ /\ revision' = revision + 1
            /\ Len(history') = revision + 2
            /\ \A n \in 1..(revision + 1) : history'[n] = history[n]
            /\ history'[revision + 2].pinned = call[t].expected
            /\ pc[t] = "counting"
    BY HistoryGrows
  <2> QED
    BY <1>1, <1>2, <2>1

LEMMA OwnTakenStep ==
  ASSUME Registry!TypeOK, Threaded, Locked, Relied, Recorded,
         NEW t \in Threads, Taken(t), Invoke(t) \/ Step(t)
  PROVE  Taken(t)'
<1> USE DEF Goto
<1>1. ASSUME reply'[t] # "snapshot", pc'[t] \in {"idle", "leaving"} \/ reply'[t] = "none"
      PROVE  Taken(t)'
  BY <1>1 DEF Taken
<1>2. pc[t] \notin {"idle", "leaving"} => reply[t] = "none"
  BY DEF Taken
<1>3. CASE Invoke(t)
  BY <1>1, <1>3 DEF Invoke, Threaded
<1>4. CASE Leave(t)
  BY <1>4 DEF Leave, resultVars, Threaded, Taken
<1>5. CASE Enter(t) \/ Reenter(t) \/ Count(t) \/ ClockFails(t) \/ LookUpSchema(t)
  BY <1>1, <1>2, <1>5 DEF Enter, Reenter, Count, ClockFails, LookUpSchema, Answer, Reply, resultVars,
                          Threaded
<1>6. CASE CheckPublish(t) \/ CheckDeprecate(t) \/ CheckReplace(t) \/ CheckCreate(t)
  BY <1>1, <1>2, <1>6 DEF CheckPublish, CheckDeprecate, CheckReplace, CheckCreate, Decide, Answer,
     Reply, resultVars, Threaded, Registry!PublishOutcome, Registry!DeprecateOutcome,
     Registry!CreateOutcome, Registry!ReplaceOutcome
<1>7. CASE WritePublication(t) \/ WriteDeprecation(t) \/ WriteCollection(t)
  BY <1>1, <1>2, <1>7 DEF WritePublication, WriteDeprecation, WriteCollection, resultVars, Threaded
<1>8. CASE CopySchemas(t) \/ CopyResources(t) \/ GetSchema(t) \/ ReadRevision(t)
  BY <1>1, <1>2, <1>8 DEF CopySchemas, CopyResources, Copy, GetSchema, ReadRevision, Answer, Reply,
     Threaded
<1>9. CASE CopyRevision(t)
  <2>1. /\ pc[t] = "copied" /\ pc'[t] = "leaving" /\ UNCHANGED <<schemas, resources, revision, history>>
        /\ copied' = [copied EXCEPT ![t].revision = revision]
    BY <1>9 DEF CopyRevision, registryVars, Threaded
  <2>2. copied[t].schemas = schemas /\ copied[t].resources = resources
    BY <2>1 DEF Relied, Knows
  <2>3. /\ copied'[t].revision = revision
        /\ copied'[t].schemas = schemas /\ copied'[t].resources = resources
    BY <2>1, <2>2 DEF Threaded, Copied
  <2>4. \A u \in Threads : pc[u] # "counting"
    BY <2>1 DEF Locked, Holding
  <2>5. history[revision + 1].schemas = schemas /\ history[revision + 1].resources = resources
    BY <2>4 DEF Recorded
  <2> QED
    BY <2>1, <2>3, <2>5 DEF Taken, Registry!TypeOK
<1> QED
  BY <1>3, <1>4, <1>5, <1>6, <1>7, <1>8, <1>9 DEF Step

LEMMA TakenStep ==
  ASSUME Registry!TypeOK, Threaded, Locked, Relied, Recorded, AllTaken,
         NEW t \in Threads, Invoke(t) \/ Step(t)
  PROVE  AllTaken'
<1>1. Taken(t)'
  BY OwnTakenStep DEF AllTaken
<1>2. revision \in Nat
  BY DEF Registry!TypeOK
<1>3. /\ revision' >= revision /\ revision' \in Nat
      /\ \A n \in 1..(revision + 1) : history'[n] = history[n]
  BY <1>2, HistoryGrows
<1>4. ASSUME NEW u \in Threads, u # t  PROVE Taken(u)'
  <2>1. reply'[u] = reply[u] /\ copied'[u] = copied[u] /\ pc'[u] = pc[u] /\ Taken(u)
    BY <1>4, OthersStay DEF AllTaken
  <2>2. CASE reply[u] # "snapshot"
    BY <2>1, <2>2 DEF Taken
  <2>3. CASE reply[u] = "snapshot"
    <3>1. /\ copied[u].revision \in 0..revision
          /\ copied[u].schemas = history[copied[u].revision + 1].schemas
          /\ copied[u].resources = history[copied[u].revision + 1].resources
      BY <2>1, <2>3 DEF Taken
    <3>2. /\ copied[u].revision \in 0..revision'
          /\ history'[copied[u].revision + 1] = history[copied[u].revision + 1]
      BY <1>2, <1>3, <3>1
    <3> QED
      BY <2>1, <3>1, <3>2 DEF Taken
  <2> QED
    BY <2>2, <2>3
<1> QED
  BY <1>1, <1>4 DEF AllTaken

-----------------------------------------------------------------------------
LEMMA InitIInv ==
  ASSUME Init
  PROVE  IInv
<1>1. /\ schemas = [id \in SchemaIds |-> [v \in Versions |-> Absent]]
      /\ resources = [r \in Resources |-> Absent]
      /\ revision = 0 /\ waived = {}
  BY DEF Init, Registry!Init
<1>2. Registry!TypeOK
  BY <1>1 DEF Registry!TypeOK
<1>3. Threaded
  <2>1. NoCopy \in Copied
    BY DEF NoCopy, Copied
  <2>2. [pinned |-> AnyRevision, schemas |-> schemas, resources |-> resources] \in Past
    BY <1>2 DEF Past, Expected, AllSchemas, AllResources, Registry!TypeOK
  <2>3. history \in Seq(Past)
    BY <2>2 DEF Init
  <2> QED
    BY <2>1, <2>3, CallBound DEF Init, Threaded, Places, Holding, Replies
<1>4. Locked
  BY DEF Init, Locked, Holding
<1>5. Relied
  BY DEF Init, Relied, Knows
<1>6. Bounded
  <2>1. Cardinality(Ended) \in Nat
    BY EndedIsFinite, FS_CardinalityType
  <2> QED
    BY <1>1, <2>1 DEF Bounded
<1>7. Recorded
  BY <1>1 DEF Init, Recorded
<1>8. AllTaken
  BY DEF Init, AllTaken, Taken
<1>9. PinnedChangeFollowsItsPin
  <2>1. Len(history) = 1
    BY DEF Init
  <2> QED
    BY <2>1 DEF PinnedChangeFollowsItsPin
<1> QED
  BY <1>2, <1>3, <1>4, <1>5, <1>6, <1>7, <1>8, <1>9 DEF IInv

LEMMA StepIInv ==
  ASSUME IInv, [Next]_vars
  PROVE  IInv'
<1> USE DEF IInv
<1>1. CASE Next
  <2>1. PICK t \in Threads : Invoke(t) \/ Step(t)
    BY <1>1 DEF Next
  <2>2. Registry!TypeOK' /\ Threaded' /\ Locked' /\ Relied'
    BY <2>1, RegistryTypeStep, ThreadedStep, LockedStep, ReliedStep
  <2>3. Bounded'
    BY <2>1, <2>2, BoundedStep
  <2>4. Recorded' /\ AllTaken' /\ PinnedChangeFollowsItsPin'
    BY <2>1, RecordedStep, TakenStep, PinnedStep
  <2> QED
    BY <2>2, <2>3, <2>4
<1>2. CASE UNCHANGED vars
  <2> USE <1>2 DEF vars, registryVars, lockVars, clientVars, resultVars
  <2>1. Registry!TypeOK'
    BY DEF Registry!TypeOK
  <2>2. Threaded' /\ Locked'
    BY DEF Threaded, Locked
  <2>3. Relied'
    BY KnowsUnchanged DEF Relied
  <2>4. Bounded'
    BY DEF Bounded, Ended
  <2>5. Recorded' /\ AllTaken' /\ PinnedChangeFollowsItsPin'
    BY DEF Recorded, AllTaken, Taken, PinnedChangeFollowsItsPin
  <2> QED
    BY <2>1, <2>2, <2>3, <2>4, <2>5
<1> QED
  BY <1>1, <1>2

LEMMA IInvAlways == Spec => []IInv
<1>1. Init => IInv
  BY InitIInv
<1>2. IInv /\ [Next]_vars => IInv'
  BY StepIInv
<1> QED
  BY <1>1, <1>2, PTL DEF Spec

-----------------------------------------------------------------------------
(* The variables keep their types, and one thread at a time is past the      *)
(* lock, which every thread that is inside owns.                             *)
THEOREM TypedAndLocked == Spec => [](Registry!TypeOK /\ Threaded /\ Locked)
<1>1. IInv => Registry!TypeOK /\ Threaded /\ Locked
  BY DEF IInv
<1> QED
  BY <1>1, IInvAlways, PTL

(* snapshot() copies its three parts one after the other; what it returns is *)
(* nevertheless the registry of one revision, the one it reports.            *)
THEOREM SnapshotIsOneRevisionAlways == Spec => []SnapshotIsOneRevision
<1>1. IInv => SnapshotIsOneRevision
  BY DEF IInv, AllTaken, Taken, SnapshotIsOneRevision
<1> QED
  BY <1>1, IInvAlways, PTL

(* A change whose caller pinned a revision follows that revision at once.    *)
THEOREM PinnedChangeFollowsItsPinAlways == Spec => []PinnedChangeFollowsItsPin
<1>1. IInv => PinnedChangeFollowsItsPin
  BY DEF IInv
<1> QED
  BY <1>1, IInvAlways, PTL

-----------------------------------------------------------------------------
(* The refinement.  A revision that is about to be counted counts already:   *)
(* the write is the moment an operation takes effect.                        *)
Counting == {t \in Threads : pc[t] = "counting"}

LEMMA AtMostOneCounts ==
  ASSUME Locked
  PROVE  /\ (\A t \in Threads : pc[t] # "counting") => Cardinality(Counting) = 0
         /\ \A t \in Threads : pc[t] = "counting" => Cardinality(Counting) = 1
<1>1. CASE \A t \in Threads : pc[t] # "counting"
  <2>1. Counting = {}
    BY <1>1 DEF Counting
  <2> QED
    BY <1>1, <2>1, FS_EmptySet
<1>2. ASSUME NEW t \in Threads, pc[t] = "counting"
      PROVE  Cardinality(Counting) = 1
  <2>1. Counting = {t}
    BY <1>2 DEF Counting, Locked, Holding
  <2> QED
    BY <2>1, FS_Singleton
<1> QED
  BY <1>1, <1>2

LEMMA InitRefines ==
  ASSUME Init
  PROVE  Atomic!Init
<1>1. Cardinality(Counting) = 0
  BY InitIInv, AtMostOneCounts DEF IInv, Init
<1> QED
  BY <1>1 DEF Init, Registry!Init, Atomic!Init, Counting

\* While a thread writes, the bound on the revision is not yet reached.
LEMMA RoomToCount ==
  ASSUME Registry!TypeOK, Threaded, Bounded, NEW t \in Threads, pc[t] = "writing"
  PROVE  revision < MaxRevision
<1>1. IsFiniteSet(Ended) /\ Cardinality(Ended) \in Nat
  BY EndedIsFinite, FS_CardinalityType
<1>2. <<t, made[t]>> \notin Ended
  BY DEF Ended
<1>3. Ended \cup {<<t, made[t]>>} \subseteq Threads \X (1..MaxCalls)
  BY CallBound DEF Ended, Threaded
<1>4. Cardinality(Ended) + 1 <= Cardinality(Threads) * MaxCalls
  <2>1. Cardinality(Ended \cup {<<t, made[t]>>}) = Cardinality(Ended) + 1
    BY <1>1, <1>2, FS_AddElement
  <2> QED
    BY <1>3, <2>1, EndedIsFinite, FS_Subset
<1>5. Cardinality(Threads) * MaxCalls \in Nat
  BY EndedIsFinite, FS_CardinalityType
<1> QED
  BY <1>1, <1>4, <1>5, CallBound DEF Bounded, Registry!TypeOK

LEMMA WriteRefines ==
  ASSUME IInv, NEW t \in Threads,
         WritePublication(t) \/ WriteDeprecation(t) \/ WriteCollection(t)
  PROVE  Atomic!Next
<1> DEFINE c == call[t].request
           expected == call[t].expected
           counted == revision + Cardinality(Counting)
<1>1. /\ pc[t] = "writing" /\ pc' = [pc EXCEPT ![t] = "counting"]
      /\ revision' = revision /\ revision \in Nat
  BY DEF WritePublication, WriteDeprecation, WriteCollection, Goto, IInv, Registry!TypeOK
<1>2. \A u \in Threads : u # t => pc[u] # "counting"
  BY <1>1 DEF IInv, Locked, Holding
<1>3. Cardinality(Counting) = 0
  BY <1>1, <1>2, AtMostOneCounts DEF IInv
<1>4. Cardinality(Counting') = 1
  <2>1. Counting' = {t}
    BY <1>1, <1>2 DEF Counting, IInv, Threaded
  <2> QED
    BY <2>1, FS_Singleton
<1>5. counted = revision /\ counted' = counted + 1
  BY <1>1, <1>3, <1>4
<1>6. c \in Call /\ Succeeds(c, expected)
  BY <1>1, CallsAssumption DEF IInv, Threaded, Request, Relied, Knows
<1>7. expected \in {AnyRevision, counted}
  BY <1>5, <1>6 DEF Succeeds, Registry!PublishOutcome, Registry!DeprecateOutcome,
              Registry!CreateOutcome, Registry!ReplaceOutcome, Registry!RevisionMatches
<1>8. counted < MaxRevision
  BY <1>1, <1>5, RoomToCount DEF IInv
<1>9. Atomic!RevisionMatches(expected)
  BY <1>7 DEF Atomic!RevisionMatches, Counting
<1>10. expected \in Atomic!Expectations
  BY <1>7 DEF Atomic!Expectations, Counting
<1>11. CASE WritePublication(t)
  <2>1. /\ c.op = "publish" /\ c.id \in SchemaIds /\ c.version \in Versions /\ c.body \in Bodies
        /\ c.allowBreaking \in BOOLEAN
        /\ Registry!PublishOutcome(c.id, c.version, c.body, expected, c.allowBreaking) = "published"
    BY <1>6, <1>11, SMTT(60) DEF WritePublication, Calling, Call, Succeeds
  <2>2. Atomic!PublishOutcome(c.id, c.version, c.body, expected, c.allowBreaking) = "published"
    BY <1>9, <2>1
    DEF Registry!PublishOutcome, Registry!Known, Registry!NotAboveLatest, Registry!BreaksLatest,
        Registry!IsLatest, Registry!KnownVersions, Atomic!PublishOutcome, Atomic!Known,
        Atomic!NotAboveLatest, Atomic!BreaksLatest, Atomic!IsLatest, Atomic!KnownVersions
  <2>3. Atomic!PublishSchema(c.id, c.version, c.body, expected, c.allowBreaking)
    BY <1>5, <1>11, <2>2
    DEF WritePublication, Atomic!PublishSchema, Registry!StorePublication, Atomic!StorePublication,
        Counting
  <2> QED
    BY <1>10, <2>1, <2>3 DEF Atomic!Next
<1>12. CASE WriteDeprecation(t)
  <2>1. /\ c.op = "deprecate" /\ c.id \in SchemaIds /\ c.version \in Versions
        /\ Registry!DeprecateOutcome(c.id, c.version, expected) = "deprecated"
    BY <1>6, <1>12 DEF WriteDeprecation, Calling, Call, Succeeds
  <2>2. Atomic!DeprecateOutcome(c.id, c.version, expected) = "deprecated"
    BY <1>9, <2>1 DEF Registry!DeprecateOutcome, Registry!Known, Atomic!DeprecateOutcome, Atomic!Known
  <2>3. Atomic!DeprecateSchema(c.id, c.version, expected)
    BY <1>5, <1>12, <2>2
    DEF WriteDeprecation, Atomic!DeprecateSchema, Registry!StoreDeprecation, Atomic!StoreDeprecation,
        Counting
  <2> QED
    BY <1>10, <2>1, <2>3 DEF Atomic!Next
<1>13. CASE WriteCollection(t)
  <2>1. CASE c.op = "create"
    <3>1. /\ c.ref \in Resources /\ c.schema \in Atomic!SchemaRefs
          /\ Registry!CreateOutcome(c.ref, c.schema, expected) = "created"
      BY <1>6, <2>1 DEF Call, Succeeds, Registry!SchemaRefs, Atomic!SchemaRefs
    <3>2. Atomic!CreateOutcome(c.ref, c.schema, expected) = "created"
      BY <1>9, <3>1 DEF Registry!CreateOutcome, Registry!Readable, Registry!KnownVersions,
         Registry!Known, Atomic!CreateOutcome, Atomic!Readable, Atomic!KnownVersions, Atomic!Known
    <3>3. Atomic!CreateCollection(c.ref, c.schema, expected)
      BY <1>5, <1>13, <2>1, <3>2
      DEF WriteCollection, Atomic!CreateCollection, Registry!StoreCollection, Atomic!StoreCollection,
          Counting
    <3> QED
      BY <1>10, <3>1, <3>3 DEF Atomic!Next
  <2>2. CASE c.op = "replace"
    <3>1. /\ c.ref \in Resources /\ c.document \in Atomic!Collection
          /\ Registry!ReplaceOutcome(c.ref, expected) = "replaced"
      BY <1>6, <2>2 DEF Call, Succeeds, Registry!Collection, Atomic!Collection, Registry!SchemaRefs,
                        Atomic!SchemaRefs, Registry!CollectionStates, Atomic!CollectionStates
    <3>2. Atomic!ReplaceOutcome(c.ref, expected) = "replaced"
      BY <1>9, <3>1 DEF Registry!ReplaceOutcome, Atomic!ReplaceOutcome
    <3>3. Atomic!ReplaceCollection(c.ref, c.document, expected)
      BY <1>5, <1>8, <1>13, <2>2, <3>2
      DEF WriteCollection, Atomic!ReplaceCollection, Registry!StoreCollection, Atomic!StoreCollection,
          Counting
    <3> QED
      BY <1>10, <3>1, <3>3 DEF Atomic!Next
  <2> QED
    BY <1>13, <2>1, <2>2 DEF WriteCollection, Calling
<1> QED
  BY <1>11, <1>12, <1>13

\* Between two writes the registry stays, and the increment is owed and paid.
LEMMA OtherStepsStutter ==
  ASSUME IInv, NEW t \in Threads, Invoke(t) \/ Step(t),
         ~(WritePublication(t) \/ WriteDeprecation(t) \/ WriteCollection(t))
  PROVE  UNCHANGED Atomic!vars
<1> DEFINE counted == revision + Cardinality(Counting)
<1>1. \A u \in Threads : u # t => pc'[u] = pc[u]
  BY OthersStay DEF IInv
<1>2. ASSUME UNCHANGED <<registryVars, revision>>, pc[t] # "counting", pc'[t] # "counting"
      PROVE  UNCHANGED Atomic!vars
  <2>1. Counting' = Counting
    BY <1>1, <1>2 DEF Counting
  <2> QED
    BY <1>2, <2>1 DEF Atomic!vars, registryVars, Counting
<1>3. CASE Count(t)
  <2>1. /\ UNCHANGED registryVars /\ revision' = revision + 1 /\ revision \in Nat
        /\ pc[t] = "counting" /\ pc' = [pc EXCEPT ![t] = "leaving"]
    BY <1>3 DEF Count, Goto, IInv, Registry!TypeOK
  <2>2. Cardinality(Counting) = 1
    BY <2>1, AtMostOneCounts DEF IInv
  <2>3. Counting' = {}
    BY <1>1, <2>1 DEF Counting, IInv, Threaded, Locked, Holding
  <2>4. Cardinality(Counting') = 0
    BY <2>3, FS_EmptySet
  <2>5. counted' = counted
    BY <2>1, <2>2, <2>4
  <2> QED
    BY <2>1, <2>5 DEF Atomic!vars, registryVars, Counting
<1>4. CASE Invoke(t) \/ Enter(t) \/ Leave(t) \/ Reenter(t) \/ LookUpSchema(t) \/ ClockFails(t)
  BY <1>2, <1>4 DEF Invoke, Enter, Leave, Reenter, LookUpSchema, ClockFails, Goto, IInv, Threaded
<1>5. CASE CheckPublish(t) \/ CheckDeprecate(t) \/ CheckReplace(t) \/ CheckCreate(t)
  BY <1>2, <1>5 DEF CheckPublish, CheckDeprecate, CheckReplace, CheckCreate, Decide, Goto, IInv, Threaded
<1>6. CASE CopySchemas(t) \/ CopyResources(t) \/ CopyRevision(t) \/ GetSchema(t) \/ ReadRevision(t)
  BY <1>2, <1>6 DEF CopySchemas, CopyResources, Copy, CopyRevision, GetSchema, ReadRevision, Goto, IInv,
                    Threaded
<1> QED
  BY <1>3, <1>4, <1>5, <1>6 DEF Step

(* Check, write and increment are one step: under threads the registry goes  *)
(* only through the states its protocol has.                                 *)
THEOREM ThreadsRefineRegistry == Spec => AtomicSpec
<1>1. Init => Atomic!Init
  BY InitRefines
<1>2. IInv /\ [Next]_vars => [Atomic!Next]_(Atomic!vars)
  <2>1. ASSUME IInv, Next  PROVE Atomic!Next \/ UNCHANGED Atomic!vars
    BY <2>1, WriteRefines, OtherStepsStutter DEF Next
  <2>2. ASSUME UNCHANGED vars  PROVE UNCHANGED Atomic!vars
    BY <2>2 DEF vars, registryVars, Atomic!vars
  <2> QED
    BY <2>1, <2>2
<1> QED
  BY <1>1, <1>2, IInvAlways, PTL DEF Spec, AtomicSpec, Atomic!Spec

-----------------------------------------------------------------------------
(* What is proved of MetadataRepository, carried over by the refinement.     *)
Proved == INSTANCE MetadataRepositoryProofs
            WITH revision <- revision + Cardinality({t \in Threads : pc[t] = "counting"})

LEMMA ProvedIsAtomic == AtomicSpec => Proved!Spec
<1>1. Atomic!Init => Proved!Init
  BY DEF Atomic!Init, Proved!Init
<1>2. [Atomic!Next]_(Atomic!vars) => [Proved!Next]_(Proved!vars)
  <2>1. ASSUME Atomic!Next  PROVE Proved!Next
    BY <2>1
      DEF Atomic!Next, Proved!Next, Atomic!Expectations, Proved!Expectations,
          Atomic!SchemaRefs, Proved!SchemaRefs, Atomic!Collection, Proved!Collection,
          Atomic!CollectionStates, Proved!CollectionStates, Atomic!PublishSchema,
          Proved!PublishSchema, Atomic!DeprecateSchema, Proved!DeprecateSchema,
          Atomic!CreateCollection, Proved!CreateCollection, Atomic!ReplaceCollection,
          Proved!ReplaceCollection, Atomic!PublishOutcome, Proved!PublishOutcome,
          Atomic!DeprecateOutcome, Proved!DeprecateOutcome, Atomic!CreateOutcome,
          Proved!CreateOutcome, Atomic!ReplaceOutcome, Proved!ReplaceOutcome,
          Atomic!StorePublication, Proved!StorePublication, Atomic!StoreDeprecation,
          Proved!StoreDeprecation, Atomic!StoreCollection, Proved!StoreCollection,
          Atomic!Known, Proved!Known, Atomic!NotAboveLatest, Proved!NotAboveLatest,
          Atomic!BreaksLatest, Proved!BreaksLatest, Atomic!IsLatest, Proved!IsLatest,
          Atomic!KnownVersions, Proved!KnownVersions, Atomic!Readable, Proved!Readable,
          Atomic!RevisionMatches, Proved!RevisionMatches
  <2>2. ASSUME UNCHANGED Atomic!vars  PROVE UNCHANGED Proved!vars
    BY <2>2 DEF Atomic!vars, Proved!vars
  <2> QED
    BY <2>1, <2>2
<1> QED
  BY <1>1, <1>2, PTL DEF AtomicSpec, Atomic!Spec, Proved!Spec

(* Whatever threads do, no two versions of a Schema have the same            *)
(* precedence, an incompatible successor was published with allow_breaking,  *)
(* a published document stays as it is, and every change has its revision.   *)
THEOREM RegistryUnderThreads ==
  Spec => /\ []Proved!LatestIsUnique
          /\ []Proved!EvolutionIsGuarded
          /\ Proved!PublishedForever
          /\ Proved!RevisionNamesState
<1>1. Rank \in [Versions -> Nat] /\ Breaking \subseteq Bodies \X Bodies
  BY RegistryAssumption
<1>2. MaxRevision \in Nat /\ AnyRevision \notin Nat
  BY RegistryAssumption, CallBound
<1>3. Absent \notin Proved!Publication /\ Absent \notin Proved!Collection
  BY AbsentAssumption
  DEF Registry!Publication, Registry!Collection, Registry!SchemaRefs, Registry!CollectionStates,
      Proved!Publication, Proved!Collection, Proved!SchemaRefs, Proved!CollectionStates
<1>4. Proved!Spec => []Proved!LatestIsUnique
  BY <1>1, <1>2, <1>3, Proved!LatestIsUniqueAlways, PTL
<1>5. Proved!Spec => []Proved!EvolutionIsGuarded
  BY <1>1, <1>2, <1>3, Proved!EvolutionIsGuardedAlways, PTL
<1>6. Proved!Spec => Proved!PublishedForever
  BY <1>1, <1>2, <1>3, Proved!PublishedForeverAlways, PTL
<1>7. Proved!Spec => Proved!RevisionNamesState
  BY <1>1, <1>2, <1>3, Proved!RevisionNamesStateAlways, PTL
<1> QED
  BY <1>4, <1>5, <1>6, <1>7, ThreadsRefineRegistry, ProvedIsAtomic, PTL

-----------------------------------------------------------------------------
(* What CallsReturn rests on, apart from fairness.                           *)

\* A thread that asks for the lock while another one has it.
Waits(t) == pc[t] \in {"entering", "reentering"} /\ ~LockAvailable(t)

(* No thread ever waits inside a call for the lock it holds itself, and as   *)
(* long as some thread is in a call, one of them does not wait: the threads  *)
(* never all wait for each other.                                            *)
NoDeadlock ==
  /\ \A t \in Threads : pc[t] = "reentering" => ~Waits(t)
  /\ (\E t \in Threads : pc[t] # "idle") =>
       \E t \in Threads : pc[t] # "idle" /\ ~Waits(t)

THEOREM ThreadsNeverDeadlock == Spec => []NoDeadlock
<1>1. IInv => NoDeadlock
  <2> SUFFICES ASSUME IInv PROVE NoDeadlock
    OBVIOUS
  <2>1. \A t \in Threads : pc[t] = "reentering" => ~Waits(t)
    BY DEF IInv, Locked, Holding, Waits, LockAvailable
  <2>2. ASSUME NEW t \in Threads, pc[t] # "idle"
        PROVE  \E u \in Threads : pc[u] # "idle" /\ ~Waits(u)
    <3>1. CASE owner = Nobody
      BY <2>2, <3>1 DEF Waits, LockAvailable
    <3>2. CASE owner # Nobody
      <4>1. owner \in Threads /\ pc[owner] \in Holding
        BY <3>2 DEF IInv, Locked
      <4>2. pc[owner] # "idle" /\ ~Waits(owner)
        BY <4>1 DEF Holding, Waits, LockAvailable
      <4> QED
        BY <4>1, <4>2
    <3> QED
      BY <3>1, <3>2
  <2> QED
    BY <2>1, <2>2 DEF NoDeadlock
<1> QED
  BY <1>1, IInvAlways, PTL

\* How many steps of a call are ahead, at most.
StepsLeft(place) ==
  CASE place = "entering"               -> 7
    [] place = "checking"               -> 6
    [] place = "reentering"             -> 5
    [] place = "looking"                -> 4
    [] place \in {"writing", "copying"} -> 3
    [] place \in {"counting", "copied"} -> 2
    [] place = "leaving"                -> 1
    [] OTHER                            -> 0

(* A call runs down: each step of its thread brings it nearer to its return, *)
(* and no step of another thread changes where it is.                        *)
RunsDown ==
  \A t \in Threads :
    /\ Step(t) => StepsLeft(pc'[t]) < StepsLeft(pc[t])
    /\ pc[t] # "idle" => Step(t) \/ pc'[t] = pc[t]

LEMMA StepRunsOn ==
  ASSUME Threaded, NEW t \in Threads, Step(t)
  PROVE  StepsLeft(pc'[t]) < StepsLeft(pc[t])
<1>1. DOMAIN pc = Threads
  BY DEF Threaded
<1> USE <1>1 DEF Goto, StepsLeft
<1>2. CASE Enter(t) \/ Leave(t) \/ Count(t)
  BY <1>2 DEF Enter, Leave, Count
<1>3. ASSUME NEW outcome, NEW success, Decide(t, outcome, success)
      PROVE  StepsLeft(pc'[t]) < StepsLeft(pc[t])
  BY <1>3 DEF Decide
<1>4. CASE CheckPublish(t) \/ CheckDeprecate(t) \/ CheckReplace(t)
  BY <1>3, <1>4 DEF CheckPublish, CheckDeprecate, CheckReplace
<1>5. CASE WritePublication(t) \/ WriteDeprecation(t) \/ WriteCollection(t) \/ ClockFails(t)
  BY <1>5 DEF WritePublication, WriteDeprecation, WriteCollection, ClockFails
<1>6. CASE CheckCreate(t) \/ Reenter(t)
  BY <1>6 DEF CheckCreate, Reenter
<1>7. CASE LookUpSchema(t)
  <2>1. Goto(t, "looking", "writing") \/ Goto(t, "looking", "leaving")
    BY <1>7 DEF LookUpSchema
  <2> QED
    BY <2>1
<1>8. CASE CopySchemas(t) \/ CopyResources(t) \/ CopyRevision(t)
  <2>1. \/ Goto(t, "checking", "copying") \/ Goto(t, "copying", "copied")
        \/ Goto(t, "copied", "leaving")
    BY <1>8 DEF CopySchemas, CopyResources, Copy, CopyRevision
  <2> QED
    BY <2>1
<1>9. CASE GetSchema(t) \/ ReadRevision(t)
  <2>1. Goto(t, "checking", "leaving")
    BY <1>9 DEF GetSchema, ReadRevision
  <2> QED
    BY <2>1
<1> QED
  BY <1>2, <1>4, <1>5, <1>6, <1>7, <1>8, <1>9 DEF Step

THEOREM CallsRunDown == Spec => [][RunsDown]_vars
<1>1. IInv /\ [Next]_vars => [RunsDown]_vars
  <2> SUFFICES ASSUME IInv, Next, NEW t \in Threads
               PROVE  /\ Step(t) => StepsLeft(pc'[t]) < StepsLeft(pc[t])
                      /\ pc[t] # "idle" => Step(t) \/ pc'[t] = pc[t]
    BY DEF RunsDown
  <2>1. Step(t) => StepsLeft(pc'[t]) < StepsLeft(pc[t])
    BY StepRunsOn DEF IInv
  <2>2. PICK u \in Threads : Invoke(u) \/ Step(u)
    BY DEF Next
  <2>3. CASE u = t
    <3>1. Invoke(t) => pc[t] = "idle"
      BY DEF Invoke, Goto
    <3> QED
      BY <2>1, <2>2, <2>3, <3>1
  <2>4. CASE u # t
    <3>1. pc'[t] = pc[t]
      BY <2>2, <2>4, OthersStay DEF IInv
    <3> QED
      BY <2>1, <3>1
  <2> QED
    BY <2>3, <2>4
<1> QED
  BY <1>1, IInvAlways, PTL DEF Spec
=============================================================================
