----------------------- MODULE ResourceActivationProofs -----------------------
(***************************************************************************)
(* Who owns a Collection while it is being created, and what backs it      *)
(* afterwards, for any number of callers, Collections and Schemas.         *)
(***************************************************************************)
EXTENDS LiveBundle, TLAPS

Request == [ref : Resources, schema : Registry!SchemaRefs]

Typed ==
  /\ resources \in [Resources -> Registry!Collection \cup {Absent}]
  /\ DOMAIN pc = Callers /\ DOMAIN request = Callers
  /\ \A c \in Callers : pc[c] # "idle" => request[c] \in Request
  /\ DOMAIN physical = Resources

(* A caller on its way to activate has an Adapter that applied its plan.     *)
Applied ==
  \A c \in Callers : pc[c] = "activating" => physical[request[c].ref] = request[c].schema

Inv == Typed /\ ActivationOwnsItsCollection /\ Applied /\ ActivatedIsApplied

-----------------------------------------------------------------------------
(* What a create writes is a Collection document, and none is Absent.        *)
LEMMA MarkedIsADocument ==
  ASSUME NEW c \in Callers, request[c] \in Request,
         NEW state \in Registry!CollectionStates
  PROVE  Marked(c, state) \in Registry!Collection /\ Marked(c, state) # Absent
<1>1. Marked(c, state) \in Registry!Collection
  BY DEF Marked, Request, Registry!Collection
<1> QED
  BY <1>1, DocumentAssumption

LEMMA InitInv == Init => Inv
<1> SUFFICES ASSUME Init PROVE Inv
  OBVIOUS
<1>1. \A c \in Callers : pc[c] = "idle"
  BY DEF Init
<1>2. \A r \in Resources : resources[r] = Absent
  BY DEF Init, Registry!Init
<1>3. Typed
  <2>1. resources \in [Resources -> Registry!Collection \cup {Absent}]
    BY DEF Init, Registry!Init
  <2>2. DOMAIN pc = Callers /\ DOMAIN request = Callers /\ DOMAIN physical = Resources
    BY DEF Init
  <2> QED
    BY <1>1, <2>1, <2>2 DEF Typed
<1>4. ActivatedIsApplied
  BY <1>2 DEF ActivatedIsApplied, State
<1> QED
  BY <1>1, <1>3, <1>4 DEF Inv, Applied, ActivationOwnsItsCollection

(* A create begins for a Collection nobody else is creating: there was none. *)
LEMMA RegisterInv ==
  ASSUME Inv, NEW c \in Callers, NEW r \in Resources, NEW schema \in Registry!SchemaRefs,
         NEW expected, Register(c, r, schema, expected)
  PROVE  Inv'
<1> DEFINE document == [schema |-> schema, state |-> "PROVISIONING"]
<1>1. /\ pc[c] = "idle" /\ physical' = physical
      /\ request' = [request EXCEPT ![c] = [ref |-> r, schema |-> schema]]
  BY DEF Register
<1>2. document \in Registry!Collection
  BY DEF Registry!Collection, Registry!CollectionStates
<1>3. CASE /\ Registry!CreateCollection(r, schema, expected)
           /\ Goto(c, "idle", "registered")
  <2>1. /\ resources[r] = Absent
        /\ resources' = [resources EXCEPT ![r] = document]
        /\ pc' = [pc EXCEPT ![c] = "registered"]
    BY <1>3 DEF Registry!CreateCollection, Registry!CreateOutcome, Registry!StoreCollection, Goto
  <2>2. Typed'
    <3>1. resources' \in [Resources -> Registry!Collection \cup {Absent}]
      BY <1>2, <2>1 DEF Inv, Typed
    <3>2. /\ DOMAIN pc' = Callers /\ DOMAIN request' = Callers
          /\ DOMAIN physical' = Resources
      BY <1>1, <2>1 DEF Inv, Typed
    <3>3. ASSUME NEW d \in Callers, pc'[d] # "idle" PROVE request'[d] \in Request
      <4>1. CASE d = c
        BY <1>1, <4>1 DEF Inv, Typed, Request
      <4>2. CASE d # c
        BY <1>1, <2>1, <3>3, <4>2 DEF Inv, Typed
      <4> QED
        BY <4>1, <4>2
    <3> QED
      BY <3>1, <3>2, <3>3 DEF Typed
  <2>3. ASSUME NEW d \in Callers, pc[d] # "idle"
        PROVE  request[d].ref # r /\ request[d] \in Request
    <3>1. request[d] \in Request /\ resources[request[d].ref] = Marked(d, "PROVISIONING")
      BY <2>3 DEF Inv, Typed, ActivationOwnsItsCollection
    <3>2. Marked(d, "PROVISIONING") # Absent
      BY <3>1, MarkedIsADocument DEF Registry!CollectionStates
    <3> QED
      BY <2>1, <3>1, <3>2
  <2>4. ActivationOwnsItsCollection'
    <3>1. ASSUME NEW d \in Callers, pc'[d] # "idle"
          PROVE  resources'[request'[d].ref] = Marked(d, "PROVISIONING")'
      <4>1. CASE d = c
        BY <1>1, <2>1, <4>1 DEF Inv, Typed, Marked
      <4>2. CASE d # c
        <5>1. pc[d] # "idle" /\ request'[d] = request[d]
          BY <1>1, <2>1, <3>1, <4>2 DEF Inv, Typed
        <5>2. request[d].ref # r /\ request[d].ref \in Resources
          BY <2>3, <5>1 DEF Request
        <5>3. resources[request[d].ref] = Marked(d, "PROVISIONING")
          BY <5>1 DEF Inv, ActivationOwnsItsCollection
        <5> QED
          BY <2>1, <5>1, <5>2, <5>3 DEF Marked
      <4> QED
        BY <4>1, <4>2
    <3>2. ASSUME NEW d \in Callers, NEW e \in Callers, pc'[d] # "idle", pc'[e] # "idle", d # e
          PROVE  request'[d].ref # request'[e].ref
      <4>1. \A x \in Callers \ {c} : pc'[x] = pc[x] /\ request'[x] = request[x]
        BY <1>1, <2>1 DEF Inv, Typed
      <4>2. request'[c].ref = r
        BY <1>1 DEF Inv, Typed
      <4> QED
        BY <2>3, <3>2, <4>1, <4>2 DEF Inv, ActivationOwnsItsCollection
    <3> QED
      BY <3>1, <3>2 DEF ActivationOwnsItsCollection
  <2>5. Applied'
    <3> SUFFICES ASSUME NEW d \in Callers, pc'[d] = "activating"
                 PROVE  physical'[request'[d].ref] = request'[d].schema
      BY DEF Applied
    <3>1. d # c /\ pc[d] = "activating" /\ request'[d] = request[d]
      BY <1>1, <2>1 DEF Inv, Typed
    <3> QED
      BY <1>1, <3>1 DEF Inv, Applied
  <2>6. ActivatedIsApplied'
    BY <1>1, <2>1 DEF Inv, Typed, ActivatedIsApplied, State
  <2> QED
    BY <2>2, <2>4, <2>5, <2>6 DEF Inv
<1>4. CASE \E outcome : Return(c, "idle", outcome) /\ UNCHANGED registryVars
  <2>1. /\ resources' = resources /\ DOMAIN pc' = Callers
        /\ \A d \in Callers : pc'[d] = pc[d]
    BY <1>1, <1>4 DEF Return, Goto, registryVars, Inv, Typed
  <2>2. DOMAIN request' = Callers /\ \A d \in Callers : pc[d] # "idle" => request'[d] = request[d]
    BY <1>1 DEF Inv, Typed
  <2>3. Typed'
    BY <1>1, <2>1, <2>2 DEF Inv, Typed
  <2>4. ActivationOwnsItsCollection' /\ Applied' /\ ActivatedIsApplied'
    BY <1>1, <2>1, <2>2 DEF Inv, ActivationOwnsItsCollection, Applied, ActivatedIsApplied, State, Marked
  <2> QED
    BY <2>3, <2>4 DEF Inv
<1> QED
  BY <1>3, <1>4 DEF Register

(* A step of one create that touches no document, and the Engine only for    *)
(* its own Collection.                                                       *)
LEMMA StepInside ==
  ASSUME Inv, NEW c \in Callers, pc[c] # "idle", NEW stage,
         pc' = [pc EXCEPT ![c] = stage], UNCHANGED <<resources, request>>,
         DOMAIN physical' = Resources,
         \A r \in Resources : r # request[c].ref => physical'[r] = physical[r],
         stage = "activating" => physical'[request[c].ref] = request[c].schema
  PROVE  Inv'
<1>1. \A d \in Callers \ {c} : pc'[d] = pc[d]
  BY DEF Inv, Typed
<1>2. pc'[c] = stage
  BY DEF Inv, Typed
<1>3. \A d \in Callers : pc'[d] # "idle" => pc[d] # "idle"
  BY <1>1
<1>4. Typed'
  BY <1>3 DEF Inv, Typed
<1>5. ActivationOwnsItsCollection'
  BY <1>3 DEF Inv, ActivationOwnsItsCollection, Marked
<1>6. Applied'
  <2> SUFFICES ASSUME NEW d \in Callers, pc'[d] = "activating"
               PROVE  physical'[request[d].ref] = request[d].schema
    BY DEF Applied
  <2>1. CASE d = c
    BY <1>2, <2>1
  <2>2. CASE d # c
    <3>1. pc[d] = "activating"
      BY <1>1, <2>2
    <3>2. request[d].ref # request[c].ref /\ request[d].ref \in Resources
      BY <2>2, <3>1 DEF Inv, Typed, ActivationOwnsItsCollection, Request
    <3> QED
      BY <3>1, <3>2 DEF Inv, Applied
  <2> QED
    BY <2>1, <2>2
<1>7. ActivatedIsApplied'
  <2> SUFFICES ASSUME NEW r \in Resources, State(r) \in {"ACTIVE", "MIGRATING", "DEPRECATED"}
               PROVE  physical'[r] = resources[r].schema
    BY DEF ActivatedIsApplied, State
  <2>1. State(request[c].ref) = "PROVISIONING"
    <3>1. request[c] \in Request /\ resources[request[c].ref] = Marked(c, "PROVISIONING")
      BY DEF Inv, Typed, ActivationOwnsItsCollection
    <3>2. Marked(c, "PROVISIONING") # Absent
      BY <3>1, MarkedIsADocument DEF Registry!CollectionStates
    <3>3. Marked(c, "PROVISIONING").state = "PROVISIONING"
      BY DEF Marked
    <3> QED
      BY <3>1, <3>2, <3>3 DEF State
  <2>2. r # request[c].ref
    BY <2>1
  <2> QED
    BY <2>2 DEF Inv, ActivatedIsApplied
<1> QED
  BY <1>4, <1>5, <1>6, <1>7 DEF Inv

(* The end of a create writes its own Collection and no other.               *)
LEMMA SettleInv ==
  ASSUME Inv, NEW c \in Callers, NEW from, pc[c] # "idle",
         NEW state \in {"ACTIVE", "PROVISIONING_FAILED"}, NEW outcome,
         state = "ACTIVE" => pc[c] = "activating",
         Settle(c, from, state, outcome)
  PROVE  Inv'
<1>1. /\ resources' = [resources EXCEPT ![request[c].ref] = Marked(c, state)]
      /\ pc' = [pc EXCEPT ![c] = "idle"]
      /\ request' = request /\ physical' = physical
  BY DEF Settle, Registry!ReplaceCollection, Registry!StoreCollection, Return, Goto
<1>2. request[c] \in Request /\ request[c].ref \in Resources
  BY DEF Inv, Typed, Request
<1>3. Marked(c, state) \in Registry!Collection
  BY <1>2, MarkedIsADocument DEF Registry!CollectionStates
<1>4. ASSUME NEW d \in Callers, pc'[d] # "idle"
      PROVE  pc[d] # "idle" /\ pc'[d] = pc[d] /\ d # c /\ request[d].ref # request[c].ref
             /\ request[d].ref \in Resources
  BY <1>1, <1>4 DEF Inv, Typed, ActivationOwnsItsCollection, Request
<1>5. Typed'
  BY <1>1, <1>3, <1>4 DEF Inv, Typed
<1>6. ActivationOwnsItsCollection'
  <2>1. ASSUME NEW d \in Callers, pc'[d] # "idle"
        PROVE  resources'[request[d].ref] = Marked(d, "PROVISIONING")
    <3>1. resources[request[d].ref] = Marked(d, "PROVISIONING")
      BY <1>4, <2>1 DEF Inv, ActivationOwnsItsCollection
    <3> QED
      BY <1>1, <1>4, <2>1, <3>1
  <2>2. ASSUME NEW d \in Callers, NEW e \in Callers, pc'[d] # "idle", pc'[e] # "idle", d # e
        PROVE  request[d].ref # request[e].ref
    BY <1>4, <2>2 DEF Inv, ActivationOwnsItsCollection
  <2> QED
    BY <1>1, <2>1, <2>2 DEF ActivationOwnsItsCollection, Marked
<1>7. Applied'
  BY <1>1, <1>4 DEF Inv, Applied
<1>8. ActivatedIsApplied'
  <2> SUFFICES ASSUME NEW r \in Resources,
                      resources'[r] # Absent, resources'[r].state \in {"ACTIVE", "MIGRATING", "DEPRECATED"}
               PROVE  physical[r] = resources'[r].schema
    BY <1>1 DEF ActivatedIsApplied, State
  <2>1. CASE r = request[c].ref
    <3>1. resources'[r] = Marked(c, state)
      BY <1>1, <2>1 DEF Inv, Typed
    <3>2. state = "ACTIVE"
      BY <3>1 DEF Marked
    <3> QED
      BY <2>1, <3>1, <3>2 DEF Inv, Applied, Marked
  <2>2. CASE r # request[c].ref
    <3>1. resources'[r] = resources[r]
      BY <1>1, <2>2 DEF Inv, Typed
    <3> QED
      BY <3>1 DEF Inv, ActivatedIsApplied, State
  <2> QED
    BY <2>1, <2>2
<1> QED
  BY <1>5, <1>6, <1>7, <1>8 DEF Inv

LEMMA CreateInv ==
  ASSUME Inv, NEW c \in Callers, Create(c)
  PROVE  Inv'
<1>0. DOMAIN physical = Resources
  BY DEF Inv, Typed
<1>1. CASE LookUpTarget(c)
  <2>1. PICK stage \in {"idle", "preparing"} : pc' = [pc EXCEPT ![c] = stage]
    BY <1>1 DEF LookUpTarget, Return, Goto
  <2>2. pc[c] # "idle" /\ UNCHANGED <<resources, request, physical>>
    BY <1>1 DEF LookUpTarget, registryVars
  <2> QED
    BY <1>0, <2>1, <2>2, StepInside
<1>2. CASE Prepare(c)
  <2>1. PICK stage \in {"applying", "failing"} : pc' = [pc EXCEPT ![c] = stage]
    BY <1>2 DEF Prepare, Goto
  <2>2. pc[c] # "idle" /\ UNCHANGED <<resources, request, physical>>
    BY <1>2 DEF Prepare, Goto, registryVars
  <2> QED
    BY <1>0, <2>1, <2>2, StepInside
<1>3. CASE ApplyRaises(c)
  <2>1. pc' = [pc EXCEPT ![c] = "failing"]
    BY <1>3 DEF ApplyRaises, Goto
  <2>2. pc[c] # "idle" /\ UNCHANGED <<resources, request>>
    BY <1>3 DEF ApplyRaises, Goto, registryVars
  <2>3. DOMAIN physical' = Resources
        /\ \A r \in Resources : r # request[c].ref => physical'[r] = physical[r]
    BY <1>0, <1>3 DEF ApplyRaises
  <2> QED
    BY <2>1, <2>2, <2>3, StepInside
<1>4. ASSUME NEW matches \in BOOLEAN, ApplyReturns(c, matches) PROVE Inv'
  <2> DEFINE stage == IF matches THEN "activating" ELSE "failing"
  <2>1. pc' = [pc EXCEPT ![c] = stage]
    BY <1>4 DEF ApplyReturns, Goto
  <2>2. pc[c] # "idle" /\ UNCHANGED <<resources, request>>
    BY <1>4 DEF ApplyReturns, Goto, registryVars
  <2>3. DOMAIN physical' = Resources
        /\ \A r \in Resources : r # request[c].ref => physical'[r] = physical[r]
    BY <1>0, <1>4 DEF ApplyReturns
  <2>4. stage = "activating" => physical'[request[c].ref] = request[c].schema
    <3>1. request[c].ref \in Resources
      BY <2>2 DEF Inv, Typed, Request
    <3> QED
      BY <1>0, <1>4, <3>1 DEF ApplyReturns
  <2> HIDE DEF stage
  <2> QED
    BY <2>1, <2>2, <2>3, <2>4, StepInside
<1>5. CASE Activate(c)
  BY <1>5, SettleInv DEF Activate
<1>6. CASE Fail(c)
  BY <1>6, SettleInv DEF Fail
<1> QED
  BY <1>1, <1>2, <1>3, <1>4, <1>5, <1>6 DEF Create

(* Managing concerns a Collection that was activated: no create owns it.     *)
LEMMA ManageInv ==
  ASSUME Inv, NEW r \in Resources, NEW state \in Registry!CollectionStates, Manage(r, state)
  PROVE  Inv'
<1> DEFINE document == [resources[r] EXCEPT !.state = state]
<1>1. /\ resources[r] # Absent /\ resources[r].state \in {"ACTIVE", "MIGRATING"}
      /\ state \in {"ACTIVE", "MIGRATING", "DEPRECATED"}
      /\ resources' = [resources EXCEPT ![r] = document]
      /\ UNCHANGED <<pc, request, physical>>
  BY DEF Manage, Managed, Registry!ReplaceCollection, Registry!StoreCollection
<1>2. resources[r] \in Registry!Collection
  BY <1>1 DEF Inv, Typed
<1>3. document \in Registry!Collection /\ document.schema = resources[r].schema
  BY <1>2 DEF Registry!Collection
<1>4. Typed'
  BY <1>1, <1>3 DEF Inv, Typed
<1>5. ActivationOwnsItsCollection'
  <2>1. ASSUME NEW c \in Callers, pc[c] # "idle"
        PROVE  resources'[request[c].ref] = Marked(c, "PROVISIONING")
    <3>1. resources[request[c].ref] = Marked(c, "PROVISIONING") /\ request[c].ref \in Resources
      BY <2>1 DEF Inv, Typed, ActivationOwnsItsCollection, Request
    <3>2. request[c].ref # r
      BY <1>1, <3>1 DEF Marked
    <3> QED
      BY <1>1, <3>1, <3>2
  <2> QED
    BY <1>1, <2>1 DEF Inv, ActivationOwnsItsCollection, Marked
<1>6. Applied'
  BY <1>1 DEF Inv, Applied
<1>7. ActivatedIsApplied'
  <2> SUFFICES ASSUME NEW s \in Resources,
                      resources'[s] # Absent, resources'[s].state \in {"ACTIVE", "MIGRATING", "DEPRECATED"}
               PROVE  physical[s] = resources'[s].schema
    BY <1>1 DEF ActivatedIsApplied, State
  <2>1. CASE s = r
    <3>1. physical[r] = resources[r].schema
      BY <1>1 DEF Inv, ActivatedIsApplied, State
    <3>2. resources'[r] = document
      BY <1>1 DEF Inv, Typed
    <3> QED
      BY <1>3, <2>1, <3>1, <3>2
  <2>2. CASE s # r
    <3>1. resources'[s] = resources[s]
      BY <1>1, <2>2 DEF Inv, Typed
    <3> QED
      BY <3>1 DEF Inv, ActivatedIsApplied, State
  <2> QED
    BY <2>1, <2>2
<1> QED
  BY <1>4, <1>5, <1>6, <1>7 DEF Inv

(* The Schemas do not appear in the invariant.                               *)
LEMMA ElsewhereInv ==
  ASSUME Inv, UNCHANGED <<resources, pc, request, physical>>
  PROVE  Inv'
BY DEF Inv, Typed, ActivationOwnsItsCollection, Applied, ActivatedIsApplied, State, Marked

LEMMA InvariantHolds == Spec => []Inv
<1>1. Inv /\ [Next]_vars => Inv'
  <2> SUFFICES ASSUME Inv, [Next]_vars PROVE Inv'
    OBVIOUS
  <2>1. ASSUME NEW c \in Callers, NEW r \in Resources, NEW schema \in Registry!SchemaRefs,
               NEW expected \in {AnyRevision} \cup 0..revision, Register(c, r, schema, expected)
        PROVE  Inv'
    BY <2>1, RegisterInv
  <2>2. ASSUME NEW c \in Callers, Create(c) PROVE Inv'
    BY <2>2, CreateInv
  <2>3. ASSUME NEW id \in SchemaIds, NEW v \in Versions, NEW body \in Bodies, Publish(id, v, body)
        PROVE  Inv'
    BY <2>3, ElsewhereInv DEF Publish, Registry!PublishSchema
  <2>4. ASSUME NEW id \in SchemaIds, NEW v \in Versions, Deprecate(id, v) PROVE Inv'
    BY <2>4, ElsewhereInv DEF Deprecate, Registry!DeprecateSchema
  <2>5. ASSUME NEW r \in Resources, NEW state \in Registry!CollectionStates, Manage(r, state)
        PROVE  Inv'
    BY <2>5, ManageInv
  <2>6. CASE UNCHANGED vars
    BY <2>6, ElsewhereInv DEF vars, registryVars
  <2> QED
    BY <2>1, <2>2, <2>3, <2>4, <2>5, <2>6 DEF Next
<1> QED
  BY <1>1, InitInv, PTL DEF Spec

-----------------------------------------------------------------------------
(* However many callers race, the unpinned replacements of a create hit the  *)
(* document it registered itself.                                            *)
THEOREM ActivationOwnsItsCollectionAlways == Spec => []ActivationOwnsItsCollection
<1>1. Inv => ActivationOwnsItsCollection
  BY DEF Inv
<1> QED
  BY <1>1, InvariantHolds, PTL

(* However the Adapter fails or misreports, an ACTIVE Collection is one it   *)
(* has activated with the Schema the document pins.                          *)
THEOREM ActivatedIsAppliedAlways == Spec => []ActivatedIsApplied
<1>1. Inv => ActivatedIsApplied
  BY DEF Inv
<1> QED
  BY <1>1, InvariantHolds, PTL

-----------------------------------------------------------------------------
Moves == \A r \in Resources : State(r)' # State(r) => <<State(r), State(r)'>> \in StateMoves

(* The one Collection an action writes goes from its state to that of the    *)
(* document that is stored.                                                  *)
LEMMA OneMoves ==
  ASSUME Typed, NEW r \in Resources, NEW document \in Registry!Collection,
         resources' = [resources EXCEPT ![r] = document],
         <<State(r), document.state>> \in StateMoves
  PROVE  Moves
<1> SUFFICES ASSUME NEW s \in Resources, State(s)' # State(s)
             PROVE  <<State(s), State(s)'>> \in StateMoves
  BY DEF Moves
<1>1. CASE s = r
  <2>1. resources'[r] = document /\ document # Absent
    BY DocumentAssumption DEF Typed
  <2>2. State(r)' = document.state
    BY <2>1 DEF State
  <2> QED
    BY <1>1, <2>2
<1>2. CASE s # r
  <2>1. resources'[s] = resources[s]
    BY <1>2 DEF Typed
  <2> QED
    BY <2>1 DEF State
<1> QED
  BY <1>1, <1>2

LEMMA StayMoves ==
  ASSUME resources' = resources
  PROVE  Moves
BY DEF Moves, State

LEMMA SettleMoves ==
  ASSUME Inv, NEW c \in Callers, NEW from, pc[c] # "idle",
         NEW state \in {"ACTIVE", "PROVISIONING_FAILED"}, NEW outcome,
         Settle(c, from, state, outcome)
  PROVE  Moves
<1>1. resources' = [resources EXCEPT ![request[c].ref] = Marked(c, state)]
  BY DEF Settle, Registry!ReplaceCollection, Registry!StoreCollection
<1>2. request[c] \in Request /\ request[c].ref \in Resources
      /\ resources[request[c].ref] = Marked(c, "PROVISIONING")
  BY DEF Inv, Typed, Request, ActivationOwnsItsCollection
<1>3. Marked(c, state) \in Registry!Collection /\ Marked(c, "PROVISIONING") # Absent
  BY <1>2, MarkedIsADocument DEF Registry!CollectionStates
<1>4. State(request[c].ref) = "PROVISIONING" /\ Marked(c, state).state = state
  BY <1>2, <1>3 DEF State, Marked
<1>5. <<"PROVISIONING", state>> \in StateMoves
  BY DEF StateMoves
<1> QED
  BY <1>1, <1>2, <1>3, <1>4, <1>5, OneMoves DEF Inv

LEMMA RegisterMoves ==
  ASSUME Inv, NEW c \in Callers, NEW r \in Resources, NEW schema \in Registry!SchemaRefs,
         NEW expected, Register(c, r, schema, expected)
  PROVE  Moves
<1> DEFINE document == [schema |-> schema, state |-> "PROVISIONING"]
<1>1. CASE Registry!CreateCollection(r, schema, expected)
  <2>1. resources[r] = Absent /\ resources' = [resources EXCEPT ![r] = document]
    BY <1>1 DEF Registry!CreateCollection, Registry!CreateOutcome, Registry!StoreCollection
  <2>2. document \in Registry!Collection
    BY DEF Registry!Collection, Registry!CollectionStates
  <2>3. <<State(r), document.state>> \in StateMoves
    BY <2>1 DEF State, StateMoves
  <2> QED
    BY <2>1, <2>2, <2>3, OneMoves DEF Inv
<1>2. CASE UNCHANGED registryVars
  BY <1>2, StayMoves DEF registryVars
<1> QED
  BY <1>1, <1>2 DEF Register

LEMMA ManageMoves ==
  ASSUME Inv, NEW r \in Resources, NEW state \in Registry!CollectionStates, Manage(r, state)
  PROVE  Moves
<1> DEFINE document == [resources[r] EXCEPT !.state = state]
<1>1. /\ resources[r] # Absent /\ <<resources[r].state, state>> \in Managed
      /\ resources' = [resources EXCEPT ![r] = document]
  BY DEF Manage, Registry!ReplaceCollection, Registry!StoreCollection
<1>2. resources[r] \in Registry!Collection
  BY <1>1 DEF Inv, Typed
<1>3. document \in Registry!Collection /\ document.state = state
  BY <1>2 DEF Registry!Collection
<1>4. <<State(r), document.state>> \in StateMoves
  BY <1>1, <1>3 DEF State, StateMoves
<1> QED
  BY <1>1, <1>3, <1>4, OneMoves DEF Inv

(* Whatever the callers, the Adapter and the tools do, a Collection moves    *)
(* from state to state in one direction.                                     *)
THEOREM StatesMoveOnAlways == Spec => StatesMoveOn
<1>1. Inv /\ [Next]_vars => [Moves]_vars
  <2> SUFFICES ASSUME Inv, [Next]_vars PROVE Moves
    OBVIOUS
  <2>1. ASSUME NEW c \in Callers, NEW r \in Resources, NEW schema \in Registry!SchemaRefs,
               NEW expected \in {AnyRevision} \cup 0..revision, Register(c, r, schema, expected)
        PROVE  Moves
    BY <2>1, RegisterMoves
  <2>2. ASSUME NEW c \in Callers, Create(c) PROVE Moves
    <3>1. CASE Activate(c)
      BY <3>1, SettleMoves DEF Activate
    <3>2. CASE Fail(c)
      BY <3>2, SettleMoves DEF Fail
    <3>3. CASE LookUpTarget(c) \/ Prepare(c) \/ ApplyRaises(c)
      BY <3>3, StayMoves DEF LookUpTarget, Prepare, ApplyRaises, registryVars
    <3>4. CASE \E matches \in BOOLEAN : ApplyReturns(c, matches)
      BY <3>4, StayMoves DEF ApplyReturns, registryVars
    <3> QED
      BY <2>2, <3>1, <3>2, <3>3, <3>4 DEF Create
  <2>3. ASSUME NEW id \in SchemaIds, NEW v \in Versions, NEW body \in Bodies, Publish(id, v, body)
        PROVE  Moves
    BY <2>3, StayMoves DEF Publish, Registry!PublishSchema
  <2>4. ASSUME NEW id \in SchemaIds, NEW v \in Versions, Deprecate(id, v) PROVE Moves
    BY <2>4, StayMoves DEF Deprecate, Registry!DeprecateSchema
  <2>5. ASSUME NEW r \in Resources, NEW state \in Registry!CollectionStates, Manage(r, state)
        PROVE  Moves
    BY <2>5, ManageMoves
  <2>6. CASE UNCHANGED vars
    BY <2>6, StayMoves DEF vars, registryVars
  <2> QED
    BY <2>1, <2>2, <2>3, <2>4, <2>5, <2>6 DEF Next
<1>2. Spec => [][Moves]_vars
  BY <1>1, InvariantHolds, PTL DEF Spec
<1> QED
  BY <1>2 DEF StatesMoveOn, Moves

-----------------------------------------------------------------------------
(* The live bundle *)

Shaped == schemas \in [SchemaIds -> [Versions -> Registry!Publication \cup {Absent}]]

\* A published version stays known, so a Collection never outlives its Schema.
Pinned ==
  \A r \in Resources : resources[r] # Absent =>
    /\ resources[r].schema \in Registry!SchemaRefs
    /\ Registry!Known(resources[r].schema[1], resources[r].schema[2])

BInv == Inv /\ Shaped /\ Pinned

(* One publication is stored, and nothing that was known is forgotten.       *)
LEMMA SchemasGrow ==
  ASSUME Shaped, NEW id \in SchemaIds, NEW v \in Versions, NEW publication \in Registry!Publication,
         schemas' = [schemas EXCEPT ![id] = [schemas[id] EXCEPT ![v] = publication]]
  PROVE  /\ Shaped'
         /\ \A i \in SchemaIds, w \in Versions : Registry!Known(i, w) => Registry!Known(i, w)'
<1>1. Shaped'
  BY DEF Shaped
<1>2. ASSUME NEW i \in SchemaIds, NEW w \in Versions, schemas[i][w] # Absent
      PROVE  schemas'[i][w] # Absent
  <2>1. CASE i = id /\ w = v
    <3>1. schemas'[i][w] = publication
      BY <2>1 DEF Shaped
    <3> QED
      BY <3>1, PublicationAssumption
  <2>2. CASE ~(i = id /\ w = v)
    BY <1>2, <2>2 DEF Shaped
  <2> QED
    BY <2>1, <2>2
<1> QED
  BY <1>1, <1>2 DEF Registry!Known

(* A step that leaves the Schemas alone stores, if anything, one document,   *)
(* and that one pins a Schema that is known.                                 *)
LEMMA PinnedStep ==
  ASSUME Inv, Shaped, Pinned, UNCHANGED schemas, NEW r \in Resources, NEW document,
         resources' = [resources EXCEPT ![r] = document],
         document.schema \in Registry!SchemaRefs,
         Registry!Known(document.schema[1], document.schema[2])
  PROVE  Shaped' /\ Pinned'
<1>1. Shaped'
  BY DEF Shaped
<1>2. ASSUME NEW s \in Resources, resources'[s] # Absent
      PROVE  /\ resources'[s].schema \in Registry!SchemaRefs
             /\ Registry!Known(resources'[s].schema[1], resources'[s].schema[2])
  <2>1. CASE s = r
    BY <2>1 DEF Inv, Typed
  <2>2. CASE s # r
    BY <1>2, <2>2 DEF Inv, Typed, Pinned
  <2> QED
    BY <2>1, <2>2
<1> QED
  BY <1>1, <1>2 DEF Pinned, Registry!Known

LEMMA PinnedKept ==
  ASSUME Shaped, Pinned, UNCHANGED <<schemas, resources>>
  PROVE  Shaped' /\ Pinned'
  BY DEF Shaped, Pinned, Registry!Known

LEMMA RegisterPinned ==
  ASSUME BInv, NEW c \in Callers, NEW r \in Resources, NEW schema \in Registry!SchemaRefs,
         NEW expected, Register(c, r, schema, expected)
  PROVE  Shaped' /\ Pinned'
<1>1. CASE Registry!CreateCollection(r, schema, expected)
  <2> DEFINE document == [schema |-> schema, state |-> "PROVISIONING"]
  <2>1. resources' = [resources EXCEPT ![r] = document] /\ UNCHANGED schemas
    BY <1>1 DEF Registry!CreateCollection, Registry!StoreCollection
  <2>2. Registry!Known(schema[1], schema[2])
    BY <1>1 DEF Registry!CreateCollection, Registry!CreateOutcome, Registry!Readable,
                Registry!KnownVersions
  <2>3. document.schema = schema
    OBVIOUS
  <2> HIDE DEF document
  <2> QED
    BY <2>1, <2>2, <2>3, PinnedStep DEF BInv
<1>2. CASE UNCHANGED registryVars
  BY <1>2, PinnedKept DEF registryVars, BInv
<1> QED
  BY <1>1, <1>2 DEF Register

(* A create writes back the Schema it registered.                            *)
LEMMA CreatePinned ==
  ASSUME BInv, NEW c \in Callers, Create(c)
  PROVE  Shaped' /\ Pinned'
<1>1. CASE Activate(c) \/ Fail(c)
  <2>1. PICK state \in {"ACTIVE", "PROVISIONING_FAILED"} :
          /\ pc[c] # "idle"
          /\ resources' = [resources EXCEPT ![request[c].ref] = Marked(c, state)]
          /\ UNCHANGED schemas
    BY <1>1 DEF Activate, Fail, Settle, Registry!ReplaceCollection, Registry!StoreCollection
  <2>2. /\ request[c] \in Request /\ request[c].ref \in Resources
        /\ resources[request[c].ref] = Marked(c, "PROVISIONING")
    BY <2>1 DEF BInv, Inv, Typed, Request, ActivationOwnsItsCollection
  <2>3. Marked(c, "PROVISIONING") # Absent
    BY <2>2, MarkedIsADocument DEF Registry!CollectionStates
  <2>4. Marked(c, "PROVISIONING").schema = Marked(c, state).schema
    BY DEF Marked
  <2>5. /\ Marked(c, state).schema \in Registry!SchemaRefs
        /\ Registry!Known(Marked(c, state).schema[1], Marked(c, state).schema[2])
    BY <2>2, <2>3, <2>4 DEF BInv, Pinned
  <2> QED
    BY <2>1, <2>2, <2>5, PinnedStep DEF BInv
<1>2. CASE ~(Activate(c) \/ Fail(c))
  <2>1. UNCHANGED registryVars
    BY <1>2 DEF Create, LookUpTarget, Prepare, ApplyRaises, ApplyReturns
  <2> QED
    BY <2>1, PinnedKept DEF registryVars, BInv
<1> QED
  BY <1>1, <1>2

LEMMA ManagePinned ==
  ASSUME BInv, NEW r \in Resources, NEW state \in Registry!CollectionStates, Manage(r, state)
  PROVE  Shaped' /\ Pinned'
<1> DEFINE document == [resources[r] EXCEPT !.state = state]
<1>1. /\ resources[r] # Absent /\ UNCHANGED schemas
      /\ resources' = [resources EXCEPT ![r] = document]
  BY DEF Manage, Registry!ReplaceCollection, Registry!StoreCollection
<1>2. document.schema = resources[r].schema
  <2>1. resources[r] \in Registry!Collection
    BY <1>1 DEF BInv, Inv, Typed
  <2> QED
    BY <2>1 DEF Registry!Collection
<1> HIDE DEF document
<1> QED
  BY <1>1, <1>2, PinnedStep DEF BInv, Pinned

LEMMA BundleInvariantHolds == Spec => []BInv
<1>1. Init => BInv
  <2>1. Init => Shaped /\ Pinned
    BY DEF Init, Registry!Init, Shaped, Pinned
  <2> QED
    BY <2>1, InitInv DEF BInv
<1>2. BInv /\ [Next]_vars => Shaped' /\ Pinned'
  <2> SUFFICES ASSUME BInv, [Next]_vars PROVE Shaped' /\ Pinned'
    OBVIOUS
  <2>1. ASSUME NEW c \in Callers, NEW r \in Resources, NEW schema \in Registry!SchemaRefs,
               NEW expected \in {AnyRevision} \cup 0..revision, Register(c, r, schema, expected)
        PROVE  Shaped' /\ Pinned'
    BY <2>1, RegisterPinned
  <2>2. ASSUME NEW c \in Callers, Create(c) PROVE Shaped' /\ Pinned'
    BY <2>2, CreatePinned
  <2>3. ASSUME NEW id \in SchemaIds, NEW v \in Versions, NEW body \in Bodies,
               Publish(id, v, body)
        PROVE  Shaped' /\ Pinned'
    <3> DEFINE publication == [body |-> body, status |-> "PUBLISHED"]
    <3>1. /\ schemas' = [schemas EXCEPT ![id] = [schemas[id] EXCEPT ![v] = publication]]
          /\ resources' = resources
      BY <2>3 DEF Publish, Registry!PublishSchema, Registry!StorePublication, BInv, Shaped
    <3>2. publication \in Registry!Publication
      BY DEF Registry!Publication
    <3> HIDE DEF publication
    <3>3. /\ Shaped'
          /\ \A i \in SchemaIds, w \in Versions : Registry!Known(i, w) => Registry!Known(i, w)'
      BY <3>1, <3>2, SchemasGrow DEF BInv
    <3> QED
      BY <3>1, <3>3 DEF BInv, Pinned, Registry!SchemaRefs, Registry!Known
  <2>4. ASSUME NEW id \in SchemaIds, NEW v \in Versions, Deprecate(id, v)
        PROVE  Shaped' /\ Pinned'
    <3> DEFINE publication == [schemas[id][v] EXCEPT !.status = "DEPRECATED"]
    <3>1. /\ schemas' = [schemas EXCEPT ![id] = [schemas[id] EXCEPT ![v] = publication]]
          /\ resources' = resources
      BY <2>4 DEF Deprecate, Registry!DeprecateSchema, Registry!StoreDeprecation, BInv, Shaped
    <3>2. schemas[id][v] # Absent
      BY <2>4 DEF Deprecate, Registry!DeprecateSchema, Registry!DeprecateOutcome, Registry!Known
    <3>3. publication \in Registry!Publication
      BY <3>2 DEF BInv, Shaped, Registry!Publication
    <3> HIDE DEF publication
    <3>4. /\ Shaped'
          /\ \A i \in SchemaIds, w \in Versions : Registry!Known(i, w) => Registry!Known(i, w)'
      BY <3>1, <3>3, SchemasGrow DEF BInv
    <3> QED
      BY <3>1, <3>4 DEF BInv, Pinned, Registry!SchemaRefs, Registry!Known
  <2>5. ASSUME NEW r \in Resources, NEW state \in Registry!CollectionStates, Manage(r, state)
        PROVE  Shaped' /\ Pinned'
    BY <2>5, ManagePinned
  <2>6. CASE UNCHANGED vars
    BY <2>6, PinnedKept DEF vars, registryVars, BInv
  <2> QED
    BY <2>1, <2>2, <2>3, <2>4, <2>5, <2>6 DEF Next
<1> QED
  BY <1>1, <1>2, InvariantHolds, PTL DEF Spec, BInv

(* A Collection that a step finds is there after it and pins what it pinned. *)
KeepsSchemas ==
  \A r \in Resources : resources[r] # Absent =>
    resources'[r] # Absent /\ resources'[r].schema = resources[r].schema

LEMMA KeepsIfUnchanged ==
  ASSUME UNCHANGED resources  PROVE KeepsSchemas
  BY DEF KeepsSchemas

LEMMA RegisterKeepsSchemas ==
  ASSUME Inv, NEW c \in Callers, NEW r \in Resources, NEW schema \in Registry!SchemaRefs,
         NEW expected, Register(c, r, schema, expected)
  PROVE  KeepsSchemas
<1>1. CASE Registry!CreateCollection(r, schema, expected)
  <2> DEFINE document == [schema |-> schema, state |-> "PROVISIONING"]
  <2>1. resources' = [resources EXCEPT ![r] = document]
    BY <1>1 DEF Registry!CreateCollection, Registry!StoreCollection
  <2>2. resources[r] = Absent
    BY <1>1 DEF Registry!CreateCollection, Registry!CreateOutcome
  <2> HIDE DEF document
  <2> QED
    BY <2>1, <2>2 DEF Inv, Typed, KeepsSchemas
<1>2. CASE UNCHANGED registryVars
  BY <1>2, KeepsIfUnchanged DEF registryVars
<1> QED
  BY <1>1, <1>2 DEF Register

LEMMA CreateKeepsSchemas ==
  ASSUME Inv, NEW c \in Callers, Create(c)
  PROVE  KeepsSchemas
<1>1. CASE Activate(c) \/ Fail(c)
  <2>1. PICK state \in {"ACTIVE", "PROVISIONING_FAILED"} :
          /\ pc[c] # "idle"
          /\ resources' = [resources EXCEPT ![request[c].ref] = Marked(c, state)]
    BY <1>1 DEF Activate, Fail, Settle, Registry!ReplaceCollection, Registry!StoreCollection
  <2>2. /\ request[c] \in Request /\ request[c].ref \in Resources
        /\ resources[request[c].ref] = Marked(c, "PROVISIONING")
    BY <2>1 DEF Inv, Typed, Request, ActivationOwnsItsCollection
  <2>3. Marked(c, state) # Absent
    BY <2>2, MarkedIsADocument DEF Registry!CollectionStates
  <2>4. Marked(c, "PROVISIONING").schema = Marked(c, state).schema
    BY DEF Marked
  <2> QED
    BY <2>1, <2>2, <2>3, <2>4 DEF Inv, Typed, KeepsSchemas
<1>2. CASE ~(Activate(c) \/ Fail(c))
  <2>1. UNCHANGED registryVars
    BY <1>2 DEF Create, LookUpTarget, Prepare, ApplyRaises, ApplyReturns
  <2> QED
    BY <2>1, KeepsIfUnchanged DEF registryVars
<1> QED
  BY <1>1, <1>2

LEMMA ManageKeepsSchemas ==
  ASSUME Inv, NEW r \in Resources, NEW state \in Registry!CollectionStates, Manage(r, state)
  PROVE  KeepsSchemas
<1> DEFINE document == [resources[r] EXCEPT !.state = state]
<1>1. resources[r] # Absent /\ resources' = [resources EXCEPT ![r] = document]
  BY DEF Manage, Registry!ReplaceCollection, Registry!StoreCollection
<1>2. document \in Registry!Collection /\ document.schema = resources[r].schema
  BY <1>1 DEF Inv, Typed, Registry!Collection
<1>3. document # Absent
  BY <1>2, DocumentAssumption
<1> HIDE DEF document
<1> QED
  BY <1>1, <1>2, <1>3 DEF Inv, Typed, KeepsSchemas

\* Whatever is done, no published version is forgotten.
LEMMA KnownStays ==
  ASSUME BInv, [Next]_vars, NEW i \in SchemaIds, NEW w \in Versions, Registry!Known(i, w)
  PROVE  Registry!Known(i, w)'
<1>1. CASE UNCHANGED schemas
  BY <1>1 DEF Registry!Known
<1>2. ASSUME NEW id \in SchemaIds, NEW v \in Versions, NEW body \in Bodies, Publish(id, v, body)
      PROVE  Registry!Known(i, w)'
  <2> DEFINE publication == [body |-> body, status |-> "PUBLISHED"]
  <2>1. schemas' = [schemas EXCEPT ![id] = [schemas[id] EXCEPT ![v] = publication]]
    BY <1>2 DEF Publish, Registry!PublishSchema, Registry!StorePublication, BInv, Shaped
  <2>2. publication \in Registry!Publication
    BY DEF Registry!Publication
  <2> HIDE DEF publication
  <2> QED
    BY <2>1, <2>2, SchemasGrow DEF BInv
<1>3. ASSUME NEW id \in SchemaIds, NEW v \in Versions, Deprecate(id, v)
      PROVE  Registry!Known(i, w)'
  <2> DEFINE publication == [schemas[id][v] EXCEPT !.status = "DEPRECATED"]
  <2>1. schemas' = [schemas EXCEPT ![id] = [schemas[id] EXCEPT ![v] = publication]]
    BY <1>3 DEF Deprecate, Registry!DeprecateSchema, Registry!StoreDeprecation, BInv, Shaped
  <2>2. schemas[id][v] # Absent
    BY <1>3 DEF Deprecate, Registry!DeprecateSchema, Registry!DeprecateOutcome, Registry!Known
  <2>3. publication \in Registry!Publication
    BY <2>2 DEF BInv, Shaped, Registry!Publication
  <2> HIDE DEF publication
  <2> QED
    BY <2>1, <2>3, SchemasGrow DEF BInv
<1>4. CASE \E c \in Callers :
             \/ \E r \in Resources, schema \in Registry!SchemaRefs,
                   expected \in {AnyRevision} \cup 0..revision : Register(c, r, schema, expected)
             \/ Create(c)
  <2>1. UNCHANGED schemas
    BY <1>4 DEF Register, Registry!CreateCollection, Registry!StoreCollection, registryVars,
                Create, LookUpTarget, Prepare, ApplyRaises, ApplyReturns, Activate, Fail,
                Settle, Registry!ReplaceCollection
  <2> QED
    BY <2>1, <1>1
<1>5. CASE \E r \in Resources, state \in Registry!CollectionStates : Manage(r, state)
  <2>1. UNCHANGED schemas
    BY <1>5 DEF Manage, Registry!ReplaceCollection, Registry!StoreCollection
  <2> QED
    BY <2>1, <1>1
<1>6. CASE UNCHANGED vars
  BY <1>6, <1>1 DEF vars, registryVars
<1> QED
  BY <1>2, <1>3, <1>4, <1>5, <1>6 DEF Next

LEMMA SchemasKept ==
  ASSUME BInv, [Next]_vars
  PROVE  KeepsSchemas
<1> Inv
  BY DEF BInv
<1>1. ASSUME NEW c \in Callers, NEW r \in Resources, NEW schema \in Registry!SchemaRefs,
             NEW expected \in {AnyRevision} \cup 0..revision, Register(c, r, schema, expected)
      PROVE  KeepsSchemas
  BY <1>1, RegisterKeepsSchemas
<1>2. ASSUME NEW c \in Callers, Create(c)  PROVE KeepsSchemas
  BY <1>2, CreateKeepsSchemas
<1>3. ASSUME NEW id \in SchemaIds, NEW v \in Versions, NEW body \in Bodies, Publish(id, v, body)
      PROVE  KeepsSchemas
  BY <1>3, KeepsIfUnchanged DEF Publish, Registry!PublishSchema, Registry!StorePublication
<1>4. ASSUME NEW id \in SchemaIds, NEW v \in Versions, Deprecate(id, v)  PROVE KeepsSchemas
  BY <1>4, KeepsIfUnchanged DEF Deprecate, Registry!DeprecateSchema, Registry!StoreDeprecation
<1>5. ASSUME NEW r \in Resources, NEW state \in Registry!CollectionStates, Manage(r, state)
      PROVE  KeepsSchemas
  BY <1>5, ManageKeepsSchemas
<1>6. CASE UNCHANGED vars
  BY <1>6, KeepsIfUnchanged DEF vars, registryVars
<1> QED
  BY <1>1, <1>2, <1>3, <1>4, <1>5, <1>6 DEF Next

(* Whenever it is taken, the live bundle holds the Schema of every           *)
(* Collection in it, and what one bundle declares every later one declares:  *)
(* for any number of callers, Collections and Schemas.                       *)
THEOREM LiveBundleIsAlwaysClosed == Spec => LiveBundleIsClosed
<1>1. BInv => BundleIsClosed
  BY DEF BInv, Pinned, BundleIsClosed, LiveResources, LiveSchemas
<1>2. BInv /\ [Next]_vars => BundleGrows
  <2> SUFFICES ASSUME BInv, [Next]_vars  PROVE BundleGrows
    OBVIOUS
  <2>1. LiveSchemas \subseteq LiveSchemas'
    <3> SUFFICES ASSUME NEW schema \in LiveSchemas  PROVE schema \in LiveSchemas'
      OBVIOUS
    <3>1. /\ schema \in Registry!SchemaRefs /\ schema[1] \in SchemaIds /\ schema[2] \in Versions
          /\ Registry!Known(schema[1], schema[2])
      BY DEF LiveSchemas, Registry!SchemaRefs
    <3>2. Registry!Known(schema[1], schema[2])'
      BY <3>1, KnownStays
    <3> QED
      BY <3>1, <3>2 DEF LiveSchemas, Registry!SchemaRefs
  <2>2. LiveResources \subseteq LiveResources'
    BY SchemasKept DEF KeepsSchemas, LiveResources
  <2> QED
    BY <2>1, <2>2 DEF BundleGrows
<1> QED
  BY <1>1, <1>2, BundleInvariantHolds, PTL DEF Spec, LiveBundleIsClosed

-----------------------------------------------------------------------------
(* The registry under creates: whatever callers, Adapters and tools do, it   *)
(* makes a step of its protocol or none.                                     *)

RegistrySteps == Registry!Next \/ UNCHANGED Registry!vars

\* An outcome other than a conflict means that the pin, if any, is the present
\* revision.
LEMMA PublishingIsAStep ==
  ASSUME NEW id \in SchemaIds, NEW v \in Versions, NEW body \in Bodies, NEW allow \in BOOLEAN,
         NEW expected, Registry!PublishSchema(id, v, body, expected, allow)
  PROVE  Registry!Next
<1>1. expected \in Registry!Expectations
  BY DEF Registry!PublishSchema, Registry!PublishOutcome, Registry!RevisionMatches,
         Registry!Expectations
<1> QED
  BY <1>1 DEF Registry!Next

LEMMA DeprecatingIsAStep ==
  ASSUME NEW id \in SchemaIds, NEW v \in Versions, NEW expected,
         Registry!DeprecateSchema(id, v, expected)
  PROVE  Registry!Next
<1>1. expected \in Registry!Expectations
  BY DEF Registry!DeprecateSchema, Registry!DeprecateOutcome, Registry!RevisionMatches,
         Registry!Expectations
<1> QED
  BY <1>1 DEF Registry!Next

LEMMA CreatingIsAStep ==
  ASSUME NEW r \in Resources, NEW schema \in Registry!SchemaRefs, NEW expected,
         Registry!CreateCollection(r, schema, expected)
  PROVE  Registry!Next
<1>1. expected \in Registry!Expectations
  BY DEF Registry!CreateCollection, Registry!CreateOutcome, Registry!RevisionMatches,
         Registry!Expectations
<1> QED
  BY <1>1 DEF Registry!Next

LEMMA ReplacingIsAStep ==
  ASSUME NEW r \in Resources, NEW document \in Registry!Collection, NEW expected,
         Registry!ReplaceCollection(r, document, expected)
  PROVE  Registry!Next
<1>1. expected \in Registry!Expectations
  BY DEF Registry!ReplaceCollection, Registry!ReplaceOutcome, Registry!RevisionMatches,
         Registry!Expectations
<1> QED
  BY <1>1 DEF Registry!Next

(* The end of a create replaces its own Collection by the document it marks. *)
LEMMA CreateSteps ==
  ASSUME Inv, NEW c \in Callers, Create(c)
  PROVE  RegistrySteps
<1>1. CASE Activate(c) \/ Fail(c)
  <2>1. PICK state \in {"ACTIVE", "PROVISIONING_FAILED"} :
          /\ pc[c] # "idle"
          /\ Registry!ReplaceCollection(request[c].ref, Marked(c, state), AnyRevision)
    BY <1>1 DEF Activate, Fail, Settle
  <2>2. request[c] \in Request /\ request[c].ref \in Resources
    BY <2>1 DEF Inv, Typed, Request
  <2>3. Marked(c, state) \in Registry!Collection
    BY <2>2, MarkedIsADocument DEF Registry!CollectionStates
  <2> QED
    BY <2>1, <2>2, <2>3, ReplacingIsAStep DEF RegistrySteps
<1>2. CASE ~(Activate(c) \/ Fail(c))
  <2>1. UNCHANGED registryVars
    BY <1>2 DEF Create, LookUpTarget, Prepare, ApplyRaises, ApplyReturns
  <2> QED
    BY <2>1 DEF registryVars, RegistrySteps, Registry!vars
<1> QED
  BY <1>1, <1>2

(* create and the tools beside it reach the registry through its protocol    *)
(* only; that their replace_collection writes a document is what the         *)
(* invariant gives.                                                          *)
THEOREM ActivationDrivesTheRegistry == Spec => Registry!Spec
<1>1. Init => Registry!Init
  BY DEF Init
<1>2. Inv /\ [Next]_vars => [Registry!Next]_(Registry!vars)
  <2> SUFFICES ASSUME Inv, [Next]_vars PROVE RegistrySteps
    BY DEF RegistrySteps
  <2>1. ASSUME NEW c \in Callers, NEW r \in Resources, NEW schema \in Registry!SchemaRefs,
               NEW expected, Register(c, r, schema, expected)
        PROVE  RegistrySteps
    <3>1. Registry!CreateCollection(r, schema, expected) \/ UNCHANGED registryVars
      BY <2>1 DEF Register
    <3> QED
      BY <3>1, CreatingIsAStep DEF RegistrySteps, registryVars, Registry!vars
  <2>2. ASSUME NEW id \in SchemaIds, NEW v \in Versions, NEW body \in Bodies, Publish(id, v, body)
        PROVE  RegistrySteps
    BY <2>2, PublishingIsAStep DEF Publish, RegistrySteps
  <2>3. ASSUME NEW id \in SchemaIds, NEW v \in Versions, Deprecate(id, v)  PROVE RegistrySteps
    BY <2>3, DeprecatingIsAStep DEF Deprecate, RegistrySteps
  <2>4. ASSUME NEW r \in Resources, NEW state \in Registry!CollectionStates, Manage(r, state)
        PROVE  RegistrySteps
    <3> DEFINE document == [resources[r] EXCEPT !.state = state]
    <3>1. resources[r] # Absent /\ Registry!ReplaceCollection(r, document, revision)
      BY <2>4 DEF Manage
    <3>2. document \in Registry!Collection
      BY <3>1 DEF Inv, Typed, Registry!Collection
    <3> HIDE DEF document
    <3> QED
      BY <3>1, <3>2, ReplacingIsAStep DEF RegistrySteps
  <2>5. CASE UNCHANGED vars
    BY <2>5 DEF vars, registryVars, RegistrySteps, Registry!vars
  <2> QED
    BY <2>1, <2>2, <2>3, <2>4, <2>5, CreateSteps DEF Next
<1> QED
  BY <1>1, <1>2, InvariantHolds, PTL DEF Spec, Registry!Spec

-----------------------------------------------------------------------------
(* What is proved of the registry holds while Collections are activated.     *)
Proved == INSTANCE MetadataRepositoryProofs

LEMMA ProvedIsTheRegistry == Registry!Spec => Proved!Spec
<1>1. Registry!Init => Proved!Init
  BY DEF Registry!Init, Proved!Init
<1>2. [Registry!Next]_(Registry!vars) => [Proved!Next]_(Proved!vars)
  <2>1. ASSUME Registry!Next  PROVE Proved!Next
    BY <2>1
      DEF Registry!Next, Proved!Next, Registry!Expectations, Proved!Expectations,
          Registry!SchemaRefs, Proved!SchemaRefs, Registry!Collection, Proved!Collection,
          Registry!CollectionStates, Proved!CollectionStates, Registry!PublishSchema,
          Proved!PublishSchema, Registry!DeprecateSchema, Proved!DeprecateSchema,
          Registry!CreateCollection, Proved!CreateCollection, Registry!ReplaceCollection,
          Proved!ReplaceCollection, Registry!PublishOutcome, Proved!PublishOutcome,
          Registry!DeprecateOutcome, Proved!DeprecateOutcome, Registry!CreateOutcome,
          Proved!CreateOutcome, Registry!ReplaceOutcome, Proved!ReplaceOutcome,
          Registry!StorePublication, Proved!StorePublication, Registry!StoreDeprecation,
          Proved!StoreDeprecation, Registry!StoreCollection, Proved!StoreCollection,
          Registry!Known, Proved!Known, Registry!NotAboveLatest, Proved!NotAboveLatest,
          Registry!BreaksLatest, Proved!BreaksLatest, Registry!IsLatest, Proved!IsLatest,
          Registry!KnownVersions, Proved!KnownVersions, Registry!Readable, Proved!Readable,
          Registry!RevisionMatches, Proved!RevisionMatches
  <2>2. ASSUME UNCHANGED Registry!vars  PROVE UNCHANGED Proved!vars
    BY <2>2 DEF Registry!vars, Proved!vars
  <2> QED
    BY <2>1, <2>2
<1> QED
  BY <1>1, <1>2, PTL DEF Registry!Spec, Proved!Spec

(* Whatever callers, Adapters and tools do: "latest" is one version,         *)
(* evolution is guarded, a published document stays, and every change has    *)
(* its revision.                                                             *)
THEOREM RegistryUnderActivation ==
  Spec => /\ []Proved!LatestIsUnique
          /\ []Proved!EvolutionIsGuarded
          /\ Proved!PublishedForever
          /\ Proved!RevisionNamesState
<1>1. Absent \notin Proved!Publication /\ Absent \notin Proved!Collection
  BY PublicationAssumption, DocumentAssumption
  DEF Registry!Publication, Registry!Collection, Registry!SchemaRefs, Registry!CollectionStates,
      Proved!Publication, Proved!Collection, Proved!SchemaRefs, Proved!CollectionStates
<1>2. Proved!Spec => []Proved!LatestIsUnique
  BY <1>1, RegistryAssumption, Proved!LatestIsUniqueAlways, PTL
<1>3. Proved!Spec => []Proved!EvolutionIsGuarded
  BY <1>1, RegistryAssumption, Proved!EvolutionIsGuardedAlways, PTL
<1>4. Proved!Spec => Proved!PublishedForever
  BY <1>1, RegistryAssumption, Proved!PublishedForeverAlways, PTL
<1>5. Proved!Spec => Proved!RevisionNamesState
  BY <1>1, RegistryAssumption, Proved!RevisionNamesStateAlways, PTL
<1> QED
  BY <1>2, <1>3, <1>4, <1>5, ActivationDrivesTheRegistry, ProvedIsTheRegistry, PTL

-----------------------------------------------------------------------------
(* What ProvisioningSettles rests on, apart from fairness.                   *)

(* While a create is on its way its Collection is there, so that whenever it *)
(* calls replace_collection (publication.py 577-605), which pins nothing,    *)
(* the document is written: neither success nor failure is lost behind a     *)
(* ResourceNotFound.                                                         *)
SettlingFindsItsCollection ==
  \A c \in Callers : pc[c] # "idle" =>
    Registry!ReplaceOutcome(request[c].ref, AnyRevision) = "replaced"

THEOREM SettlingNeverFails == Spec => []SettlingFindsItsCollection
<1>1. Inv => SettlingFindsItsCollection
  <2> SUFFICES ASSUME Inv, NEW c \in Callers, pc[c] # "idle"
               PROVE  Registry!ReplaceOutcome(request[c].ref, AnyRevision) = "replaced"
    BY DEF SettlingFindsItsCollection
  <2>1. request[c] \in Request /\ resources[request[c].ref] = Marked(c, "PROVISIONING")
    BY DEF Inv, Typed, ActivationOwnsItsCollection
  <2>2. resources[request[c].ref] # Absent
    BY <2>1, MarkedIsADocument DEF Registry!CollectionStates
  <2> QED
    BY <2>2 DEF Registry!ReplaceOutcome, Registry!RevisionMatches
<1> QED
  BY <1>1, InvariantHolds, PTL

\* How many steps of create are ahead, at most.
StepsLeft(place) ==
  CASE place = "registered"               -> 4
    [] place = "preparing"                -> 3
    [] place = "applying"                 -> 2
    [] place \in {"activating", "failing"} -> 1
    [] OTHER                              -> 0

(* A create runs down: its own steps bring it nearer to its end, and nothing *)
(* that others do brings it further from it.                                 *)
RunsDown ==
  \A c \in Callers :
    /\ Create(c) => StepsLeft(pc'[c]) < StepsLeft(pc[c])
    /\ pc[c] # "idle" => Create(c) \/ pc'[c] = pc[c]

LEMMA CreateRunsOn ==
  ASSUME DOMAIN pc = Callers, NEW c \in Callers, Create(c)
  PROVE  /\ StepsLeft(pc'[c]) < StepsLeft(pc[c])
         /\ \A d \in Callers \ {c} : pc'[d] = pc[d]
<1> USE DEF Goto, Return
<1>1. CASE LookUpTarget(c)
  <2>1. Goto(c, "registered", "preparing") \/ Goto(c, "registered", "idle")
    BY <1>1 DEF LookUpTarget
  <2> QED
    BY <2>1 DEF StepsLeft
<1>2. CASE Prepare(c)
  BY <1>2 DEF Prepare, StepsLeft
<1>3. CASE ApplyRaises(c)
  BY <1>3 DEF ApplyRaises, StepsLeft
<1>4. CASE \E matches \in BOOLEAN : ApplyReturns(c, matches)
  BY <1>4 DEF ApplyReturns, StepsLeft
<1>5. CASE Activate(c)
  <2>1. Goto(c, "activating", "idle")
    BY <1>5 DEF Activate, Settle
  <2> QED
    BY <2>1 DEF StepsLeft
<1>6. CASE Fail(c)
  <2>1. Goto(c, "failing", "idle")
    BY <1>6 DEF Fail, Settle
  <2> QED
    BY <2>1 DEF StepsLeft
<1> QED
  BY <1>1, <1>2, <1>3, <1>4, <1>5, <1>6 DEF Create

THEOREM CreateRunsDown == Spec => [][RunsDown]_vars
<1>1. Inv /\ [Next]_vars => [RunsDown]_vars
  <2> SUFFICES ASSUME Inv, Next, NEW c \in Callers
               PROVE  /\ Create(c) => StepsLeft(pc'[c]) < StepsLeft(pc[c])
                      /\ pc[c] # "idle" => Create(c) \/ pc'[c] = pc[c]
    BY DEF RunsDown
  <2>0. DOMAIN pc = Callers
    BY DEF Inv, Typed
  <2>1. Create(c) => StepsLeft(pc'[c]) < StepsLeft(pc[c])
    BY <2>0, CreateRunsOn
  <2>2. pc[c] # "idle" => Create(c) \/ pc'[c] = pc[c]
    <3>1. ASSUME NEW d \in Callers, NEW r \in Resources, NEW schema \in Registry!SchemaRefs,
                 NEW expected, Register(d, r, schema, expected), pc[c] # "idle"
          PROVE  pc'[c] = pc[c]
      BY <2>0, <3>1 DEF Register, Goto, Return
    <3>2. ASSUME NEW d \in Callers, Create(d)  PROVE d = c \/ pc'[c] = pc[c]
      BY <2>0, <3>2, CreateRunsOn
    <3>3. ASSUME NEW id \in SchemaIds, NEW v \in Versions, NEW body \in Bodies,
                 Publish(id, v, body)
          PROVE  pc' = pc
      BY <3>3 DEF Publish
    <3>4. ASSUME NEW id \in SchemaIds, NEW v \in Versions, Deprecate(id, v)  PROVE pc' = pc
      BY <3>4 DEF Deprecate
    <3>5. ASSUME NEW r \in Resources, NEW state \in Registry!CollectionStates, Manage(r, state)
          PROVE  pc' = pc
      BY <3>5 DEF Manage
    <3> QED
      BY <3>1, <3>2, <3>3, <3>4, <3>5 DEF Next
  <2> QED
    BY <2>1, <2>2
<1> QED
  BY <1>1, InvariantHolds, PTL DEF Spec
=============================================================================
