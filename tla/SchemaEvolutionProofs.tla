------------------------ MODULE SchemaEvolutionProofs ------------------------
(***************************************************************************)
(* What the classification of steps guarantees of any chain of versions,   *)
(* for any set of definitions and Records.                                 *)
(***************************************************************************)
EXTENDS SchemaDocuments, TLAPS

USE DEF Identical, Metadata, Backward, DataChange, Conditional, Breaking

-----------------------------------------------------------------------------
(* The highest class is one of the classes and bounds the others.            *)
LEMMA HighestBounds ==
  ASSUME NEW classes, classes \subseteq 0..5
  PROVE  /\ Highest({Identical} \cup classes) \in {Identical} \cup classes
         /\ \A c \in classes : c <= Highest({Identical} \cup classes)
<1> DEFINE S == {Identical} \cup classes
<1>1. S \subseteq 0..5 /\ 0 \in S
  OBVIOUS
<1>2. \E c \in S : \A d \in S : d <= c
  <2>1. CASE 5 \in S
    BY <1>1, <2>1
  <2>2. CASE 5 \notin S /\ 4 \in S
    BY <1>1, <2>2
  <2>3. CASE 5 \notin S /\ 4 \notin S /\ 3 \in S
    BY <1>1, <2>3
  <2>4. CASE 5 \notin S /\ 4 \notin S /\ 3 \notin S /\ 2 \in S
    BY <1>1, <2>4
  <2>5. CASE 5 \notin S /\ 4 \notin S /\ 3 \notin S /\ 2 \notin S
    BY <1>1, <2>5
  <2> QED
    BY <2>1, <2>2, <2>3, <2>4, <2>5
<1>3. Highest(S) \in S /\ \A d \in S : d <= Highest(S)
  BY <1>2 DEF Highest
<1> QED
  BY <1>1, <1>3

(* Every change has a class.                                                 *)
LEMMA FieldChangesAreClasses ==
  ASSUME NEW source, NEW target
  PROVE  FieldChanges(source, target) \subseteq 0..5
<1>1. TypeChange(source.type, target.type) \subseteq 0..5
  BY DEF TypeChange
<1>2. NullableChange(source, target) \subseteq 0..5
  BY DEF NullableChange, Class
<1>3. Class(source.mutable # target.mutable, IF target.mutable THEN Backward ELSE Breaking) \subseteq 0..5
  BY DEF Class
<1>4. /\ Class(source.cardinality # target.cardinality, Breaking) \subseteq 0..5
      /\ Class(source.default # target.default, Conditional) \subseteq 0..5
      /\ Class(source.constraints # target.constraints, Conditional) \subseteq 0..5
      /\ Class(source.metadata # target.metadata, Metadata) \subseteq 0..5
  BY DEF Class
<1> QED
  BY <1>1, <1>2, <1>3, <1>4 DEF FieldChanges

LEMMA PartsOfChanges ==
  ASSUME NEW source, NEW target
  PROVE  LET old == DOMAIN source.fields
             new == DOMAIN target.fields
             added == {AddedField(target.fields[f]) : f \in new \ old}
             kept == UNION {FieldChanges(source.fields[f], target.fields[f]) : f \in old \cap new}
         IN  /\ ShapeChanges(source, target) \subseteq Changes(source, target)
             /\ added \subseteq Changes(source, target)
             /\ kept \subseteq Changes(source, target)
             /\ ProfileChange(source.profile, target.profile) \subseteq Changes(source, target)
             /\ Changes(source, target) \subseteq 0..5
<1> DEFINE old == DOMAIN source.fields
           new == DOMAIN target.fields
           shape == ShapeChanges(source, target)
           added == {AddedField(target.fields[f]) : f \in new \ old}
           kept == UNION {FieldChanges(source.fields[f], target.fields[f]) : f \in old \cap new}
           indexes == IndexChanges(source.indexes, target.indexes)
           profile == ProfileChange(source.profile, target.profile)
           guarantees == Class(source.guarantees # target.guarantees, Conditional)
           labels == Class(source.labels # target.labels, Metadata)
           changes == Changes(source, target)
<1>1. changes = shape \cup added \cup kept \cup indexes \cup profile \cup guarantees \cup labels
  BY DEF Changes
<1>2. shape \subseteq 0..5
  BY DEF ShapeChanges, Class
<1>3. added \subseteq 0..5
  BY DEF AddedField
<1>4. kept \subseteq 0..5
  BY FieldChangesAreClasses
<1>5. indexes \subseteq 0..5
  BY DEF IndexChanges, Class
<1>6. profile \subseteq 0..5
  BY DEF ProfileChange, Class
<1>7. guarantees \subseteq 0..5 /\ labels \subseteq 0..5
  BY DEF Class
<1> HIDE DEF shape, added, kept, indexes, profile, guarantees, labels, changes
<1>8. /\ shape \subseteq changes /\ added \subseteq changes /\ kept \subseteq changes
      /\ profile \subseteq changes /\ changes \subseteq 0..5
  BY <1>1, <1>2, <1>3, <1>4, <1>5, <1>6, <1>7
<1> QED
  BY Zenon, <1>8 DEF shape, added, kept, profile, changes

(* The class of a step is that of one of its changes and bounds the others.  *)
LEMMA ClassifyBounds ==
  ASSUME NEW source, NEW target
  PROVE  /\ Classify(source, target) \in 0..5
         /\ Classify(source, target) \in {Identical} \cup Changes(source, target)
         /\ \A c \in Changes(source, target) : c <= Classify(source, target)
<1>1. Changes(source, target) \subseteq 0..5
  BY PartsOfChanges
<1> QED
  BY <1>1, HighestBounds DEF Classify

-----------------------------------------------------------------------------
(* What a step below BREAKING leaves alone.                                  *)
LEMMA UnbrokenStep ==
  ASSUME NEW source \in Documents, NEW target \in Documents,
         Classify(source, target) < Breaking
  PROVE  /\ target.identity = source.identity
         /\ target.semanticKind = source.semanticKind
         /\ target.profile.kind = source.profile.kind
         /\ \A f \in DOMAIN source.fields :
              /\ f \in DOMAIN target.fields
              /\ Breaking \notin FieldChanges(source.fields[f], target.fields[f])
         /\ \A f \in DOMAIN target.fields \ DOMAIN source.fields :
              AddedField(target.fields[f]) # Breaking
<1>1. Breaking \notin Changes(source, target)
  BY ClassifyBounds
<1>2. Breaking \notin ShapeChanges(source, target)
  BY <1>1, PartsOfChanges
<1>3. Breaking \notin ProfileChange(source.profile, target.profile)
  BY <1>1, PartsOfChanges
<1>4. target.identity = source.identity /\ target.semanticKind = source.semanticKind
  BY <1>2 DEF ShapeChanges, Class
<1>5. target.profile.kind = source.profile.kind
  <2> SUFFICES ASSUME target.profile.kind # source.profile.kind PROVE FALSE
    OBVIOUS
  <2>1. ProfileChange(source.profile, target.profile)
          = Class(source.profile # target.profile, Breaking)
    BY DEF ProfileChange
  <2>2. source.profile # target.profile
    OBVIOUS
  <2> QED
    BY <1>3, <2>1, <2>2 DEF Class
<1>6. DOMAIN source.fields \subseteq DOMAIN target.fields
  BY <1>2 DEF ShapeChanges, Class
<1>7. \A f \in DOMAIN source.fields :
        Breaking \notin FieldChanges(source.fields[f], target.fields[f])
  BY <1>1, <1>6, PartsOfChanges
<1>8. \A f \in DOMAIN target.fields \ DOMAIN source.fields :
        AddedField(target.fields[f]) # Breaking
  BY <1>1, PartsOfChanges
<1> QED
  BY <1>4, <1>5, <1>6, <1>7, <1>8

LEMMA UnbrokenField ==
  ASSUME NEW source, NEW target,
         target.nullable \in BOOLEAN, target.mutable \in BOOLEAN,
         Breaking \notin FieldChanges(source, target)
  PROVE  /\ target.cardinality = source.cardinality
         /\ source.nullable => target.nullable
         /\ source.mutable => target.mutable
<1>1. target.cardinality = source.cardinality
  BY DEF FieldChanges, Class
<1>2. source.nullable => target.nullable
  <2>1. Breaking \notin NullableChange(source, target)
    BY DEF FieldChanges
  <2> QED
    BY <2>1 DEF NullableChange, Class
<1>3. source.mutable => target.mutable
  BY DEF FieldChanges, Class
<1> QED
  BY <1>1, <1>2, <1>3

-----------------------------------------------------------------------------
(* The versions are well-formed definitions and the class is one of the six. *)
THEOREM TypeCorrect == Spec => []TypeOK
<1>1. Init => TypeOK
  BY DEF Init, TypeOK
<1>2. TypeOK /\ [Next]_vars => TypeOK'
  <2> SUFFICES ASSUME TypeOK, [Next]_vars PROVE TypeOK'
    OBVIOUS
  <2>1. ASSUME NEW target \in Documents, NEW allowBreaking \in BOOLEAN, Publish(target, allowBreaking)
        PROVE  TypeOK'
    BY <2>1, ClassifyBounds DEF TypeOK, Publish
  <2>2. ASSUME NEW given \in Inputs, Write(given) PROVE TypeOK'
    BY <2>2 DEF TypeOK, Write
  <2>3. CASE UNCHANGED vars
    BY <2>3 DEF TypeOK, vars
  <2> QED
    BY <2>1, <2>2, <2>3 DEF Next
<1> QED
  BY <1>1, <1>2, PTL DEF Spec

(* No chain of publications without allow_breaking changes the identity,     *)
(* loses a field or makes one required or immutable.                         *)
THEOREM UnbrokenShapeAlways == Spec => []UnbrokenShape
<1>1. Init => UnbrokenShape
  BY DEF Init, UnbrokenShape
<1>2. TypeOK /\ UnbrokenShape /\ [Next]_vars => UnbrokenShape'
  <2> SUFFICES ASSUME TypeOK, UnbrokenShape, [Next]_vars PROVE UnbrokenShape'
    OBVIOUS
  <2>1. ASSUME NEW target \in Documents, NEW allowBreaking \in BOOLEAN,
               Publish(target, allowBreaking), worst' < Breaking
        PROVE  UnbrokenShape'
    <3>1. worst < Breaking /\ Classify(document, target) < Breaking
      BY <2>1, ClassifyBounds DEF Publish, TypeOK
    <3>2. document' = target /\ origin' = origin /\ document \in Documents
      BY <2>1 DEF Publish, TypeOK
    <3>3. ASSUME NEW f \in DOMAIN origin.fields
          PROVE  /\ f \in DOMAIN target.fields
                 /\ target.fields[f].cardinality = origin.fields[f].cardinality
                 /\ origin.fields[f].nullable => target.fields[f].nullable
                 /\ origin.fields[f].mutable => target.fields[f].mutable
      <4>1. f \in DOMAIN document.fields
        BY <3>1, <3>3 DEF UnbrokenShape
      <4>2. f \in DOMAIN target.fields
            /\ Breaking \notin FieldChanges(document.fields[f], target.fields[f])
        BY <3>1, <3>2, <4>1, UnbrokenStep
      <4>3. target.fields[f].nullable \in BOOLEAN /\ target.fields[f].mutable \in BOOLEAN
        BY <4>2, DocumentsAssumption
      <4>4. /\ target.fields[f].cardinality = document.fields[f].cardinality
            /\ document.fields[f].nullable => target.fields[f].nullable
            /\ document.fields[f].mutable => target.fields[f].mutable
        BY <4>2, <4>3, UnbrokenField
      <4> QED
        BY <3>1, <3>3, <4>2, <4>4 DEF UnbrokenShape
    <3>4. /\ target.identity = origin.identity
          /\ target.semanticKind = origin.semanticKind
          /\ target.profile.kind = origin.profile.kind
      BY <3>1, <3>2, UnbrokenStep DEF UnbrokenShape
    <3> QED
      BY <3>2, <3>3, <3>4 DEF UnbrokenShape
  <2>2. ASSUME NEW given \in Inputs, Write(given) PROVE UnbrokenShape'
    BY <2>2 DEF UnbrokenShape, Write
  <2>3. CASE UNCHANGED vars
    BY <2>3 DEF UnbrokenShape, vars
  <2> QED
    BY <2>1, <2>2, <2>3 DEF Next, UnbrokenShape
<1> QED
  BY <1>1, <1>2, TypeCorrect, PTL DEF Spec

-----------------------------------------------------------------------------
LiteralOf(default) == default.operands[1][2]

LEMMA LiteralEvaluates ==
  ASSUME NEW doc \in Documents, NEW f \in DOMAIN doc.fields, IsLiteral(doc.fields[f].default), NEW values
  PROVE  LET default == doc.fields[f].default
         IN  Evaluate(default, values) = LiteralOf(default) /\ ~Raises(default, values)
<1> DEFINE default == doc.fields[f].default
<1>1. default.kind = "literal" /\ Refers(default) = {}
  BY DEF IsLiteral
<1>2. 1 \in DOMAIN default.operands
  BY <1>1, DocumentsAssumption
<1>3. default.operands[1][1] # "field"
  BY <1>1, <1>2 DEF Refers
<1>4. Operand(default.operands[1], values) = LiteralOf(default)
  BY <1>3 DEF Operand, LiteralOf
<1> QED
  BY <1>1, <1>4 DEF Evaluate, Raises

(* When the missing defaults are literals nothing has to be ordered, and a   *)
(* Record is one of the Schema when what it gives fits, what it leaves out   *)
(* may be left out, and the identity is there.                               *)
LEMMA LiteralRecord ==
  ASSUME NEW doc \in Documents, WellFormed(doc),
         NEW given, given \in [DOMAIN given -> Values \cup {Null}],
         \A f \in Pending(doc, given) : IsLiteral(doc.fields[f].default),
         DOMAIN given \subseteq DOMAIN doc.fields,
         \A f \in DOMAIN given : Fits(doc.fields[f], given[f]),
         \A f \in DOMAIN doc.fields \ DOMAIN given :
           doc.fields[f].nullable \/ doc.fields[f].default.kind # "none",
         \A f \in IdentityOf(doc) :
           \/ f \in DOMAIN given /\ given[f] # Null
           \/ f \in Pending(doc, given) /\ LiteralOf(doc.fields[f].default) # Null
  PROVE  Accepts(doc, given)
<1> DEFINE pending == Pending(doc, given)
           full == [f \in DOMAIN given \cup pending |->
                      IF f \in DOMAIN given THEN given[f] ELSE LiteralOf(doc.fields[f].default)]
<1>1. pending = {f \in DOMAIN doc.fields \ DOMAIN given : doc.fields[f].default.kind # "none"}
  BY DEF Pending
<1>2. \A f \in pending : doc.fields[f].default.kind = "literal" /\ Refers(doc.fields[f].default) = {}
  BY DEF IsLiteral
<1>3. \A f \in pending : Fits(doc.fields[f], LiteralOf(doc.fields[f].default))
  BY <1>1, <1>2, LiteralEvaluates DEF WellFormed
<1>4. \A f \in pending : LiteralOf(doc.fields[f].default) \in Values \cup {Null}
  BY <1>1, <1>3, DocumentsAssumption DEF Fits, OfType
<1>5. full \in [DOMAIN given \cup pending -> Values \cup {Null}]
  BY <1>4
<1>6. Filled(doc, given, full)
  <2>1. \A f \in pending : /\ ~Raises(doc.fields[f].default, full)
                           /\ Evaluate(doc.fields[f].default, full) = LiteralOf(doc.fields[f].default)
    BY <1>1, LiteralEvaluates
  <2> QED
    BY <1>1, <2>1 DEF Filled
<1>7. Ordered(doc, given)
  <2> DEFINE before == [f \in pending |-> {}]
  <2>1. before \in [pending -> SUBSET pending]
    OBVIOUS
  <2>2. \A f \in pending : f \notin before[f] /\ Refers(doc.fields[f].default) = {}
    BY <1>2
  <2> QED
    BY <2>1, <2>2 DEF Ordered
<1>8. \A f \in DOMAIN full : Fits(doc.fields[f], full[f])
  BY <1>3
<1>9. \A f \in DOMAIN doc.fields \ DOMAIN full : doc.fields[f].nullable
  BY <1>1
<1>10. \A f \in IdentityOf(doc) : f \in DOMAIN full /\ full[f] # Null
  BY <1>1
<1>11. full \in Validated(doc, given)
  BY <1>5, <1>6, <1>7, <1>8, <1>9, <1>10 DEF Validated
<1> QED
  BY <1>11 DEF Accepts

(* A mild step changes of a field only what makes it admit more.             *)
LEMMA MildField ==
  ASSUME NEW source, NEW target, target.nullable \in BOOLEAN,
         \A c \in FieldChanges(source, target) : c <= DataChange
  PROVE  /\ target.default = source.default
         /\ source.nullable => target.nullable
         /\ \A value : Fits(source, value) => Fits(target, value)
<1>1. Conditional \notin FieldChanges(source, target) /\ Breaking \notin FieldChanges(source, target)
  OBVIOUS
<1>2. target.default = source.default /\ target.constraints = source.constraints
  BY <1>1 DEF FieldChanges, Class
<1>3. source.nullable => target.nullable
  <2>1. Breaking \notin NullableChange(source, target)
    BY <1>1 DEF FieldChanges
  <2> QED
    BY <2>1 DEF NullableChange, Class
<1>4. source.type.values \subseteq target.type.values
  <2>1. Breaking \notin TypeChange(source.type, target.type)
        /\ Conditional \notin TypeChange(source.type, target.type)
    BY <1>1 DEF FieldChanges
  <2>2. source.type = target.type \/ AddsEnumValues(source.type, target.type)
    BY <2>1 DEF TypeChange
  <2> QED
    BY <2>2 DEF AddsEnumValues
<1> QED
  BY <1>2, <1>3, <1>4 DEF Fits, OfType, Meets

(* Backward-compatible and physical changes keep every Record that literal   *)
(* defaults complete, after any number of them.                              *)
THEOREM MildStepsKeepTheRecordAlways == Spec => []MildStepsKeepTheRecord
<1> DEFINE Kept == MildStepsKeepTheRecord /\ record \in [DOMAIN record -> Values \cup {Null}]
<1>1. ASSUME NEW doc \in Documents, WellFormed(doc), NEW given, NEW full \in Validated(doc, given)
      PROVE  Accepts(doc, full) /\ full \in [DOMAIN full -> Values \cup {Null}]
  <2>1. /\ full \in [DOMAIN given \cup Pending(doc, given) -> Values \cup {Null}]
        /\ DOMAIN given \subseteq DOMAIN doc.fields
        /\ \A f \in DOMAIN full : Fits(doc.fields[f], full[f])
        /\ \A f \in DOMAIN doc.fields \ DOMAIN full : doc.fields[f].nullable
        /\ \A f \in IdentityOf(doc) : f \in DOMAIN full /\ full[f] # Null
    BY <1>1 DEF Validated
  <2>2. DOMAIN full \subseteq DOMAIN doc.fields /\ Pending(doc, full) = {}
    BY <2>1 DEF Pending
  <2>3. full \in [DOMAIN full -> Values \cup {Null}]
    BY <2>1
  <2> QED
    BY <1>1, <2>1, <2>2, <2>3, LiteralRecord
<1>2. ASSUME NEW source \in Documents, WellFormed(source), NEW target \in Documents, WellFormed(target),
             NEW given, given \in [DOMAIN given -> Values \cup {Null}],
             Classify(source, target) <= DataChange,
             \A f \in Pending(target, given) : IsLiteral(target.fields[f].default),
             (\A f \in Pending(source, given) : IsLiteral(source.fields[f].default))
               => Accepts(source, given)
      PROVE  Accepts(target, given)
  <2>1. Classify(source, target) < Breaking /\ \A c \in Changes(source, target) : c <= DataChange
    <3>1. Changes(source, target) \subseteq 0..5
      BY PartsOfChanges
    <3> QED
      BY <1>2, <3>1, ClassifyBounds
  <2>2. /\ target.identity = source.identity
        /\ DOMAIN source.fields \subseteq DOMAIN target.fields
        /\ \A f \in DOMAIN target.fields \ DOMAIN source.fields :
             AddedField(target.fields[f]) # Breaking
    BY <2>1, UnbrokenStep
  <2>3. ASSUME NEW f \in DOMAIN source.fields
        PROVE  /\ target.fields[f].default = source.fields[f].default
               /\ source.fields[f].nullable => target.fields[f].nullable
               /\ \A value : Fits(source.fields[f], value) => Fits(target.fields[f], value)
    <3>1. f \in DOMAIN source.fields \cap DOMAIN target.fields
      BY <2>2
    <3>2. FieldChanges(source.fields[f], target.fields[f]) \subseteq Changes(source, target)
      BY <3>1, PartsOfChanges
    <3>3. \A c \in FieldChanges(source.fields[f], target.fields[f]) : c <= DataChange
      BY <2>1, <3>2
    <3>4. target.fields[f].nullable \in BOOLEAN
      BY <3>1, DocumentsAssumption
    <3> QED
      BY <3>3, <3>4, MildField
  <2>4. \A f \in Pending(source, given) :
          f \in Pending(target, given) /\ IsLiteral(source.fields[f].default)
    BY <1>2, <2>2, <2>3 DEF Pending
  <2>5. PICK full : full \in Validated(source, given)
    BY <1>2, <2>4 DEF Accepts
  <2>6. /\ DOMAIN full = DOMAIN given \cup Pending(source, given)
        /\ DOMAIN given \subseteq DOMAIN source.fields
        /\ Filled(source, given, full)
        /\ \A f \in DOMAIN full : Fits(source.fields[f], full[f])
        /\ \A f \in DOMAIN source.fields \ DOMAIN full : source.fields[f].nullable
        /\ \A f \in IdentityOf(source) : f \in DOMAIN full /\ full[f] # Null
    BY <2>5 DEF Validated
  <2>7. \A f \in DOMAIN given : Fits(target.fields[f], given[f])
    BY <2>3, <2>6 DEF Filled
  <2>8. ASSUME NEW f \in DOMAIN target.fields \ DOMAIN given
        PROVE  target.fields[f].nullable \/ target.fields[f].default.kind # "none"
    <3>1. CASE f \notin DOMAIN source.fields
      <4>1. AddedField(target.fields[f]) # Breaking
        BY <2>2, <2>8, <3>1
      <4> QED
        BY <4>1 DEF AddedField
    <3>2. CASE f \in DOMAIN source.fields /\ f \in DOMAIN full
      <4>1. source.fields[f].default.kind # "none"
        BY <2>6, <2>8, <3>2 DEF Pending
      <4> QED
        BY <2>3, <3>2, <4>1
    <3>3. CASE f \in DOMAIN source.fields /\ f \notin DOMAIN full
      BY <2>3, <2>6, <3>3
    <3> QED
      BY <3>1, <3>2, <3>3
  <2>9. ASSUME NEW f \in IdentityOf(target)
        PROVE  \/ f \in DOMAIN given /\ given[f] # Null
               \/ f \in Pending(target, given) /\ LiteralOf(target.fields[f].default) # Null
    <3>1. f \in DOMAIN full /\ full[f] # Null
      BY <2>2, <2>6, <2>9 DEF IdentityOf
    <3>2. CASE f \in DOMAIN given
      BY <2>6, <3>1, <3>2 DEF Filled
    <3>3. CASE f \notin DOMAIN given
      <4>1. f \in Pending(source, given)
        BY <2>6, <3>1, <3>3
      <4>2. f \in DOMAIN source.fields /\ IsLiteral(source.fields[f].default)
        BY <2>4, <4>1 DEF Pending
      <4>3. full[f] = LiteralOf(source.fields[f].default)
        BY <2>6, <4>1, <4>2, LiteralEvaluates DEF Filled
      <4>4. target.fields[f].default = source.fields[f].default
        BY <2>3, <4>2
      <4>5. f \in Pending(target, given)
        BY <2>4, <4>1
      <4> QED
        BY <3>1, <4>3, <4>4, <4>5
    <3> QED
      BY <3>2, <3>3
  <2>10. DOMAIN given \subseteq DOMAIN target.fields
    BY <2>2, <2>6
  <2> QED
    BY <1>2, <2>7, <2>8, <2>9, <2>10, LiteralRecord
<1>3. Init => Kept
  <2> SUFFICES ASSUME Init PROVE Kept
    OBVIOUS
  <2>1. document \in Documents /\ WellFormed(document)
    BY DEF Init
  <2>2. PICK given \in Inputs : record \in Validated(document, given)
    BY DEF Init
  <2> QED
    BY <1>1, <2>1, <2>2 DEF MildStepsKeepTheRecord
<1>4. TypeOK /\ Kept /\ [Next]_vars => Kept'
  <2> SUFFICES ASSUME TypeOK, Kept, [Next]_vars PROVE Kept'
    OBVIOUS
  <2>1. ASSUME NEW target \in Documents, NEW allowBreaking \in BOOLEAN,
               Publish(target, allowBreaking)
        PROVE  Kept'
    <3>1. document' = target /\ record' = record /\ WellFormed(target)
      BY <2>1 DEF Publish
    <3>2. ASSUME worst' <= DataChange,
                 \A f \in Pending(target, record) : IsLiteral(target.fields[f].default)
          PROVE  Accepts(target, record)
      <4>1. worst <= DataChange /\ Classify(document, target) <= DataChange
        BY <2>1, <3>2, ClassifyBounds DEF Publish, TypeOK
      <4>2. (\A f \in Pending(document, record) : IsLiteral(document.fields[f].default))
              => Accepts(document, record)
        BY <4>1 DEF MildStepsKeepTheRecord
      <4> QED
        BY <1>2, <3>1, <3>2, <4>1, <4>2 DEF TypeOK
    <3> QED
      BY <3>1, <3>2 DEF MildStepsKeepTheRecord
  <2>2. ASSUME NEW given \in Inputs, Write(given) PROVE Kept'
    <3>1. record' \in Validated(document, given) /\ document' = document
      BY <2>2 DEF Write
    <3>2. document \in Documents /\ WellFormed(document)
      BY DEF TypeOK
    <3> QED
      BY <1>1, <3>1, <3>2 DEF MildStepsKeepTheRecord
  <2>3. CASE UNCHANGED vars
    BY <2>3 DEF MildStepsKeepTheRecord, vars
  <2> QED
    BY <2>1, <2>2, <2>3 DEF Next
<1> QED
  BY <1>3, <1>4, TypeCorrect, PTL DEF Spec
-----------------------------------------------------------------------------
(* What the classes up to DATA_CHANGE say of a field and of a definition:    *)
(* the classification tests exactly this.                                    *)
SameOrMoreValues(source, target) == source = target \/ AddsEnumValues(source, target)

AdmitsMore(source, target) ==
  /\ SameOrMoreValues(source.type, target.type)
  /\ source.cardinality = target.cardinality
  /\ source.default = target.default
  /\ source.constraints = target.constraints
  /\ source.nullable => target.nullable
  /\ source.mutable => target.mutable

MildlyExtends(source, target) ==
  /\ source.semanticKind = target.semanticKind
  /\ source.identity = target.identity
  /\ source.profile = target.profile
  /\ source.guarantees = target.guarantees
  /\ DOMAIN source.indexes \subseteq DOMAIN target.indexes
  /\ DOMAIN source.fields \subseteq DOMAIN target.fields
  /\ \A f \in DOMAIN source.fields : AdmitsMore(source.fields[f], target.fields[f])
  /\ \A f \in DOMAIN target.fields \ DOMAIN source.fields :
       target.fields[f].nullable \/ target.fields[f].default.kind # "none"

(* A field is classified up to DATA_CHANGE iff it admits more.  An enum is   *)
(* no wider than another: it is the same kind.                               *)
LEMMA MildFieldChanges ==
  ASSUME NEW source, NEW target,
         source.nullable \in BOOLEAN, target.nullable \in BOOLEAN,
         source.mutable \in BOOLEAN, target.mutable \in BOOLEAN
  PROVE  (\A c \in FieldChanges(source, target) : c <= DataChange) <=> AdmitsMore(source, target)
<1>1. ASSUME \A c \in FieldChanges(source, target) : c <= DataChange
      PROVE  AdmitsMore(source, target)
  <2>1. Conditional \notin FieldChanges(source, target) /\ Breaking \notin FieldChanges(source, target)
    BY <1>1
  <2>2. /\ source.cardinality = target.cardinality
        /\ source.default = target.default
        /\ source.constraints = target.constraints
        /\ source.mutable => target.mutable
    BY <2>1 DEF FieldChanges, Class
  <2>3. source.nullable => target.nullable
    <3>1. Breaking \notin NullableChange(source, target)
      BY <2>1 DEF FieldChanges
    <3> QED
      BY <3>1 DEF NullableChange, Class
  <2>4. SameOrMoreValues(source.type, target.type)
    <3>1. Breaking \notin TypeChange(source.type, target.type)
          /\ Conditional \notin TypeChange(source.type, target.type)
      BY <2>1 DEF FieldChanges
    <3> QED
      BY <3>1 DEF TypeChange, SameOrMoreValues
  <2> QED
    BY <2>2, <2>3, <2>4 DEF AdmitsMore
<1>2. ASSUME AdmitsMore(source, target), NEW c \in FieldChanges(source, target)
      PROVE  c <= DataChange
  <2>1. \A d \in TypeChange(source.type, target.type) : d = Backward
    <3>1. CASE source.type = target.type
      BY <3>1 DEF TypeChange
    <3>2. CASE source.type # target.type
      <4>1. AddsEnumValues(source.type, target.type)
        BY <1>2, <3>2 DEF AdmitsMore, SameOrMoreValues
      <4>2. ~Widens(source.type, target.type)
        BY <4>1, WidthAssumption DEF AddsEnumValues, Widens
      <4> QED
        BY <4>1, <4>2 DEF TypeChange
    <3> QED
      BY <3>1, <3>2
  <2>2. \A d \in NullableChange(source, target) : d = Backward
    BY <1>2 DEF AdmitsMore, NullableChange, Class
  <2>3. \A d \in Class(source.mutable # target.mutable, IF target.mutable THEN Backward ELSE Breaking) : d = Backward
    BY <1>2 DEF AdmitsMore, Class
  <2>4. /\ Class(source.cardinality # target.cardinality, Breaking) = {}
        /\ Class(source.default # target.default, Conditional) = {}
        /\ Class(source.constraints # target.constraints, Conditional) = {}
    BY <1>2 DEF AdmitsMore, Class
  <2>5. \A d \in Class(source.metadata # target.metadata, Metadata) : d = Metadata
    BY DEF Class
  <2> QED
    BY <1>2, <2>1, <2>2, <2>3, <2>4, <2>5 DEF FieldChanges
<1> QED
  BY <1>1, <1>2

(* A step is classified up to DATA_CHANGE iff it extends mildly.             *)
LEMMA MildStep ==
  ASSUME NEW source \in Documents, NEW target \in Documents
  PROVE  Classify(source, target) <= DataChange <=> MildlyExtends(source, target)
<1> DEFINE old == DOMAIN source.fields
           new == DOMAIN target.fields
<1>1. \A f \in old \cap new :
        (\A c \in FieldChanges(source.fields[f], target.fields[f]) : c <= DataChange)
          <=> AdmitsMore(source.fields[f], target.fields[f])
  BY MildFieldChanges, DocumentsAssumption
<1>2. ASSUME Classify(source, target) <= DataChange
      PROVE  MildlyExtends(source, target)
  <2>1. /\ Changes(source, target) \subseteq 0..5
        /\ \A c \in Changes(source, target) : c <= Classify(source, target)
        /\ Classify(source, target) \in 0..5
    BY PartsOfChanges, ClassifyBounds
  <2>2. \A c \in Changes(source, target) : c <= DataChange
    BY <1>2, <2>1
  <2>3. Conditional \notin Changes(source, target) /\ Breaking \notin Changes(source, target)
    BY <2>2
  <2>4. /\ source.semanticKind = target.semanticKind
        /\ source.identity = target.identity
        /\ old \subseteq new
    <3>1. Breaking \notin ShapeChanges(source, target)
      BY <2>3, PartsOfChanges
    <3> QED
      BY <3>1 DEF ShapeChanges, Class
  <2>5. source.profile = target.profile
    <3>1. /\ Breaking \notin ProfileChange(source.profile, target.profile)
          /\ Conditional \notin ProfileChange(source.profile, target.profile)
      BY <2>3, PartsOfChanges
    <3> QED
      BY <3>1 DEF ProfileChange, Class
  <2>6. DOMAIN source.indexes \subseteq DOMAIN target.indexes
    <3>1. Conditional \notin IndexChanges(source.indexes, target.indexes)
      BY <2>3 DEF Changes
    <3> QED
      BY <3>1 DEF IndexChanges, Class
  <2>7. source.guarantees = target.guarantees
    <3>1. Conditional \notin Class(source.guarantees # target.guarantees, Conditional)
      BY <2>3 DEF Changes
    <3> QED
      BY <3>1 DEF Class
  <2>8. \A f \in old : AdmitsMore(source.fields[f], target.fields[f])
    <3>1. \A f \in old \cap new :
            FieldChanges(source.fields[f], target.fields[f]) \subseteq Changes(source, target)
      BY PartsOfChanges
    <3> QED
      BY <1>1, <2>2, <2>4, <3>1
  <2>9. ASSUME NEW f \in new \ old
        PROVE  target.fields[f].nullable \/ target.fields[f].default.kind # "none"
    <3>1. AddedField(target.fields[f]) # Breaking
      BY <2>3, PartsOfChanges
    <3> QED
      BY <3>1 DEF AddedField
  <2> QED
    BY <2>4, <2>5, <2>6, <2>7, <2>8, <2>9 DEF MildlyExtends
<1>3. ASSUME MildlyExtends(source, target)
      PROVE  Classify(source, target) <= DataChange
  <2> DEFINE kept == UNION {FieldChanges(source.fields[f], target.fields[f]) : f \in old \cap new}
             added == {AddedField(target.fields[f]) : f \in new \ old}
  <2>1. ShapeChanges(source, target) = {}
    BY <1>3 DEF MildlyExtends, ShapeChanges, Class
  <2>2. ProfileChange(source.profile, target.profile) = {}
    BY <1>3 DEF MildlyExtends, ProfileChange, Class
  <2>3. \A c \in IndexChanges(source.indexes, target.indexes) : c = DataChange
    BY <1>3 DEF MildlyExtends, IndexChanges, Class
  <2>4. Class(source.guarantees # target.guarantees, Conditional) = {}
    BY <1>3 DEF MildlyExtends, Class
  <2>5. \A c \in Class(source.labels # target.labels, Metadata) : c = Metadata
    BY DEF Class
  <2>6. \A c \in kept : c <= DataChange
    BY <1>1, <1>3 DEF MildlyExtends
  <2>7. \A c \in added : c <= DataChange
    BY <1>3 DEF MildlyExtends, AddedField
  <2>8. Changes(source, target)
          = ShapeChanges(source, target) \cup added \cup kept
            \cup IndexChanges(source.indexes, target.indexes)
            \cup ProfileChange(source.profile, target.profile)
            \cup Class(source.guarantees # target.guarantees, Conditional)
            \cup Class(source.labels # target.labels, Metadata)
    BY DEF Changes
  <2> HIDE DEF kept, added
  <2>9. \A c \in Changes(source, target) : c <= DataChange
    BY <2>1, <2>2, <2>3, <2>4, <2>5, <2>6, <2>7, <2>8
  <2> QED
    BY <2>9, ClassifyBounds
<1> QED
  BY <1>2, <1>3

(* Mild extensions compose.  A field that a step added stays optional, or    *)
(* keeps the default with which it was added.                                *)
LEMMA MildExtensionsCompose ==
  ASSUME NEW first, NEW second, NEW third,
         MildlyExtends(first, second), MildlyExtends(second, third)
  PROVE  MildlyExtends(first, third)
<1>1. ASSUME NEW one, NEW two, NEW three, AdmitsMore(one, two), AdmitsMore(two, three)
      PROVE  AdmitsMore(one, three)
  <2>1. SameOrMoreValues(one.type, three.type)
    BY <1>1 DEF AdmitsMore, SameOrMoreValues, AddsEnumValues
  <2> QED
    BY <1>1, <2>1 DEF AdmitsMore
<1>2. /\ DOMAIN first.fields \subseteq DOMAIN second.fields
      /\ DOMAIN second.fields \subseteq DOMAIN third.fields
      /\ \A f \in DOMAIN first.fields : AdmitsMore(first.fields[f], second.fields[f])
      /\ \A f \in DOMAIN second.fields : AdmitsMore(second.fields[f], third.fields[f])
  BY DEF MildlyExtends
<1>3. \A f \in DOMAIN first.fields : AdmitsMore(first.fields[f], third.fields[f])
  BY <1>1, <1>2
<1>4. ASSUME NEW f \in DOMAIN third.fields \ DOMAIN first.fields
      PROVE  third.fields[f].nullable \/ third.fields[f].default.kind # "none"
  <2>1. CASE f \in DOMAIN second.fields
    <3>1. second.fields[f].nullable \/ second.fields[f].default.kind # "none"
      BY <1>4, <2>1 DEF MildlyExtends
    <3>2. /\ second.fields[f].default = third.fields[f].default
          /\ second.fields[f].nullable => third.fields[f].nullable
      BY <1>2, <2>1 DEF AdmitsMore
    <3> QED
      BY <3>1, <3>2
  <2>2. CASE f \notin DOMAIN second.fields
    BY <1>4, <2>2 DEF MildlyExtends
  <2> QED
    BY <2>1, <2>2
<1> QED
  BY <1>2, <1>3, <1>4 DEF MildlyExtends

LEMMA MildlyExtendsItself ==
  ASSUME NEW doc
  PROVE  MildlyExtends(doc, doc)
BY DEF MildlyExtends, AdmitsMore, SameOrMoreValues

(* What a chain of mild steps makes of a Schema is mild as one step.         *)
THEOREM MildStepsComposeAlways == Spec => []MildStepsCompose
<1> DEFINE Extended == worst <= DataChange => MildlyExtends(origin, document)
<1>1. Init => Extended
  BY MildlyExtendsItself DEF Init
<1>2. TypeOK /\ Extended /\ [Next]_vars => Extended'
  <2> SUFFICES ASSUME TypeOK, Extended, [Next]_vars PROVE Extended'
    OBVIOUS
  <2>1. ASSUME NEW target \in Documents, NEW allowBreaking \in BOOLEAN,
               Publish(target, allowBreaking), worst' <= DataChange
        PROVE  MildlyExtends(origin', document')
    <3>1. document' = target /\ origin' = origin /\ document \in Documents
      BY <2>1 DEF Publish, TypeOK
    <3>2. worst <= DataChange /\ Classify(document, target) <= DataChange
      BY <2>1, ClassifyBounds DEF Publish, TypeOK
    <3>3. MildlyExtends(origin, document) /\ MildlyExtends(document, target)
      BY <3>1, <3>2, MildStep
    <3> QED
      BY <3>1, <3>3, MildExtensionsCompose
  <2>2. ASSUME NEW given \in Inputs, Write(given) PROVE MildlyExtends(origin', document')
    BY <2>2, MildlyExtendsItself DEF Write
  <2>3. CASE UNCHANGED vars
    BY <2>3 DEF vars
  <2> QED
    BY <2>1, <2>2, <2>3 DEF Next
<1>3. TypeOK /\ Extended => MildStepsCompose
  BY MildStep DEF TypeOK, MildStepsCompose
<1> QED
  BY <1>1, <1>2, <1>3, TypeCorrect, PTL DEF Spec
-----------------------------------------------------------------------------
(* Definitions that clients send make the versions of an evolving Schema:    *)
(* what holds of any of these holds of what is published.                    *)
THEOREM DocumentsEvolve == DocSpec => Spec
<1>1. DocInit => Init
  BY DEF DocInit
<1>2. [DocNext]_vars => [Next]_vars
  BY PublishableAssumption DEF DocNext, PublishDefinition, Next
<1> QED
  BY <1>1, <1>2, PTL DEF DocSpec, Spec

(* A kind and those it may turn into without breaking.                       *)
TurnsInto(old, new) == old = new \/ {old, new} \subseteq {"int8", "int16", "int32", "int64"}

LEMMA KindsTurn ==
  ASSUME NEW source, NEW target, Breaking \notin FieldChanges(source, target)
  PROVE  TurnsInto(source.type.kind, target.type.kind)
<1>1. Breaking \notin TypeChange(source.type, target.type)
  BY DEF FieldChanges
<1>2. CASE Widens(source.type, target.type)
  BY <1>2, IntegersAssumption DEF Widens, TurnsInto
<1>3. CASE source.type = target.type \/ AddsEnumValues(source.type, target.type)
  BY <1>3 DEF AddsEnumValues, TurnsInto
<1> QED
  BY <1>1, <1>2, <1>3 DEF TypeChange

(* A role takes all integers or none.                                        *)
LEMMA RolesTakeIntegers ==
  ASSUME NEW kind \in DOMAIN Roles, NEW role \in DOMAIN Roles[kind],
         NEW old \in Roles[kind][role].kinds, NEW new, TurnsInto(old, new)
  PROVE  new \in Roles[kind][role].kinds
<1> USE DEF Roles, Role, NoRoles, Numbers, LogicalKinds, ScalarKinds, Texting, References, TurnsInto
<1>1. CASE kind = "relational"
  BY <1>1
<1>2. CASE kind = "document"
  BY <1>2
<1>3. CASE kind = "keyValue"
  BY <1>3
<1>4. CASE kind = "search"
  BY <1>4
<1>5. CASE kind = "geospatial"
  BY <1>5
<1>6. CASE kind = "timeSeries"
  BY <1>6
<1>7. CASE kind = "relation"
  BY <1>7
<1>8. CASE kind \in {"object", "artifact", "media", "cache"}
  BY <1>8
<1> QED
  BY <1>1, <1>2, <1>3, <1>4, <1>5, <1>6, <1>7, <1>8

(* Whatever is published has a valid profile with the roles of its kind.     *)
LEMMA PublishableHasRoles ==
  ASSUME NEW doc \in Publishable
  PROVE  /\ doc.profile.kind # "none" => ValidProfile(doc)
         /\ doc.profile.kind = "none" => DOMAIN doc.profile.roles = {}
         /\ DOMAIN doc.profile.roles # {} =>
              /\ doc.profile.kind \in DOMAIN Roles
              /\ DOMAIN doc.profile.roles = DOMAIN Roles[doc.profile.kind]
<1>1. PICK catalog, definition : doc = ReadDocument(catalog, definition) /\ Outcome(catalog, definition) = "ok"
  BY DEF Publishable
<1> DEFINE given == doc.labels.extensions.profile
<1>2. ValidProfile(doc) /\ (given.kind # "none" => ReadableProfile(given))
  BY <1>1 DEF Outcome
<1>3. doc.profile = IF given.kind = "none" THEN NoProfile ELSE ReadProfile(given)
  BY <1>1 DEF ReadDocument
<1>4. CASE given.kind = "none"
  BY <1>2, <1>3, <1>4 DEF NoProfile, NoRoles
<1>5. CASE given.kind # "none"
  <2>1. given.kind \in DOMAIN Roles
    BY <1>2, <1>5 DEF ReadableProfile
  <2>2. DOMAIN doc.profile.roles = DOMAIN Roles[given.kind]
    BY <1>3, <1>5 DEF ReadProfile
  <2>3. given.kind \in ObjectKinds => DOMAIN Roles[given.kind] = {}
    BY DEF ObjectKinds, Roles, NoRoles
  <2>4. given.kind \notin ObjectKinds => doc.profile.kind = given.kind
    BY <1>3, <1>5 DEF ReadProfile
  <2>5. doc.profile.kind = "none" => DOMAIN doc.profile.roles = {}
    BY <1>5, <2>2, <2>3, <2>4
  <2> QED
    BY <1>2, <2>1, <2>2, <2>3, <2>4, <2>5
<1> QED
  BY <1>4, <1>5

(* Over publications that did not break, fields keep a kind that can play    *)
(* the roles of the profile somebody knows, and a relation stays the same.   *)
KindsKept ==
  /\ origin \in Publishable /\ document \in Publishable
  /\ worst < Breaking =>
       /\ \A f \in DOMAIN origin.fields :
            /\ f \in DOMAIN document.fields
            /\ TurnsInto(origin.fields[f].type.kind, document.fields[f].type.kind)
       /\ origin.profile.kind = "relation" => document.profile = origin.profile

LEMMA KindsKeptAlways == DocSpec => []KindsKept
<1>1. DocInit => KindsKept
  BY DEF DocInit, Init, KindsKept, TurnsInto
<1>2. TypeOK /\ KindsKept /\ [DocNext]_vars => KindsKept'
  <2> SUFFICES ASSUME TypeOK, KindsKept, [DocNext]_vars PROVE KindsKept'
    OBVIOUS
  <2>1. ASSUME NEW allowBreaking \in BOOLEAN, PublishDefinition(allowBreaking) PROVE KindsKept'
    <3>1. PICK target \in Publishable : Publish(target, allowBreaking)
      BY <2>1 DEF PublishDefinition
    <3>2. document' = target /\ origin' = origin /\ document \in Documents /\ target \in Documents
      BY <3>1, PublishableAssumption DEF Publish, TypeOK
    <3>3. ASSUME worst' < Breaking
          PROVE  /\ \A f \in DOMAIN origin.fields :
                      /\ f \in DOMAIN target.fields
                      /\ TurnsInto(origin.fields[f].type.kind, target.fields[f].type.kind)
                 /\ origin.profile.kind = "relation" => target.profile = origin.profile
      <4>1. worst < Breaking /\ Classify(document, target) < Breaking
        BY <3>1, <3>3, ClassifyBounds DEF Publish, TypeOK
      <4>2. ASSUME NEW f \in DOMAIN origin.fields
            PROVE  /\ f \in DOMAIN target.fields
                   /\ TurnsInto(origin.fields[f].type.kind, target.fields[f].type.kind)
        <5>1. /\ f \in DOMAIN document.fields
              /\ TurnsInto(origin.fields[f].type.kind, document.fields[f].type.kind)
          BY <4>1, <4>2 DEF KindsKept
        <5>2. f \in DOMAIN target.fields
              /\ Breaking \notin FieldChanges(document.fields[f], target.fields[f])
          BY <3>2, <4>1, <5>1, UnbrokenStep
        <5>3. TurnsInto(document.fields[f].type.kind, target.fields[f].type.kind)
          BY <5>2, KindsTurn
        <5> QED
          BY <5>1, <5>2, <5>3 DEF TurnsInto
      <4>3. origin.profile.kind = "relation" => target.profile = origin.profile
        <5>1. Breaking \notin ProfileChange(document.profile, target.profile)
          BY <4>1, ClassifyBounds, PartsOfChanges
        <5> QED
          BY <4>1, <5>1 DEF KindsKept, ProfileChange, Class
      <4> QED
        BY <4>2, <4>3
    <3> QED
      BY <3>1, <3>2, <3>3 DEF KindsKept
  <2>2. ASSUME NEW given \in Inputs, Write(given) PROVE KindsKept'
    BY <2>2 DEF KindsKept, Write, TurnsInto
  <2>3. CASE UNCHANGED vars
    BY <2>3 DEF KindsKept, vars
  <2> QED
    BY <2>1, <2>2, <2>3 DEF DocNext
<1> QED
  BY <1>1, <1>2, TypeCorrect, DocumentsEvolve, PTL DEF DocSpec

(* The fields of an older profile can play their roles in every later        *)
(* version up to a breaking one, and a relation is indexed.                  *)
THEOREM RolesStayOpenAlways == DocSpec => []RolesStayOpen
<1>1. KindsKept => RolesStayOpen
  <2> SUFFICES ASSUME KindsKept, worst < Breaking PROVE RolesStayOpen
    BY DEF RolesStayOpen
  <2> DEFINE profile == origin.profile
  <2>1. ASSUME NEW role \in DOMAIN profile.roles, NEW f \in Names(role, profile.roles[role])
        PROVE  /\ f \in DOMAIN document.fields
               /\ document.fields[f].type.kind \in Roles[profile.kind][role].kinds
    <3>1. /\ ValidProfile(origin) /\ profile.kind # "none"
          /\ profile.kind \in DOMAIN Roles /\ role \in DOMAIN Roles[profile.kind]
      BY <2>1, PublishableHasRoles DEF KindsKept
    <3>2. Plays(origin, f, Roles[profile.kind][role])
      BY <2>1, <3>1 DEF ValidProfile
    <3>3. /\ f \in DOMAIN document.fields
          /\ TurnsInto(origin.fields[f].type.kind, document.fields[f].type.kind)
      BY <3>2 DEF KindsKept, Plays
    <3> QED
      BY <3>1, <3>2, <3>3, RolesTakeIntegers DEF Plays
  <2>2. ASSUME profile.kind = "relation", NEW role \in DOMAIN profile.roles, NEW f \in Range(profile.roles[role])
        PROVE  EndpointIndexed(document, f)
    <3>1. document.profile = profile /\ document \in Publishable
      BY <2>2 DEF KindsKept
    <3>2. ValidProfile(document)
      BY <2>2, <3>1, PublishableHasRoles
    <3> QED
      BY <2>2, <3>1, <3>2 DEF ValidProfile
  <2> QED
    BY <2>1, <2>2 DEF RolesStayOpen
<1> QED
  BY <1>1, KindsKeptAlways, PTL
-----------------------------------------------------------------------------
(* A field, with its default, survives being written and read.               *)
LEMMA FieldReadsBack ==
  ASSUME NEW name, NEW item,
         ReadableDefault(Member(item, "defaultExpression", <<"value", Null>>))
  PROVE  /\ ReadField(WriteField(name, ReadField(item))) = ReadField(item)
         /\ ReadableDefault(WriteDefault(ReadField(item).default))
<1> DEFINE given   == Member(item, "defaultExpression", <<"value", Null>>)
           default == ReadDefault(given)
           field   == ReadField(item)
           written == WriteField(name, field)
<1>1. default.kind = "none" => default = NoDefault
  BY DEF ReadDefault, ReadableDefault, LiteralDefault
<1>2. default.kind # "none" =>
        default.kind \in {"literal", "field", "concat", "coalesce", "lower", "upper"}
  BY DEF ReadDefault, ReadableDefault, LiteralDefault, NoDefault
<1>3. ReadDefault(WriteDefault(default)) = default /\ ReadableDefault(WriteDefault(default))
  BY <1>1, <1>2 DEF ReadDefault, WriteDefault, ReadableDefault
<1>4. field.default = default
  BY DEF ReadField
<1>5. /\ DOMAIN written = FieldMembers
      /\ written.logicalType = field.type /\ written.cardinality = field.cardinality
      /\ written.nullable = field.nullable /\ written.mutable = field.mutable
      /\ written.constraints = field.constraints /\ written.metadata = field.metadata
      /\ written.defaultExpression = WriteDefault(field.default)
  BY DEF WriteField, FieldMembers
<1>6. field = [type |-> field.type, cardinality |-> field.cardinality, nullable |-> field.nullable,
               default |-> field.default, mutable |-> field.mutable,
               constraints |-> field.constraints, metadata |-> field.metadata]
  BY DEF ReadField
<1> HIDE DEF default, field, written
<1>7. ReadField(written) =
        [type |-> field.type, cardinality |-> field.cardinality, nullable |-> field.nullable,
         default |-> ReadDefault(WriteDefault(field.default)), mutable |-> field.mutable,
         constraints |-> field.constraints, metadata |-> field.metadata]
  BY <1>5 DEF ReadField, Member, FieldMembers
<1>8. ReadField(written) = field /\ ReadableDefault(WriteDefault(field.default))
  BY <1>3, <1>4, <1>6, <1>7
<1> QED
  BY <1>8 DEF field, written

(* What is published can be read of what to_dict writes.                     *)
LEMMA DocumentReadsBack ==
  ASSUME NEW doc \in Publishable
  PROVE  /\ Outcome(doc.catalog, WriteDocument(doc)) = "ok"
         /\ ReadDocument(doc.catalog, WriteDocument(doc)) = doc
<1> DEFINE written == WriteDocument(doc)
           again   == ReadDocument(doc.catalog, written)
<1>1. PICK catalog, definition : doc = ReadDocument(catalog, definition) /\ Outcome(catalog, definition) = "ok"
  BY DEF Publishable
<1> DEFINE items   == ByName(definition.fields)
           indexes == Member(definition, "indexes", [name \in {} |-> {}])
<1>2. Readable(catalog, definition) /\ doc.catalog = catalog
  BY <1>1 DEF Outcome, ReadDocument
<1>3. /\ doc.fields = [name \in DOMAIN items |-> ReadField(items[name])]
      /\ doc.indexes = [name \in DOMAIN indexes |-> ReadIndex(indexes[name])]
  BY <1>1 DEF ReadDocument
<1>4. /\ DOMAIN items # {}
      /\ \A name \in DOMAIN items :
           ReadableDefault(Member(items[name], "defaultExpression", <<"value", Null>>))
  <2>1. ReadableFields(definition.fields)
    BY <1>2 DEF Readable
  <2> QED
    BY <2>1 DEF ReadableFields, ByName
<1>5. /\ DOMAIN written = DefinitionMembers
      /\ written.semanticKind = doc.semanticKind /\ written.identity = doc.identity
      /\ written.indexes = doc.indexes /\ written.guarantees = doc.guarantees
      /\ written.policies = doc.labels.policies /\ written.extensions = doc.labels.extensions
      /\ written.compatibility = doc.compatibility /\ written.fingerprint = doc
      /\ written.address = "own" /\ written.fields.form = "array"
      /\ written.fields.items = [name \in DOMAIN doc.fields |-> WriteField(name, doc.fields[name])]
  BY DEF WriteDocument, DefinitionMembers
<1>6. /\ doc = [catalog |-> doc.catalog, semanticKind |-> doc.semanticKind, fields |-> doc.fields,
                identity |-> doc.identity, indexes |-> doc.indexes, profile |-> doc.profile,
                guarantees |-> doc.guarantees, labels |-> doc.labels, compatibility |-> doc.compatibility]
      /\ doc.labels = [extensions |-> doc.labels.extensions, policies |-> doc.labels.policies]
      /\ doc.profile = IF doc.labels.extensions.profile.kind = "none" THEN NoProfile
                                                                     ELSE ReadProfile(doc.labels.extensions.profile)
  BY <1>1 DEF ReadDocument
<1>7. IsInjective(doc.identity)
  BY <1>1, <1>2 DEF Readable, ReadDocument
<1>8. \A name \in DOMAIN indexes : ReadableIndex(indexes[name])
  BY <1>2 DEF Readable, Member
<1> HIDE DEF written, items, indexes
<1>9. ByName(written.fields) = [name \in DOMAIN doc.fields |-> WriteField(name, doc.fields[name])]
  <2> DEFINE listed == written.fields.items
  <2>1. /\ DOMAIN listed = DOMAIN doc.fields
        /\ \A i \in DOMAIN listed : listed[i] = WriteField(i, doc.fields[i]) /\ listed[i].name = i
    BY <1>5 DEF WriteField
  <2>2. {listed[i].name : i \in DOMAIN listed} = DOMAIN doc.fields
    BY <2>1
  <2>3. \A name \in DOMAIN doc.fields :
          (CHOOSE i \in DOMAIN listed : listed[i].name = name) = name
    BY <2>1
  <2> QED
    BY <1>5, <2>1, <2>2, <2>3 DEF ByName
<1>10. \A name \in DOMAIN doc.fields : ReadField(WriteField(name, doc.fields[name])) = doc.fields[name]
  BY <1>3, <1>4, FieldReadsBack
<1>11. \A name \in DOMAIN doc.indexes :
         ReadableIndex(doc.indexes[name]) /\ ReadIndex(doc.indexes[name]) = doc.indexes[name]
  BY <1>3, <1>8 DEF ReadableIndex, ReadIndex, Member
<1>12. again = doc
  <2>1. again.fields = doc.fields
    BY <1>3, <1>9, <1>10 DEF ReadDocument
  <2>2. again.indexes = doc.indexes
    BY <1>3, <1>5, <1>11 DEF ReadDocument, Member, DefinitionMembers
  <2>3. again.labels = doc.labels
    BY <1>5, <1>6 DEF ReadDocument, Member, DefinitionMembers
  <2>4. again.profile = doc.profile
    BY <1>5, <1>6 DEF ReadDocument, Member, DefinitionMembers
  <2>5. /\ again.catalog = doc.catalog /\ again.semanticKind = doc.semanticKind
        /\ again.identity = doc.identity /\ again.guarantees = doc.guarantees
        /\ again.compatibility = doc.compatibility
    BY <1>5 DEF ReadDocument, Member, DefinitionMembers
  <2>6. again = [catalog |-> again.catalog, semanticKind |-> again.semanticKind, fields |-> again.fields,
                 identity |-> again.identity, indexes |-> again.indexes, profile |-> again.profile,
                 guarantees |-> again.guarantees, labels |-> again.labels, compatibility |-> again.compatibility]
    BY DEF ReadDocument
  <2> HIDE DEF again
  <2> QED
    BY <1>6, <2>1, <2>2, <2>3, <2>4, <2>5, <2>6
<1> HIDE DEF again
<1>13. ReadableFields(written.fields)
  <2>1. \A name \in DOMAIN doc.fields :
          LET item == WriteField(name, doc.fields[name])
          IN  /\ "logicalType" \in DOMAIN item /\ DOMAIN item \subseteq FieldMembers
              /\ "name" \in DOMAIN item /\ item.name = name
              /\ Member(item, "defaultExpression", <<"value", Null>>) = WriteDefault(doc.fields[name].default)
    BY DEF WriteField, FieldMembers, Member
  <2>2. \A name \in DOMAIN doc.fields : ReadableDefault(WriteDefault(doc.fields[name].default))
    BY <1>3, <1>4, FieldReadsBack
  <2> DEFINE listed == written.fields.items
             names  == [i \in DOMAIN listed |-> listed[i].name]
  <2>3. DOMAIN listed = DOMAIN doc.fields /\ DOMAIN listed # {}
    BY <1>3, <1>4, <1>5
  <2>4. \A i \in DOMAIN listed : names[i] = i
    BY <1>5, <2>1, <2>3
  <2>5. IsInjective(names)
    BY <2>4 DEF IsInjective
  <2> QED
    BY <1>5, <2>1, <2>2, <2>3, <2>5 DEF ReadableFields
<1>14. Readable(doc.catalog, written)
  <2>1. definition.semanticKind \in DOMAIN Roles /\ doc.semanticKind = definition.semanticKind
    BY <1>1, <1>2 DEF Readable, ReadDocument
  <2>2. /\ {"semanticKind", "fields"} \subseteq DOMAIN written /\ DOMAIN written \subseteq DefinitionMembers
        /\ Member(written, "identity", <<>>) = doc.identity
        /\ Member(written, "address", "own") = "own"
        /\ Member(written, "fingerprint", again) = doc
    BY <1>5 DEF DefinitionMembers, Member
  <2> QED
    BY <1>5, <1>7, <1>11, <1>12, <1>13, <2>1, <2>2 DEF Readable, again
<1>15. Outcome(doc.catalog, written) = "ok"
  BY <1>1, <1>12, <1>14 DEF Outcome, again
<1> QED
  BY <1>12, <1>15 DEF again, written

(* Every published Schema survives being written and read back.              *)
THEOREM ReadBackIsTheSameAlways == DocSpec => []ReadBackIsTheSame
<1>1. KindsKept => ReadBackIsTheSame
  BY DocumentReadsBack DEF KindsKept, ReadBackIsTheSame
<1> QED
  BY <1>1, KindsKeptAlways, PTL
=============================================================================
