--------------------------- MODULE SchemaEvolution ---------------------------
(***************************************************************************)
(* A Schema evolves while a Record written under one of its versions is    *)
(* kept: classify_compatibility (compatibility.py) names what each step    *)
(* from version to version means, and validate_record (validation.py)      *)
(* decides whether the Record is still one of the Schema.                  *)
(*                                                                         *)
(* What a definition holds and no rule of the classification looks into is *)
(* one opaque value: metadata, labels, an index.                           *)
(***************************************************************************)
EXTENDS Records

CONSTANTS
  Documents,  \* the definitions that may be published
  Inputs,     \* the Records that may be written
  Width       \* external to the classes: bits of the integer kinds

ASSUME DocumentsAssumption ==
  \A doc \in Documents : \A f \in DOMAIN doc.fields :
    LET field == doc.fields[f]
    IN  /\ field.nullable \in BOOLEAN /\ field.mutable \in BOOLEAN
        /\ field.type.values \subseteq Values
        /\ field.default.kind = "literal" => 1 \in DOMAIN field.default.operands
ASSUME WidthAssumption == \A kind \in DOMAIN Width : Width[kind] \in Nat

VARIABLES
  document,  \* the latest version
  record,    \* the Record that was written last, as validate_record returned it
  origin,    \* the version it was written under
  worst      \* the highest class of a step since then

vars == <<document, record, origin, worst>>

-----------------------------------------------------------------------------
(* compatibility.py *)

\* CompatibilityClass, by _SEVERITY
Identical   == 0
Metadata    == 1
Backward    == 2
DataChange  == 3
Conditional == 4
Breaking    == 5

Class(differs, class) == IF differs THEN {class} ELSE {}

\* _is_numeric_widening; what it does to the values of a decimal is in FieldValues.
Widens(source, target) ==
  \/ /\ source.kind \in DOMAIN Width /\ target.kind \in DOMAIN Width
     /\ Width[target.kind] > Width[source.kind]
  \/ /\ source.kind = "decimal" /\ target.kind = "decimal"
     /\ target.precision >= source.precision /\ target.scale >= source.scale

\* Mutant: enum values may be taken away.
AnyEnum(source, target) == source.kind = "enum" /\ target.kind = "enum"

AddsEnumValues(source, target) ==
  source.kind = "enum" /\ target.kind = "enum" /\ source.values \subseteq target.values

\* Mutant: text is taken for wider than anything.
TypeChangeToText(source, target) ==
  IF source = target                    THEN {}
  ELSE IF Widens(source, target) \/ target.kind = "string" THEN {Conditional}
  ELSE IF AddsEnumValues(source, target) THEN {Backward}
                                         ELSE {Breaking}

TypeChange(source, target) ==
  IF source = target                    THEN {}
  ELSE IF Widens(source, target)         THEN {Conditional}
  ELSE IF AddsEnumValues(source, target) THEN {Backward}
                                         ELSE {Breaking}

\* Mutant: a field that became required is taken for one that became nullable.
NullableChangeMild(source, target) == Class(source.nullable # target.nullable, Backward)

NullableChange(source, target) ==
  Class(source.nullable # target.nullable, IF target.nullable THEN Backward ELSE Breaking)

\* _compare_field
FieldChanges(source, target) ==
  TypeChange(source.type, target.type)
  \cup Class(source.cardinality # target.cardinality, Breaking)
  \cup NullableChange(source, target)
  \cup Class(source.default # target.default, Conditional)
  \cup Class(source.mutable # target.mutable, IF target.mutable THEN Backward ELSE Breaking)
  \cup Class(source.constraints # target.constraints, Conditional)
  \cup Class(source.metadata # target.metadata, Metadata)

AddedField(field) == IF field.nullable \/ field.default.kind # "none" THEN Backward ELSE Breaking

IndexChanges(source, target) ==
  Class(DOMAIN target \ DOMAIN source # {}, DataChange)
  \cup Class(DOMAIN source \ DOMAIN target # {}, Conditional)
  \cup Class(\E i \in DOMAIN source \cap DOMAIN target : source[i] # target[i], DataChange)

\* _compare_profiles
ProfileChange(source, target) ==
  Class(source # target,
        IF "relation" \in {source.kind, target.kind} \/ source.kind # target.kind
          THEN Breaking ELSE Conditional)

\* Mutant: the identity may lose and gain fields.
ShapeChangesNoIdentity(source, target) ==
  Class(source.semanticKind # target.semanticKind, Breaking)
  \cup Class(DOMAIN source.fields \ DOMAIN target.fields # {}, Breaking)

ShapeChanges(source, target) ==
  Class(source.semanticKind # target.semanticKind, Breaking)
  \cup Class(source.identity # target.identity, Breaking)
  \cup Class(DOMAIN source.fields \ DOMAIN target.fields # {}, Breaking)

Changes(source, target) ==
  LET old == DOMAIN source.fields
      new == DOMAIN target.fields
  IN  ShapeChanges(source, target)
      \cup {AddedField(target.fields[f]) : f \in new \ old}
      \cup (UNION {FieldChanges(source.fields[f], target.fields[f]) : f \in old \cap new})
      \cup IndexChanges(source.indexes, target.indexes)
      \cup ProfileChange(source.profile, target.profile)
      \cup Class(source.guarantees # target.guarantees, Conditional)
      \cup Class(source.labels # target.labels, Metadata)

Highest(classes) == CHOOSE c \in classes : \A d \in classes : d <= c

\* classify_compatibility
Classify(source, target) == Highest({Identical} \cup Changes(source, target))

-----------------------------------------------------------------------------
Init ==
  /\ document \in {d \in Documents : WellFormed(d)}
  /\ record \in UNION {Validated(document, given) : given \in Inputs}
  /\ origin = document
  /\ worst = Identical

\* The next version is published; only with allow_breaking if it breaks.
Publish(target, allowBreaking) ==
  LET class == Classify(document, target)
  IN  /\ WellFormed(target)
      /\ class = Breaking => allowBreaking
      /\ document' = target
      /\ worst' = IF class > worst THEN class ELSE worst
      /\ UNCHANGED <<record, origin>>

Write(given) ==
  /\ record' \in Validated(document, given)
  /\ origin' = document
  /\ worst' = Identical
  /\ UNCHANGED document

Next ==
  \/ \E target \in Documents, allowBreaking \in BOOLEAN : Publish(target, allowBreaking)
  \/ \E given \in Inputs : Write(given)

Spec == Init /\ [][Next]_vars

-----------------------------------------------------------------------------
IsLiteral(default) == default.kind = "literal" /\ Refers(default) = {}

(* The version that is published and the one the Record was written under    *)
(* are well-formed definitions.                                              *)
TypeOK ==
  /\ document \in Documents /\ WellFormed(document)
  /\ origin \in Documents /\ WellFormed(origin)
  /\ worst \in Identical..Breaking

(* As long as no step asks for a proof or a transform, that is, all were     *)
(* backward-compatible or milder or physical changes only ("metadata         *)
(* activation; optional backfill", compatibility.py:158), the Record is      *)
(* still one of the Schema, after any number of steps, provided the defaults *)
(* that would complete it are literals: validate_schema evaluates no others, *)
(* and one that names a nullable field breaks the Records that lack it.      *)
MildStepsKeepTheRecord ==
  /\ worst <= DataChange
  /\ \A f \in Pending(document, record) : IsLiteral(document.fields[f].default)
  => Accepts(document, record)

(* Classes compose as long as no step is conditional: what a chain of mild   *)
(* steps makes of a Schema is never conditional or breaking as one step.     *)
(* (Conditional steps do not compose: a required field added with a default  *)
(* and stripped of it by the next step would have been breaking at once.)    *)
MildStepsCompose == worst <= DataChange => Classify(origin, document) <= DataChange

(* Along any chain of publications that needed no allow_breaking, the        *)
(* identity, the semantic kind, the profile kind and every field with its    *)
(* cardinality survive, no field becomes required or immutable, although     *)
(* each version is compared with the one right before it only.               *)
UnbrokenShape ==
  worst < Breaking =>
    /\ document.identity = origin.identity
    /\ document.semanticKind = origin.semanticKind
    /\ document.profile.kind = origin.profile.kind
    /\ \A f \in DOMAIN origin.fields :
         /\ f \in DOMAIN document.fields
         /\ document.fields[f].cardinality = origin.fields[f].cardinality
         /\ origin.fields[f].nullable => document.fields[f].nullable
         /\ origin.fields[f].mutable => document.fields[f].mutable
=============================================================================
