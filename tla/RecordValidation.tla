--------------------------- MODULE RecordValidation ---------------------------
(***************************************************************************)
(* validate_record and validate_patch (validation.py 126-265) at the grain *)
(* of one field, one default expression and one round at a time, and the   *)
(* life of one Record that is created and then patched.                    *)
(*                                                                         *)
(* Fields are numbered in the order of document.fields, which is sorted.   *)
(* Names are in NFC, so no two of a mapping become one.                    *)
(***************************************************************************)
EXTENDS Records, FiniteSets

CONSTANTS
  Names,      \* of fields
  Documents,  \* the Schemas
  Inputs,     \* the mappings callers validate; a patch may remove fields
  Removal,    \* FIELD_REMOVAL
  Absent      \* no Record yet

ASSUME NamesAssumption == Names \subseteq Int /\ IsFiniteSet(Names) /\ Removal \notin Values \cup {Null}
ASSUME DocumentsAssumption ==
  \A doc \in Documents :
    /\ DOMAIN doc.fields \subseteq Names
    /\ \A f \in DOMAIN doc.fields :
         LET field   == doc.fields[f]
             default == field.default
         IN  /\ field.type.values \subseteq Values
             /\ field.nullable \in BOOLEAN /\ field.mutable \in BOOLEAN
             /\ default.kind \in {"none", "literal", "field", "coalesce", "lower"}
             /\ default.kind \in {"literal", "field", "lower"} => 1 \in DOMAIN default.operands

VARIABLES
  document,
  stored,      \* the Record: what validate_record returned or validate_patch merged
  purpose,     \* of the call under way: "create" or "patch"
  partial,     \* it validates the changes of a patch
  given,       \* normalized_input
  todo,        \* the names of given that are still to be validated
  result,
  pending,     \* the fields whose defaults are not evaluated
  visit,       \* those the present round has still to visit
  progressed,
  stage, outcome

call == <<purpose, partial, given, todo, result, pending, visit, progressed, stage, outcome>>
vars == <<document, stored, call>>

Nothing == [n \in {} |-> Null]

\* values[n] = value
With(values, n, value) == [m \in DOMAIN values \cup {n} |-> IF m = n THEN value ELSE values[m]]

Init ==
  /\ document \in {d \in Documents : WellFormed(d)}
  /\ stored = Absent
  /\ purpose = "create" /\ partial = FALSE
  /\ given = Nothing /\ todo = {} /\ result = Nothing
  /\ pending = {} /\ visit = {} /\ progressed = FALSE
  /\ stage = "idle" /\ outcome = "none"

-----------------------------------------------------------------------------
Ends(how) ==
  /\ stage' = "idle" /\ outcome' = how
  /\ UNCHANGED <<purpose, partial, given, todo, result, pending, visit, progressed>>

Raise(how) == Ends(how) /\ UNCHANGED <<document, stored>>

\* validate_record is entered.
Enter(why, values, isPartial) ==
  /\ purpose' = why /\ partial' = isPartial
  /\ given' = values /\ result' = Nothing
  /\ todo' = DOMAIN values
  /\ pending' = {} /\ visit' = {} /\ progressed' = FALSE
  /\ UNCHANGED document
  /\ IF DOMAIN values \subseteq DOMAIN document.fields
       THEN stage' = "fields" /\ outcome' = "none"
       ELSE stage' = "idle" /\ outcome' = "record.known-fields"

Create(values) ==
  /\ stage = "idle" /\ stored = Absent
  /\ Enter("create", values, FALSE)
  /\ UNCHANGED stored

Patch(changes) ==
  /\ stage = "idle" /\ stored # Absent
  /\ Enter("patch", changes, TRUE)
  /\ UNCHANGED stored

-----------------------------------------------------------------------------
(* validate_record *)

ValueError(field, value) ==
  IF Fits(field, value) THEN "none" ELSE IF value = Null THEN "field.nullable" ELSE "field.logical-type"

\* Mutant: a removal is dealt with first.
FieldErrorRemovalFirst(n) ==
  LET field == document.fields[n]
      raw   == given[n]
  IN  IF raw = Removal
        THEN IF ~partial THEN "patch.remove"
             ELSE IF ~field.nullable /\ field.default.kind = "none" THEN "field.required"
             ELSE "none"
      ELSE IF partial /\ ~field.mutable /\ (n \notin DOMAIN stored \/ stored[n] # raw)
        THEN "field.mutable"
      ELSE ValueError(field, raw)

\* In the code's order: a change of an immutable field, then a removal, then
\* the value.
FieldError(n) ==
  LET field == document.fields[n]
      raw   == given[n]
  IN  IF partial /\ ~field.mutable /\ (n \notin DOMAIN stored \/ stored[n] # raw)
        THEN "field.mutable"
      ELSE IF raw = Removal
        THEN IF ~partial THEN "patch.remove"
             ELSE IF ~field.nullable /\ field.default.kind = "none" THEN "field.required"
             ELSE "none"
      ELSE ValueError(field, raw)

\* One field of the input, in the order of the caller's mapping.
ValidateField(n) ==
  /\ stage = "fields" /\ n \in todo
  /\ IF FieldError(n) # "none"
       THEN Raise(FieldError(n))
       ELSE /\ todo' = todo \ {n}
            /\ result' = IF given[n] = Removal THEN result ELSE With(result, n, given[n])
            /\ UNCHANGED <<document, stored, purpose, partial, given, pending, visit, progressed,
                           stage, outcome>>

FieldsDone ==
  /\ stage = "fields" /\ todo = {} /\ ~partial
  /\ pending' = Pending(document, result)
  /\ visit' = pending' /\ progressed' = FALSE
  /\ stage' = "defaults"
  /\ UNCHANGED <<document, stored, purpose, partial, given, todo, result, outcome>>

\* Mutant: coalesce and the string functions do without the fields they lack.
MissingForField(default) == default.kind = "field" /\ ~(Refers(default) \subseteq DOMAIN result)

\* evaluate raises KeyError.
Missing(default) == ~(Refers(default) \subseteq DOMAIN result)

\* One default expression: left for the next round, or evaluated and validated.
VisitDefault(n) ==
  LET default == document.fields[n].default
      known   == [m \in Names |-> IF m \in DOMAIN result THEN result[m] ELSE Null]
      value   == Evaluate(default, known)
  IN  /\ stage = "defaults"
      /\ n \in visit /\ \A m \in visit : n <= m
      /\ IF Missing(default)
           THEN /\ visit' = visit \ {n}
                /\ UNCHANGED <<document, stored, purpose, partial, given, todo, result, pending,
                               progressed, stage, outcome>>
         ELSE IF Raises(default, known)
           THEN Raise("ValueError")
         ELSE IF ValueError(document.fields[n], value) # "none"
           THEN Raise(ValueError(document.fields[n], value))
           ELSE /\ result' = With(result, n, value)
                /\ visit' = visit \ {n} /\ pending' = pending \ {n}
                /\ progressed' = TRUE
                /\ UNCHANGED <<document, stored, purpose, partial, given, todo, stage, outcome>>

\* Mutant: a round is never told from one without progress.
RoundForever ==
  /\ stage = "defaults" /\ visit = {}
  /\ IF pending = {}
       THEN stage' = "required" /\ UNCHANGED visit
       ELSE visit' = pending /\ UNCHANGED stage
  /\ UNCHANGED <<document, stored, purpose, partial, given, todo, result, pending, progressed, outcome>>

\* while pending
Round ==
  /\ stage = "defaults" /\ visit = {}
  /\ \/ /\ pending = {}
        /\ stage' = "required"
        /\ UNCHANGED <<visit, progressed, outcome>>
     \/ /\ pending # {} /\ progressed
        /\ visit' = pending /\ progressed' = FALSE
        /\ UNCHANGED <<stage, outcome>>
     \/ /\ pending # {} /\ ~progressed
        /\ stage' = "idle" /\ outcome' = "defaults.acyclic"
        /\ UNCHANGED <<visit, progressed>>
  /\ UNCHANGED <<document, stored, purpose, partial, given, todo, result, pending>>

LacksRequired == \E n \in DOMAIN document.fields \ DOMAIN result : ~document.fields[n].nullable
LacksIdentity == \E n \in IdentityOf(document) : n \notin DOMAIN result \/ result[n] = Null

\* The last checks; then validate_record returns result.  The second one of
\* validate_patch has validated the merged mapping, which is what is kept.
Return ==
  /\ stage = "required"
  /\ IF LacksRequired THEN Raise("field.required")
     ELSE IF LacksIdentity THEN Raise("identity.required")
     ELSE /\ Ends("accepted")
          /\ stored' = IF purpose = "create" THEN result ELSE given
          /\ UNCHANGED document

-----------------------------------------------------------------------------
(* validate_patch, after it has validated the changes *)

Removed == {n \in DOMAIN given : given[n] = Removal}
Merged  == [n \in (DOMAIN stored \ Removed) \cup DOMAIN result |->
              IF n \in DOMAIN result THEN result[n] ELSE stored[n]]

\* Mutant: the merged Record is taken without being validated.
MergeUnchecked ==
  /\ stage = "fields" /\ todo = {} /\ partial
  /\ Ends("accepted")
  /\ stored' = Merged
  /\ UNCHANGED document

Merge ==
  /\ stage = "fields" /\ todo = {} /\ partial
  /\ Enter("patch", Merged, FALSE)
  /\ UNCHANGED stored

-----------------------------------------------------------------------------
Step ==
  \/ \E n \in Names : ValidateField(n) \/ VisitDefault(n)
  \/ FieldsDone \/ Round \/ Return \/ Merge

Next ==
  \/ \E values \in Inputs : Create(values) \/ Patch(values)
  \/ Step

\* A call that has begun runs to its end.
Spec == Init /\ [][Next]_vars /\ WF_vars(Step)

-----------------------------------------------------------------------------
(* The rounds evaluate what can be evaluated: a full validation accepts      *)
(* exactly what Records says is a Record, in whatever order the fields come  *)
(* and however defaults depend on each other, and returns the one Record in  *)
(* which every default has its value among the final values.                 *)
RoundsDecideValidity ==
  [][stage # "idle" /\ ~partial /\ stage' = "idle" =>
       IF outcome' = "accepted" THEN Validated(document, given) = {result}
                                ELSE ~Accepts(document, given)]_vars

(* What is kept after any sequence of patches is still a Record: validating  *)
(* it again succeeds, so the next patch can only fail for its own changes.   *)
StoredIsARecord == stored # Absent => Accepts(document, stored)

(* An immutable field keeps the value, or the absence, it was created with:  *)
(* patches neither change, nor set late, nor remove it.                      *)
ImmutableFieldsKeep ==
  [][stored # Absent =>
       \A n \in DOMAIN document.fields : ~document.fields[n].mutable =>
         /\ n \in DOMAIN stored' <=> n \in DOMAIN stored
         /\ n \in DOMAIN stored => stored'[n] = stored[n]]_vars

(* Validation ends, cyclic defaults included.                                *)
ValidationEnds == stage # "idle" ~> stage = "idle"
=============================================================================
