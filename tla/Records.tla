------------------------------- MODULE Records -------------------------------
(***************************************************************************)
(* When a mapping of values is a Record of a Schema, as a predicate: what  *)
(* validate_record (validation.py) accepts and what it returns.  Its loop  *)
(* over fields and defaults is in RecordValidation.                        *)
(*                                                                         *)
(* A Record is a function from some field names to values.  A logical type *)
(* and the constraints of a field are the sets of values they admit, and   *)
(* values are in their normal form (FieldValues has the decimals, which    *)
(* may not be).                                                            *)
(***************************************************************************)
EXTENDS Integers, Sequences

CONSTANTS
  Values,   \* of fields
  Null,
  Texts,    \* the values that are strings
  Lower     \* a string in lower case; upper and concat are evaluated as lower is

ASSUME NullAssumption  == Null \notin Values
ASSUME TextsAssumption == Texts \subseteq Values /\ Lower \in [Texts -> Texts]

\* _validate_scalar and _validate_constraints
OfType(field, value) == value \in field.type.values
Meets(field, value)  == value \in field.constraints

\* _validate_field_value
Fits(field, value) ==
  IF value = Null THEN field.nullable ELSE OfType(field, value) /\ Meets(field, value)

IdentityOf(doc) == {doc.identity[i] : i \in DOMAIN doc.identity}

-----------------------------------------------------------------------------
(* DefaultExpression: its kind ("none" where there is no default) and its    *)
(* operands, each <<"value", v>> or <<"field", name>>; the code also allows  *)
(* an expression as an operand, which reads the fields it names all the same.*)

Refers(default) ==
  {default.operands[i][2] : i \in {j \in DOMAIN default.operands : default.operands[j][1] = "field"}}

\* _default_operand
Operand(operand, values) == IF operand[1] = "field" THEN values[operand[2]] ELSE operand[2]

\* The string functions raise a ValueError of their own on what is no string.
Raises(default, values) ==
  default.kind = "lower" /\ Operand(default.operands[1], values) \notin Texts

FirstNonNull(values) ==
  IF \A i \in DOMAIN values : values[i] = Null
    THEN Null
    ELSE values[CHOOSE i \in DOMAIN values : values[i] # Null /\ \A j \in 1..(i - 1) : values[j] = Null]

\* _evaluate_default, on values that have all the fields it refers to
Evaluate(default, values) ==
  CASE default.kind \in {"literal", "field"} -> Operand(default.operands[1], values)
    [] default.kind = "coalesce" ->
         FirstNonNull([i \in DOMAIN default.operands |-> Operand(default.operands[i], values)])
    [] default.kind = "lower" -> Lower[Operand(default.operands[1], values)]

-----------------------------------------------------------------------------
\* The part of validate_schema that concerns Records.
WellFormed(doc) ==
  /\ IdentityOf(doc) \subseteq DOMAIN doc.fields
  /\ \A f \in IdentityOf(doc) : ~doc.fields[f].nullable
  /\ \A f \in DOMAIN doc.fields :
       LET field == doc.fields[f]
       IN  field.default.kind = "literal" => Fits(field, Evaluate(field.default, <<>>))

\* The fields that are not given and have a default.
Pending(doc, given) == {f \in DOMAIN doc.fields \ DOMAIN given : doc.fields[f].default.kind # "none"}

\* Defaults can be evaluated one after the other: no field waits for itself, and
\* none for a field that is neither given nor has a default.
Ordered(doc, given) ==
  LET pending == Pending(doc, given)
  IN  \E before \in [pending -> SUBSET pending] :
        \A f \in pending :
          LET named == Refers(doc.fields[f].default)
          IN  /\ f \notin before[f]
              /\ named \subseteq DOMAIN given \cup pending
              /\ \A g \in named \cap pending : {g} \cup before[g] \subseteq before[f]

\* full gives what is given and, for each default, its value among the others.
Filled(doc, given, full) ==
  /\ \A f \in DOMAIN given : full[f] = given[f]
  /\ \A f \in Pending(doc, given) :
       LET default == doc.fields[f].default
       IN  ~Raises(default, full) /\ full[f] = Evaluate(default, full)

\* What validate_record returns; there is at most one.
Validated(doc, given) ==
  {full \in [DOMAIN given \cup Pending(doc, given) -> Values \cup {Null}] :
     /\ DOMAIN given \subseteq DOMAIN doc.fields
     /\ Ordered(doc, given)
     /\ Filled(doc, given, full)
     /\ \A f \in DOMAIN full : Fits(doc.fields[f], full[f])
     /\ \A f \in DOMAIN doc.fields \ DOMAIN full : doc.fields[f].nullable
     /\ \A f \in IdentityOf(doc) : f \in DOMAIN full /\ full[f] # Null}

Accepts(doc, given) == Validated(doc, given) # {}
=============================================================================
