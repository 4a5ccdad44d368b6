------------------------------ MODULE FieldValues ------------------------------
(***************************************************************************)
(* A field and its values: which declarations validate_schema accepts      *)
(* (validation.py 266-420), which values _validate_field_value then takes  *)
(* and what it returns for them (596-661, 784-843), and what a wider type  *)
(* (compatibility.py 254-270) makes of a value that is stored.  The three  *)
(* are written far apart, and a patch validates what is stored once more.  *)
(*                                                                         *)
(* A decimal is what Decimal(...).as_tuple() has: its digits, read as a    *)
(* number, and the exponent; 1E+2 has digits 1 and exponent 2, and 100     *)
(* has digits 100 and exponent 0.  Of a string its length counts, and      *)
(* whether it matches the pattern.                                         *)
(***************************************************************************)
EXTENDS Integers, Sequences, FiniteSets

CONSTANTS
  None,
  Bits,          \* of the integer kinds: the code has 8, 16, 32 and 64
  MaxPrecision,  \* bound: the code has 1000
  Bounds,        \* what min, max, minLength... may be declared as
  Numbers,       \* values of integer fields
  Digits,        \* of the values of decimal fields
  Exponents,
  Strings,       \* values of string fields
  MaxItems,      \* bound: items of a value
  MaxDigits,     \* bound: digits of a decimal that is written without exponent
  Places         \* of all decimals, for the reference at the end

\* Powers.
Tens[n \in Nat] == IF n = 0 THEN 1 ELSE 10 * Tens[n - 1]
Twos[n \in Nat] == IF n = 0 THEN 1 ELSE 2 * Twos[n - 1]

Larger(m, n) == IF m >= n THEN m ELSE n

\* Whatever kind it has.
Scalar == Int \cup [digits : Nat, exponent : Int] \cup [length : Nat, matches : BOOLEAN]

ASSUME NoneAssumption    == None \notin Scalar \cup Seq(Scalar)
ASSUME TypesAssumption   == Bits \subseteq Nat \ {0} /\ MaxPrecision \in Nat \ {0}
ASSUME BoundsAssumption  == Bounds \subseteq Int \cup {None} /\ 1 \in Bounds
ASSUME NumbersAssumption == Numbers \subseteq Int /\ Digits \subseteq Nat /\ Exponents \subseteq Int
ASSUME StringsAssumption == Strings \subseteq [length : Nat, matches : BOOLEAN]
ASSUME ItemsAssumption   == MaxItems \in Nat
ASSUME DigitsAssumption  ==
  /\ MaxDigits \in Nat \ {0} /\ Places \in Nat
  /\ \A e \in Exponents : e + Places >= 0
  /\ \A d \in Digits, e \in Exponents : d * Tens[Larger(e, 0)] < Tens[MaxDigits]

Types ==
  [kind : {"int"}, bits : Bits]
  \cup {t \in [kind : {"decimal"}, precision : 1..MaxPrecision, scale : 0..MaxPrecision] :
          t.scale <= t.precision}
  \cup [kind : {"string"}]

Numeric == {"min", "max", "exclusiveMin", "exclusiveMax"}
Lengths == {"minLength", "maxLength"}
Counts  == {"minItems", "maxItems"}

Names == Numeric \cup Lengths \cup Counts \cup {"pattern", "uniqueItems"}

\* Pairs of constraints are enough for what they have to do with one another.
\* 1 is a pattern, and True as uniqueItems (False is as good as None there).
Declarable(names) ==
  {c \in [names -> Bounds] : \A name \in names \cap {"uniqueItems", "pattern"} : c[name] \in {1, None}}

Definitions ==
  [type : Types, many : BOOLEAN,
   constraints : UNION {Declarable(names) : names \in {n \in SUBSET Names : Cardinality(n) <= 2}}]

Scalars(type) ==
  CASE type.kind = "int"     -> Numbers
    [] type.kind = "decimal" -> [digits : Digits, exponent : Exponents]
    [] type.kind = "string"  -> Strings

\* What may be submitted: nothing that is of another kind altogether.
ValuesOf(definition) ==
  IF definition.many
    THEN UNION {[1..n -> Scalars(definition.type)] : n \in 0..MaxItems}
    ELSE Scalars(definition.type)

VARIABLES
  definition,  \* of the field, in the latest version of its Schema
  verdict,     \* "none" yet, what validate_schema raises for it, or "accepted"
  value,       \* the value that was submitted last, or None
  result       \* what came back for it and is stored, or None if it was refused

fieldVars == <<definition, verdict, value, result>>

-----------------------------------------------------------------------------
(* _validate_field_definition *)

Declares(name) == name \in DOMAIN definition.constraints
Declared(name) == definition.constraints[name]

BadLength ==
  \E name \in Lengths \cup Counts : Declares(name) /\ Declared(name) # None /\ Declared(name) < 0

Pairs == {<<"minLength", "maxLength">>, <<"minItems", "maxItems">>}

BothDeclared(p) == Declares(p[1]) /\ Declares(p[2])

\* A declared None is no int, and to ask whether None > 1 is a TypeError.
Incomparable == \E p \in Pairs : BothDeclared(p) /\ None \in {Declared(p[1]), Declared(p[2])}

Crossed == ~Incomparable /\ \E p \in Pairs : BothDeclared(p) /\ Declared(p[1]) > Declared(p[2])

\* Neither is None a number, nor a pattern.
NotADeclaration == \E name \in Numeric \cup {"pattern"} : Declares(name) /\ Declared(name) = None

Inapplicable ==
  \/ \E name \in Lengths \cup {"pattern"} : Declares(name) /\ definition.type.kind # "string"
  \/ \E name \in Counts \cup {"uniqueItems"} : Declares(name) /\ ~definition.many
  \/ \E name \in Numeric : Declares(name) /\ definition.type.kind = "string"

\* In the order of the code.  Of two constraints one pair is declared at most.
Verdict ==
  IF BadLength \/ Crossed                 THEN "InvalidDefinition"
  ELSE IF Incomparable                    THEN "TypeError"
  ELSE IF NotADeclaration \/ Inapplicable THEN "InvalidDefinition"
                                          ELSE "accepted"

-----------------------------------------------------------------------------
(* _validate_scalar *)

NumberOfDigits(n) ==
  CHOOSE k \in 1..MaxDigits : n < Tens[k] /\ (k = 1 \/ n >= Tens[k - 1])

\* decimal_precision_scale
Scale(d) == Larger(-d.exponent, 0)
Precision(d) == Larger(NumberOfDigits(d.digits), IF d.digits = 0 THEN Scale(d) + 1 ELSE 0)

InRange(n, bits) == -Twos[bits - 1] <= n /\ n < Twos[bits - 1]

OfType(type, v) ==
  CASE type.kind = "int"     -> InRange(v, type.bits)
    [] type.kind = "decimal" -> Precision(v) <= type.precision /\ Scale(v) <= type.scale
    [] type.kind = "string"  -> TRUE

\* A decimal is returned as format(parsed, "f") writes it: in digits and at most
\* one point, so that an exponent above zero becomes zeros.
Written(type, v) ==
  IF type.kind = "decimal" /\ v.exponent > 0
    THEN [digits |-> v.digits * Tens[v.exponent], exponent |-> 0] ELSE v

-----------------------------------------------------------------------------
(* _validate_constraints *)

AtLeast(name, n) == Declares(name) => Declared(name) = None \/ n >= Declared(name)
AtMost(name, n)  == Declares(name) => Declared(name) = None \/ n <= Declared(name)

Unique(items) == Cardinality({items[i] : i \in DOMAIN items}) = Len(items)

\* A bound is compared with the digits of a number, at the power of ten of both;
\* no exponent is above zero here.
Digital(v)     == IF definition.type.kind = "decimal" THEN v.digits ELSE v
Limit(name, v) == IF definition.type.kind = "decimal" THEN Declared(name) * Tens[Scale(v)]
                                                      ELSE Declared(name)

\* Mutant: an exclusive bound admits itself.
NumberFitsInclusive(v) ==
  /\ Declares("min")          => Digital(v) >= Limit("min", v)
  /\ Declares("max")          => Digital(v) <= Limit("max", v)
  /\ Declares("exclusiveMin") => Digital(v) >= Limit("exclusiveMin", v)
  /\ Declares("exclusiveMax") => Digital(v) <= Limit("exclusiveMax", v)

NumberFits(v) ==
  /\ Declares("min")          => Digital(v) >= Limit("min", v)
  /\ Declares("max")          => Digital(v) <= Limit("max", v)
  /\ Declares("exclusiveMin") => Digital(v) > Limit("exclusiveMin", v)
  /\ Declares("exclusiveMax") => Digital(v) < Limit("exclusiveMax", v)

\* Once for the whole value: the items of an array are not looked into.
ConstraintsHold(v) ==
  IF definition.many
    THEN /\ AtLeast("minItems", Len(v)) /\ AtMost("maxItems", Len(v))
         /\ Declares("uniqueItems") /\ Declared("uniqueItems") = 1 => Unique(v)
  ELSE IF definition.type.kind = "string"
    THEN /\ AtLeast("minLength", v.length) /\ AtMost("maxLength", v.length)
         /\ Declares("pattern") => v.matches
    ELSE NumberFits(v)

Returned(v) ==
  IF definition.many THEN [i \in DOMAIN v |-> Written(definition.type, v[i])]
                     ELSE Written(definition.type, v)

HasType(v) ==
  IF definition.many THEN \A i \in DOMAIN v : OfType(definition.type, v[i])
                     ELSE OfType(definition.type, v)

\* _validate_field_value; the constraints are tried on what is returned.
Accepts(v) == HasType(v) /\ ConstraintsHold(Returned(v))

-----------------------------------------------------------------------------
FieldInit ==
  /\ definition \in Definitions
  /\ verdict = "none"
  /\ value = None /\ result = None

ValidateDefinition ==
  /\ verdict = "none"
  /\ verdict' = Verdict
  /\ UNCHANGED <<definition, value, result>>

\* Bound: one value, as nothing is left of one call for the next.
ValidateValue(v) ==
  /\ verdict = "accepted" /\ value = None
  /\ value' = v
  /\ result' = IF Accepts(v) THEN Returned(v) ELSE None
  /\ UNCHANGED <<definition, verdict>>

\* Mutant: a type that is ample in one of the two is taken to be wider.
WidensEither(source, target) ==
  \/ source.kind = "int" /\ target.kind = "int" /\ target.bits > source.bits
  \/ /\ source.kind = "decimal" /\ target.kind = "decimal"
     /\ target.precision >= source.precision \/ target.scale >= source.scale

\* _is_numeric_widening
Widens(source, target) ==
  \/ source.kind = "int" /\ target.kind = "int" /\ target.bits > source.bits
  \/ /\ source.kind = "decimal" /\ target.kind = "decimal"
     /\ target.precision >= source.precision /\ target.scale >= source.scale

\* A version of the Schema with a wider type is published while a value is stored.
\* What validate_schema thinks of the definition does not depend on the width.
Widen(target) ==
  /\ result # None
  /\ target # definition.type /\ Widens(definition.type, target)
  /\ definition' = [definition EXCEPT !.type = target]
  /\ UNCHANGED <<verdict, value, result>>

FieldNext ==
  \/ ValidateDefinition
  \/ \E v \in ValuesOf(definition) : ValidateValue(v)
  \/ \E target \in Types : Widen(target)

FieldSpec == FieldInit /\ [][FieldNext]_fieldVars

-----------------------------------------------------------------------------
(* What holds *)

\* Reference: numbers as so many of the smallest part a decimal can have here.
Parts(v) == IF definition.type.kind = "decimal" THEN v.digits * Tens[v.exponent + Places]
                                                ELSE v * Tens[Places]

\* Reference: what each constraint means.
Satisfies(v, name, bound) ==
  CASE name = "min"          -> Parts(v) >= bound * Tens[Places]
    [] name = "max"          -> Parts(v) <= bound * Tens[Places]
    [] name = "exclusiveMin" -> Parts(v) > bound * Tens[Places]
    [] name = "exclusiveMax" -> Parts(v) < bound * Tens[Places]
    [] name = "minLength"    -> bound = None \/ ~(v.length < bound)
    [] name = "maxLength"    -> bound = None \/ ~(v.length > bound)
    [] name = "pattern"      -> v.matches
    [] name = "minItems"     -> bound = None \/ ~(Len(v) < bound)
    [] name = "maxItems"     -> bound = None \/ ~(Len(v) > bound)
    [] name = "uniqueItems"  ->
         bound = 1 => \A i, j \in DOMAIN v :
           Written(definition.type, v[i]) = Written(definition.type, v[j]) => i = j

OfItems == Counts \cup {"uniqueItems"}

\* A value of the type of its field is stored if and only if it satisfies what
\* the accepted definition declares of it: of an array its number of items and
\* whether they differ, of anything else everything (validation.py 784-843).
\* What is compared is what is returned, not what was submitted, and wider types
\* and declared nulls make no difference.
DeclaredIsWhatDecides ==
  value # None =>
    (result # None <=>
       /\ HasType(value)
       /\ \A name \in DOMAIN definition.constraints :
            (definition.many /\ name \notin OfItems) \/ Satisfies(value, name, Declared(name)))

\* What is stored is accepted once more, and returned as it is, after any number
\* of versions with wider types: validate_patch, which validates the whole Record
\* again, does not fail on a field that was never touched.  A decimal written
\* with an exponent above zero is excepted: its zeros are counted only then.
StoredIsAcceptedAgain ==
  result # None =>
    /\ Returned(result) = result
    /\ result = value => Accepts(result)
=============================================================================
