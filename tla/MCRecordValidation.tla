------------------------- MODULE MCRecordValidation -------------------------
(* Instances of RecordValidation: an identity field and three more whose     *)
(* defaults depend on each other in every direction.                         *)
EXTENDS RecordValidation, TLC

CONSTANTS a, upperA, n   \* two strings and a value that is none

MCValues == {a, upperA, n}
MCTexts  == {a, upperA}
MCLower  == [t \in MCTexts |-> a]

val(v)  == <<"value", v>>
ref(f)  == <<"field", f>>
Expression(kind, operands) == [kind |-> kind, operands |-> operands]
none    == Expression("none", <<>>)

Field(type, nullable, mutable, default) ==
  [type |-> [values |-> type], constraints |-> MCValues, nullable |-> nullable, mutable |-> mutable,
   default |-> default]

key == Field(MCTexts, FALSE, FALSE, none)
upper == Expression("literal", <<val(upperA)>>)
from(f) == Expression("field", <<ref(f)>>)

Doc(identity, f2, f3, f4) ==
  [identity |-> identity, fields |-> 1 :> key @@ 2 :> f2 @@ 3 :> f3 @@ 4 :> f4]
Text(mutable, default) == Field(MCTexts, FALSE, mutable, default)
Loose(mutable, default)  == Field(MCValues, TRUE, mutable, default)

\* In turn: three rounds; a cycle; a string function; a null that is passed on;
\* an identity that is filled; no default in the way of a removal.
MCDocuments ==
  {Doc(<<1>>, Text(TRUE, from(3)), Text(FALSE, from(4)), Loose(FALSE, upper)),
   Doc(<<1>>, Text(TRUE, from(3)), Text(TRUE, Expression("coalesce", <<ref(2), val(a)>>)), Loose(TRUE, none)),
   Doc(<<1>>, Text(FALSE, Expression("lower", <<ref(4)>>)), Text(TRUE, upper), Loose(FALSE, none)),
   Doc(<<1>>, Text(TRUE, Expression("coalesce", <<ref(4), ref(3)>>)), Text(TRUE, upper), Loose(TRUE, from(3))),
   Doc(<<1, 2>>, Text(TRUE, from(3)), Field(MCTexts, TRUE, TRUE, none), Loose(TRUE, none)),
   Doc(<<1>>, Text(FALSE, none), Text(TRUE, none), Loose(FALSE, from(4)))}

Choice == [1..4 -> {a, n, Null, Removal, Absent}]
Given(choice) == [f \in {g \in 1..4 : choice[g] # Absent} |-> choice[f]]

MCInputs ==
  {Given(choice) :
     choice \in {c \in Choice : c[1] \in {a, Absent} /\ c[2] \in {a, Removal, Absent}
                               /\ c[3] \in {a, Removal, Absent} /\ c[4] # a}}
  \cup {1 :> a @@ 5 :> a, 1 :> Removal, 3 :> upperA, 3 :> Null, 2 :> upperA @@ 3 :> n}
=============================================================================
