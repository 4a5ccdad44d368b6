----------------------------- MODULE RecordsProofs -----------------------------
(***************************************************************************)
(* What becomes of Records, in two parts that share nothing.               *)
(*                                                                         *)
(* validate_record and validate_patch, for any Schemas and Records: the    *)
(* rounds over the defaults decide exactly what Records says is a Record,  *)
(* and any sequence of patches keeps one, its immutable fields included.   *)
(*                                                                         *)
(* The Records of relations, for any Collections and relation profiles:    *)
(* traversal finds them.                                                   *)
(***************************************************************************)
EXTENDS RecordValidation, RelationRecords, TLAPS, FiniteSetTheorems, WellFoundedInduction

-----------------------------------------------------------------------------
(* Defaults *)

(* What a default evaluates to depends on the fields it names only.          *)
LEMMA NamedFieldsDecide ==
  ASSUME NEW doc \in Documents, NEW f \in DOMAIN doc.fields,
         doc.fields[f].default.kind # "none",
         NEW one, NEW two, \A g \in Refers(doc.fields[f].default) : one[g] = two[g]
  PROVE  LET default == doc.fields[f].default
         IN  /\ Evaluate(default, one) = Evaluate(default, two)
             /\ Raises(default, one) <=> Raises(default, two)
<1> DEFINE default == doc.fields[f].default
<1>1. /\ default.kind \in {"literal", "field", "coalesce", "lower"}
      /\ default.kind \in {"literal", "field", "lower"} => 1 \in DOMAIN default.operands
  BY DocumentsAssumption
<1>2. \A i \in DOMAIN default.operands :
        Operand(default.operands[i], one) = Operand(default.operands[i], two)
  BY DEF Operand, Refers
<1>3. [i \in DOMAIN default.operands |-> Operand(default.operands[i], one)]
        = [i \in DOMAIN default.operands |-> Operand(default.operands[i], two)]
  BY <1>2
<1> HIDE DEF default
<1>4. Evaluate(default, one) = Evaluate(default, two)
  <2>1. CASE default.kind \in {"literal", "field"}
    BY <1>1, <1>2, <2>1 DEF Evaluate
  <2>2. CASE default.kind = "coalesce"
    BY <1>3, <2>2 DEF Evaluate
  <2>3. CASE default.kind = "lower"
    BY <1>1, <1>2, <2>3 DEF Evaluate
  <2> QED
    BY <1>1, <2>1, <2>2, <2>3
<1>5. Raises(default, one) <=> Raises(default, two)
  BY <1>1, <1>2 DEF Raises
<1> QED
  BY <1>4, <1>5 DEF default

(* part gives what is given, valid, and the defaults that are not left, each *)
(* with its value among the others and evaluated after those it names.       *)
PartlyFilled(doc, values, part, left) ==
  LET done == Pending(doc, values) \ left
  IN  /\ left \subseteq Pending(doc, values)
      /\ DOMAIN values \subseteq DOMAIN doc.fields
      /\ part \in [DOMAIN values \cup done -> Values \cup {Null}]
      /\ \A f \in DOMAIN values : part[f] = values[f]
      /\ \A f \in DOMAIN part : Fits(doc.fields[f], part[f])
      /\ \A f \in done :
           LET default == doc.fields[f].default
           IN  /\ Refers(default) \subseteq DOMAIN part
               /\ ~Raises(default, part) /\ part[f] = Evaluate(default, part)
      /\ \E before \in [done -> SUBSET done] :
           \A f \in done :
             /\ f \notin before[f]
             /\ \A g \in Refers(doc.fields[f].default) \cap done : {g} \cup before[g] \subseteq before[f]

(* Whatever completes the values has what part has.                          *)
Forced(doc, values, part) ==
  \A full \in Validated(doc, values) : \A f \in DOMAIN part : full[f] = part[f]

LEMMA FitsIsAValue ==
  ASSUME NEW doc \in Documents, NEW f \in DOMAIN doc.fields, NEW value, Fits(doc.fields[f], value)
  PROVE  value \in Values \cup {Null} /\ value # Removal
BY DocumentsAssumption, NamesAssumption DEF Fits, OfType

(* The fields are validated: all defaults are left.                          *)
LEMMA GivenIsPartlyFilled ==
  ASSUME NEW doc \in Documents, NEW values, NEW part,
         DOMAIN values \subseteq DOMAIN doc.fields,
         part \in [DOMAIN values -> Values \cup {Null}],
         \A f \in DOMAIN values : part[f] = values[f] /\ Fits(doc.fields[f], values[f])
  PROVE  PartlyFilled(doc, values, part, Pending(doc, values)) /\ Forced(doc, values, part)
<1> DEFINE left == Pending(doc, values)
           done == left \ left
<1>1. done = {} /\ DOMAIN part = DOMAIN values
  OBVIOUS
<1>2. \E before \in [done -> SUBSET done] :
        \A f \in done :
          /\ f \notin before[f]
          /\ \A g \in Refers(doc.fields[f].default) \cap done : {g} \cup before[g] \subseteq before[f]
  <2> WITNESS [f \in done |-> {}] \in [done -> SUBSET done]
  <2> QED
    BY <1>1
<1>3. part \in [DOMAIN values \cup done -> Values \cup {Null}]
  BY <1>1
<1>4. PartlyFilled(doc, values, part, left)
  BY <1>1, <1>2, <1>3 DEF PartlyFilled
<1>5. Forced(doc, values, part)
  BY <1>1 DEF Forced, Validated, Filled
<1> QED
  BY <1>4, <1>5

(* One more default, with what it names among the known fields.              *)
LEMMA OneMoreDefault ==
  ASSUME NEW doc \in Documents, NEW values, NEW part, NEW left,
         PartlyFilled(doc, values, part, left), Forced(doc, values, part),
         NEW f \in left, NEW known, NEW value,
         Refers(doc.fields[f].default) \subseteq DOMAIN part,
         \A g \in DOMAIN part : known[g] = part[g],
         value = Evaluate(doc.fields[f].default, known)
  PROVE  /\ \A full \in Validated(doc, values) :
              /\ full[f] = value /\ Fits(doc.fields[f], value)
              /\ ~Raises(doc.fields[f].default, known)
         /\ ~Raises(doc.fields[f].default, known) /\ Fits(doc.fields[f], value) =>
              /\ PartlyFilled(doc, values, With(part, f, value), left \ {f})
              /\ Forced(doc, values, With(part, f, value))
<1> DEFINE default == doc.fields[f].default
           P    == Pending(doc, values)
           done == P \ left
<1>1. /\ left \subseteq P /\ f \in P /\ f \in DOMAIN doc.fields /\ default.kind # "none"
      /\ f \notin DOMAIN values /\ f \notin done
      /\ part \in [DOMAIN values \cup done -> Values \cup {Null}] /\ f \notin DOMAIN part
  BY DEF PartlyFilled, Pending
<1>2. ASSUME NEW full \in Validated(doc, values)
      PROVE  /\ full[f] = value /\ Fits(doc.fields[f], value) /\ ~Raises(default, known)
  <2>1. /\ full \in [DOMAIN values \cup P -> Values \cup {Null}]
        /\ ~Raises(default, full) /\ full[f] = Evaluate(default, full)
        /\ Fits(doc.fields[f], full[f])
    BY <1>1, <1>2 DEF Validated, Filled
  <2>2. \A g \in Refers(default) : full[g] = known[g]
    BY <1>2 DEF Forced
  <2> QED
    BY <1>1, <2>1, <2>2, NamedFieldsDecide
<1>3. ASSUME ~Raises(default, known), Fits(doc.fields[f], value)
      PROVE  /\ PartlyFilled(doc, values, With(part, f, value), left \ {f})
             /\ Forced(doc, values, With(part, f, value))
  <2> DEFINE more == With(part, f, value)
             now  == P \ (left \ {f})
  <2>1. now = done \cup {f}
    BY <1>1
  <2>2. /\ DOMAIN more = DOMAIN part \cup {f}
        /\ more[f] = value /\ \A g \in DOMAIN part : more[g] = part[g]
        /\ more = [m \in DOMAIN part \cup {f} |-> more[m]]
    BY <1>1 DEF With
  <2> HIDE DEF more
  <2>3. value \in Values \cup {Null}
    BY <1>1, <1>3, FitsIsAValue
  <2>4. more \in [DOMAIN values \cup now -> Values \cup {Null}]
    <3>1. DOMAIN part \cup {f} = DOMAIN values \cup now
      BY <1>1, <2>1
    <3>2. \A m \in DOMAIN part \cup {f} : more[m] \in Values \cup {Null}
      BY <1>1, <2>2, <2>3
    <3> QED
      BY <2>2, <3>1, <3>2
  <2>5. \A g \in DOMAIN values : more[g] = values[g]
    BY <1>1, <2>2 DEF PartlyFilled
  <2>6. \A g \in DOMAIN more : Fits(doc.fields[g], more[g])
    BY <1>3, <2>2 DEF PartlyFilled
  <2>7. ASSUME NEW g \in now
        PROVE  LET d == doc.fields[g].default
               IN  /\ Refers(d) \subseteq DOMAIN more
                   /\ ~Raises(d, more) /\ more[g] = Evaluate(d, more)
    <3>1. CASE g = f
      <4>1. \A h \in Refers(default) : known[h] = more[h]
        BY <2>2
      <4> QED
        BY <1>1, <1>3, <2>2, <3>1, <4>1, NamedFieldsDecide
    <3>2. CASE g \in done
      <4> DEFINE d == doc.fields[g].default
      <4>1. /\ g \in DOMAIN doc.fields /\ d.kind # "none" /\ g \in DOMAIN part
            /\ Refers(d) \subseteq DOMAIN part
            /\ ~Raises(d, part) /\ part[g] = Evaluate(d, part)
        BY <1>1, <3>2 DEF PartlyFilled, Pending
      <4>2. \A h \in Refers(d) : part[h] = more[h]
        BY <2>2, <4>1
      <4> QED
        BY <2>2, <4>1, <4>2, NamedFieldsDecide
    <3> QED
      BY <2>1, <3>1, <3>2
  <2>8. \E before \in [now -> SUBSET now] :
          \A g \in now :
            /\ g \notin before[g]
            /\ \A h \in Refers(doc.fields[g].default) \cap now : {h} \cup before[h] \subseteq before[g]
    <3>1. PICK old \in [done -> SUBSET done] :
            \A g \in done :
              /\ g \notin old[g]
              /\ \A h \in Refers(doc.fields[g].default) \cap done : {h} \cup old[h] \subseteq old[g]
      BY DEF PartlyFilled
    <3> DEFINE before == [g \in now |-> IF g = f THEN done ELSE old[g]]
    <3>2. before \in [now -> SUBSET now]
      BY <2>1, <3>1
    <3>3. \A g \in now : g \notin before[g]
      BY <1>1, <2>1, <3>1
    <3>4. ASSUME NEW g \in now, NEW h \in Refers(doc.fields[g].default) \cap now
          PROVE  {h} \cup before[h] \subseteq before[g]
      <4>1. CASE g = f
        <5>1. h \in done
          BY <1>1, <2>1, <3>4, <4>1
        <5> QED
          BY <1>1, <2>1, <3>1, <4>1, <5>1
      <4>2. CASE g \in done
        <5>1. Refers(doc.fields[g].default) \subseteq DOMAIN part
          BY <4>2 DEF PartlyFilled
        <5>2. h \in done
          BY <1>1, <2>1, <3>4, <5>1
        <5> QED
          BY <1>1, <2>1, <3>1, <3>4, <4>2, <5>2
      <4> QED
        BY <2>1, <4>1, <4>2
    <3> HIDE DEF before
    <3> QED
      BY <3>2, <3>3, <3>4
  <2>9. left \ {f} \subseteq P /\ DOMAIN values \subseteq DOMAIN doc.fields
    BY <1>1 DEF PartlyFilled
  <2>10. PartlyFilled(doc, values, more, left \ {f})
    BY <2>4, <2>5, <2>6, <2>7, <2>8, <2>9 DEF PartlyFilled
  <2>11. Forced(doc, values, more)
    BY <1>2, <2>2 DEF Forced
  <2> QED
    BY <2>10, <2>11 DEF more
<1> QED
  BY <1>2, <1>3

(* With no default left, what is there is what validate_record returns.      *)
LEMMA FilledIsValidated ==
  ASSUME NEW doc \in Documents, NEW values, NEW part,
         PartlyFilled(doc, values, part, {}), Forced(doc, values, part)
  PROVE  /\ DOMAIN part = DOMAIN values \cup Pending(doc, values)
         /\ /\ \A f \in DOMAIN doc.fields \ DOMAIN part : doc.fields[f].nullable
            /\ \A f \in IdentityOf(doc) : f \in DOMAIN part /\ part[f] # Null
            => Validated(doc, values) = {part}
<1> DEFINE P == Pending(doc, values)
<1>1. /\ P \ {} = P
      /\ part \in [DOMAIN values \cup P -> Values \cup {Null}]
      /\ DOMAIN values \subseteq DOMAIN doc.fields
      /\ \A f \in DOMAIN values : part[f] = values[f]
      /\ \A f \in DOMAIN part : Fits(doc.fields[f], part[f])
      /\ \A f \in P : /\ Refers(doc.fields[f].default) \subseteq DOMAIN part
                      /\ ~Raises(doc.fields[f].default, part)
                      /\ part[f] = Evaluate(doc.fields[f].default, part)
  BY DEF PartlyFilled
<1>2. Filled(doc, values, part)
  BY <1>1 DEF Filled
<1>3. Ordered(doc, values)
  <2>1. PICK before \in [P -> SUBSET P] :
          \A f \in P :
            /\ f \notin before[f]
            /\ \A g \in Refers(doc.fields[f].default) \cap P : {g} \cup before[g] \subseteq before[f]
    BY <1>1 DEF PartlyFilled
  <2> QED
    BY <1>1, <2>1 DEF Ordered
<1>4. ASSUME \A f \in DOMAIN doc.fields \ DOMAIN part : doc.fields[f].nullable,
             \A f \in IdentityOf(doc) : f \in DOMAIN part /\ part[f] # Null
      PROVE  Validated(doc, values) = {part}
  <2>1. part \in Validated(doc, values)
    BY <1>1, <1>2, <1>3, <1>4 DEF Validated
  <2>2. ASSUME NEW full \in Validated(doc, values) PROVE full = part
    <3>1. full \in [DOMAIN values \cup P -> Values \cup {Null}]
      BY <2>2 DEF Validated
    <3>2. \A f \in DOMAIN values \cup P : full[f] = part[f]
      BY <1>1, <2>2 DEF Forced
    <3> QED
      BY <1>1, <3>1, <3>2
  <2> QED
    BY <2>1, <2>2
<1> QED
  BY <1>1, <1>4

(* A set of naturals has a least one.                                        *)
LEMMA LeastOfNaturals ==
  ASSUME NEW T \in SUBSET Nat, T # {}
  PROVE  \E i \in T : \A j \in T : i <= j
<1> DEFINE Before == {p \in Nat \X Nat : p[1] < p[2]}
<1>1. IsWellFoundedOn(Before, Nat)
  BY NatLessThanWellFounded DEF OpToRel, Before
<1>2. PICK i \in T : \A j \in T : <<j, i>> \notin Before
  BY <1>1, WFMin
<1>3. \A j \in T : ~(j < i)
  BY <1>2
<1> QED
  BY <1>3

(* When every default that is left names a field that is not known, the      *)
(* defaults cannot be ordered: of those with the fewest fields before them   *)
(* one would still have to come later than another that is left.             *)
LEMMA StuckIsUnordered ==
  ASSUME NEW doc \in Documents, NEW values, NEW part, NEW left,
         PartlyFilled(doc, values, part, left), left # {},
         \A f \in left : ~(Refers(doc.fields[f].default) \subseteq DOMAIN part)
  PROVE  ~Accepts(doc, values)
<1> DEFINE P == Pending(doc, values)
<1> SUFFICES ASSUME Ordered(doc, values) PROVE FALSE
  BY DEF Accepts, Validated
<1>1. PICK before \in [P -> SUBSET P] :
        \A f \in P :
          /\ f \notin before[f]
          /\ Refers(doc.fields[f].default) \subseteq DOMAIN values \cup P
          /\ \A g \in Refers(doc.fields[f].default) \cap P : {g} \cup before[g] \subseteq before[f]
  BY DEF Ordered
<1>2. /\ left \subseteq P
      /\ DOMAIN part = DOMAIN values \cup (P \ left)
  BY DEF PartlyFilled
<1>3. IsFiniteSet(P)
  <2>1. P \subseteq Names
    BY DocumentsAssumption DEF Pending
  <2> QED
    BY <2>1, NamesAssumption, FS_Subset
<1>4. \A f \in P : IsFiniteSet(before[f]) /\ Cardinality(before[f]) \in Nat
  BY <1>1, <1>3, FS_Subset, FS_CardinalityType
<1> DEFINE sizes == {Cardinality(before[f]) : f \in left}
<1>5. PICK f \in left : \A g \in left : Cardinality(before[f]) <= Cardinality(before[g])
  <2>1. sizes \subseteq Nat /\ sizes # {}
    BY <1>2, <1>4
  <2> HIDE DEF sizes
  <2>2. PICK least \in sizes : \A size \in sizes : least <= size
    BY <2>1, LeastOfNaturals
  <2> QED
    BY <2>2 DEF sizes
<1>6. PICK g \in Refers(doc.fields[f].default) : g \in left
  BY <1>1, <1>2
<1>7. {g} \cup before[g] \subseteq before[f] /\ g \notin before[g]
  BY <1>1, <1>2, <1>6
<1>8. Cardinality(before[g]) <= Cardinality(before[f]) /\ Cardinality(before[g]) # Cardinality(before[f])
  BY <1>2, <1>4, <1>7, FS_Subset
<1> QED
  BY <1>2, <1>4, <1>5, <1>6, <1>8

-----------------------------------------------------------------------------
(* The calls *)

Typed ==
  /\ document \in Documents /\ WellFormed(document)
  /\ stage \in {"idle", "fields", "defaults", "required"}

(* The changes of a patch are validated before anything has its defaults.    *)
Called ==
  stage # "idle" =>
    /\ DOMAIN given \subseteq DOMAIN document.fields
    /\ purpose \in {"create", "patch"} /\ partial \in BOOLEAN
    /\ purpose = "create" <=> stored = Absent
    /\ partial => purpose = "patch" /\ stage = "fields"

FieldsSoFar ==
  stage = "fields" =>
    /\ todo \subseteq DOMAIN given
    /\ result \in [{n \in DOMAIN given \ todo : given[n] # Removal} -> Values \cup {Null}]
    /\ \A n \in DOMAIN result : result[n] = given[n]
    /\ \A n \in DOMAIN given \ todo : FieldError(n) = "none"

(* What a round left behind without progress still lacks a field.            *)
DefaultsSoFar ==
  stage \in {"defaults", "required"} =>
    /\ PartlyFilled(document, given, result, pending)
    /\ Forced(document, given, result)
    /\ visit \subseteq pending
    /\ progressed \in BOOLEAN
    /\ ~progressed => \A n \in pending \ visit : Missing(document.fields[n].default)
    /\ stage = "required" => pending = {}

KeepsImmutable(values) ==
  \A n \in DOMAIN document.fields : ~document.fields[n].mutable =>
    /\ n \in DOMAIN values <=> n \in DOMAIN stored
    /\ n \in DOMAIN stored => values[n] = stored[n]

MergedKeeps == stage # "idle" /\ purpose = "patch" /\ ~partial => KeepsImmutable(given)

IInv == Typed /\ Called /\ FieldsSoFar /\ DefaultsSoFar /\ MergedKeeps /\ StoredIsARecord

LEMMA InitInv == Init => IInv
BY DEF Init, IInv, Typed, Called, FieldsSoFar, DefaultsSoFar, MergedKeeps, StoredIsARecord

LEMMA EndsInv ==
  ASSUME IInv, stage' = "idle", UNCHANGED <<document, stored>>
  PROVE  IInv'
BY DEF IInv, Typed, Called, FieldsSoFar, DefaultsSoFar, MergedKeeps, StoredIsARecord

LEMMA EnterInv ==
  ASSUME IInv, UNCHANGED stored,
         NEW why \in {"create", "patch"}, NEW values, NEW isPartial \in BOOLEAN,
         Enter(why, values, isPartial),
         why = "create" <=> stored = Absent,
         isPartial => why = "patch",
         why = "patch" /\ ~isPartial => KeepsImmutable(values)
  PROVE  IInv'
<1>1. CASE ~(DOMAIN values \subseteq DOMAIN document.fields)
  BY <1>1, EndsInv DEF Enter
<1>2. CASE DOMAIN values \subseteq DOMAIN document.fields
  <2>1. /\ stage' = "fields" /\ purpose' = why /\ partial' = isPartial /\ given' = values
        /\ todo' = DOMAIN values /\ result' = Nothing /\ UNCHANGED <<document, stored>>
    BY <1>2 DEF Enter
  <2>2. Typed' /\ Called'
    BY <1>2, <2>1 DEF IInv, Typed, Called
  <2>3. FieldsSoFar'
    BY <2>1 DEF FieldsSoFar, Nothing
  <2>4. DefaultsSoFar' /\ StoredIsARecord'
    BY <2>1 DEF DefaultsSoFar, StoredIsARecord, IInv
  <2>5. MergedKeeps'
    BY <2>1 DEF MergedKeeps, KeepsImmutable
  <2> QED
    BY <2>2, <2>3, <2>4, <2>5 DEF IInv
<1> QED
  BY <1>1, <1>2

(* No removal and nothing that does not fit passes without an error.         *)
LEMMA NoErrorFits ==
  ASSUME NEW n, FieldError(n) = "none"
  PROVE  /\ given[n] # Removal => Fits(document.fields[n], given[n])
         /\ partial \in BOOLEAN /\ ~partial => given[n] # Removal
         /\ partial /\ ~document.fields[n].mutable =>
              n \in DOMAIN stored /\ stored[n] = given[n]
BY DEF FieldError, ValueError

LEMMA ValidateFieldInv ==
  ASSUME IInv, NEW n \in Names, ValidateField(n)
  PROVE  IInv'
<1>1. stage = "fields" /\ n \in todo
  BY DEF ValidateField
<1>2. CASE FieldError(n) # "none"
  BY <1>2, EndsInv DEF ValidateField, Raise, Ends
<1>3. CASE FieldError(n) = "none"
  <2>1. /\ todo' = todo \ {n}
        /\ result' = IF given[n] = Removal THEN result ELSE With(result, n, given[n])
        /\ UNCHANGED <<document, stored, purpose, partial, given, stage>>
    BY <1>3 DEF ValidateField
  <2>2. /\ todo \subseteq DOMAIN given /\ DOMAIN given \subseteq DOMAIN document.fields
        /\ result \in [{m \in DOMAIN given \ todo : given[m] # Removal} -> Values \cup {Null}]
        /\ \A m \in DOMAIN result : result[m] = given[m]
        /\ \A m \in DOMAIN given \ todo : FieldError(m) = "none"
        /\ document \in Documents
    BY <1>1 DEF IInv, FieldsSoFar, Called, Typed
  <2>3. Typed' /\ Called' /\ DefaultsSoFar' /\ MergedKeeps' /\ StoredIsARecord'
    BY <1>1, <2>1 DEF IInv, Typed, Called, DefaultsSoFar, MergedKeeps, KeepsImmutable, StoredIsARecord
  <2>4. \A m : FieldError(m)' = FieldError(m)
    BY <2>1 DEF FieldError, ValueError
  <2>5. /\ result' \in [{m \in DOMAIN given \ (todo \ {n}) : given[m] # Removal} -> Values \cup {Null}]
        /\ \A m \in DOMAIN result' : result'[m] = given[m]
    <3>1. CASE given[n] = Removal
      BY <2>1, <2>2, <3>1
    <3>2. CASE given[n] # Removal
      <4>1. given[n] \in Values \cup {Null}
        BY <1>1, <1>3, <2>2, <3>2, NoErrorFits, FitsIsAValue
      <4>2. result' = [m \in DOMAIN result \cup {n} |-> IF m = n THEN given[n] ELSE result[m]]
        BY <2>1, <3>2 DEF With
      <4>3. DOMAIN result \cup {n} = {m \in DOMAIN given \ (todo \ {n}) : given[m] # Removal}
        BY <1>1, <2>2, <3>2
      <4> QED
        BY <2>2, <4>1, <4>2, <4>3
    <3> QED
      BY <3>1, <3>2
  <2>6. FieldsSoFar'
    BY <1>3, <2>1, <2>2, <2>4, <2>5 DEF FieldsSoFar
  <2> QED
    BY <2>3, <2>6 DEF IInv
<1> QED
  BY <1>2, <1>3

LEMMA FieldsDoneInv ==
  ASSUME IInv, FieldsDone
  PROVE  IInv'
<1>1. /\ stage = "fields" /\ todo = {} /\ ~partial
      /\ pending' = Pending(document, result) /\ visit' = pending' /\ progressed' = FALSE
      /\ stage' = "defaults"
      /\ UNCHANGED <<document, stored, purpose, partial, given, todo, result>>
  BY DEF FieldsDone
<1>2. /\ document \in Documents /\ partial \in BOOLEAN
      /\ DOMAIN given \subseteq DOMAIN document.fields
      /\ \A n \in DOMAIN given : FieldError(n) = "none"
      /\ result \in [{n \in DOMAIN given : given[n] # Removal} -> Values \cup {Null}]
      /\ \A n \in DOMAIN result : result[n] = given[n]
  BY <1>1 DEF IInv, Typed, Called, FieldsSoFar
<1>3. \A n \in DOMAIN given : given[n] # Removal /\ Fits(document.fields[n], given[n])
  BY <1>1, <1>2, NoErrorFits
<1>4. result \in [DOMAIN given -> Values \cup {Null}]
  <2>1. {n \in DOMAIN given : given[n] # Removal} = DOMAIN given
    BY <1>3
  <2> QED
    BY <1>2, <2>1
<1>5. Pending(document, result) = Pending(document, given)
  BY <1>4 DEF Pending
<1>6. /\ PartlyFilled(document, given, result, Pending(document, given))
      /\ Forced(document, given, result)
  <2>1. \A n \in DOMAIN given : result[n] = given[n] /\ Fits(document.fields[n], given[n])
    BY <1>2, <1>3, <1>4
  <2> QED
    BY <1>2, <1>4, <2>1, GivenIsPartlyFilled
<1>7. DefaultsSoFar'
  BY <1>1, <1>5, <1>6 DEF DefaultsSoFar
<1>8. Typed' /\ Called' /\ FieldsSoFar' /\ MergedKeeps' /\ StoredIsARecord'
  BY <1>1 DEF IInv, Typed, Called, FieldsSoFar, MergedKeeps, KeepsImmutable, StoredIsARecord
<1> QED
  BY <1>7, <1>8 DEF IInv

(* What the visit of a default that lacks nothing finds out.                 *)
Known == [m \in Names |-> IF m \in DOMAIN result THEN result[m] ELSE Null]

LEMMA VisitedDefault ==
  ASSUME IInv, stage = "defaults", NEW n \in visit,
         ~Missing(document.fields[n].default),
         NEW value, value = Evaluate(document.fields[n].default, Known)
  PROVE  LET default == document.fields[n].default
         IN  /\ \A full \in Validated(document, given) :
                  Fits(document.fields[n], value) /\ ~Raises(default, Known)
             /\ ~Raises(default, Known) /\ Fits(document.fields[n], value) =>
                  /\ PartlyFilled(document, given, With(result, n, value), pending \ {n})
                  /\ Forced(document, given, With(result, n, value))
<1>1. /\ document \in Documents
      /\ PartlyFilled(document, given, result, pending)
      /\ Forced(document, given, result)
      /\ n \in pending
      /\ Refers(document.fields[n].default) \subseteq DOMAIN result
  BY DEF IInv, Typed, DefaultsSoFar, Missing
<1>2. DOMAIN result \subseteq Names
  <2>1. DOMAIN result \subseteq DOMAIN document.fields
    BY <1>1 DEF PartlyFilled, Pending
  <2> QED
    BY <1>1, <2>1, DocumentsAssumption
<1>3. \A g \in DOMAIN result : Known[g] = result[g]
  BY <1>2 DEF Known
<1> HIDE DEF Known
<1> QED
  BY <1>1, <1>3, OneMoreDefault

LEMMA VisitDefaultInv ==
  ASSUME IInv, NEW n \in Names, VisitDefault(n)
  PROVE  IInv'
<1> DEFINE default == document.fields[n].default
           value   == Evaluate(default, Known)
<1>1. /\ stage = "defaults" /\ n \in visit
      /\ IF Missing(default)
           THEN /\ visit' = visit \ {n}
                /\ UNCHANGED <<document, stored, purpose, partial, given, todo, result, pending,
                               progressed, stage, outcome>>
         ELSE IF Raises(default, Known)
           THEN Raise("ValueError")
         ELSE IF ValueError(document.fields[n], value) # "none"
           THEN Raise(ValueError(document.fields[n], value))
           ELSE /\ result' = With(result, n, value)
                /\ visit' = visit \ {n} /\ pending' = pending \ {n}
                /\ progressed' = TRUE
                /\ UNCHANGED <<document, stored, purpose, partial, given, todo, stage, outcome>>
  BY DEF VisitDefault, Known
<1>2. /\ PartlyFilled(document, given, result, pending) /\ Forced(document, given, result)
      /\ visit \subseteq pending /\ progressed \in BOOLEAN
      /\ ~progressed => \A m \in pending \ visit : Missing(document.fields[m].default)
  BY <1>1 DEF IInv, DefaultsSoFar
<1> HIDE DEF value
<1>3. CASE Missing(default)
  <2>1. /\ visit' = visit \ {n}
        /\ UNCHANGED <<document, stored, purpose, partial, given, todo, result, pending, progressed, stage>>
    BY <1>1, <1>3
  <2>2. \A m : Missing(document.fields[m].default)' = Missing(document.fields[m].default)
    BY <2>1 DEF Missing
  <2>3. DefaultsSoFar'
    BY <1>1, <1>2, <1>3, <2>1, <2>2 DEF DefaultsSoFar
  <2>4. Typed' /\ Called' /\ FieldsSoFar' /\ MergedKeeps' /\ StoredIsARecord'
    BY <1>1, <2>1 DEF IInv, Typed, Called, FieldsSoFar, MergedKeeps, KeepsImmutable, StoredIsARecord
  <2> QED
    BY <2>3, <2>4 DEF IInv
<1>4. CASE ~Missing(default) /\ (Raises(default, Known) \/ ValueError(document.fields[n], value) # "none")
  <2>1. stage' = "idle" /\ UNCHANGED <<document, stored>>
    BY <1>1, <1>4 DEF Raise, Ends
  <2> QED
    BY <2>1, EndsInv
<1>5. CASE ~Missing(default) /\ ~Raises(default, Known) /\ ValueError(document.fields[n], value) = "none"
  <2>1. /\ result' = With(result, n, value)
        /\ visit' = visit \ {n} /\ pending' = pending \ {n} /\ progressed' = TRUE
        /\ UNCHANGED <<document, stored, purpose, partial, given, todo, stage>>
    BY <1>1, <1>5
  <2>2. Fits(document.fields[n], value)
    BY <1>5 DEF ValueError
  <2>3. /\ PartlyFilled(document, given, With(result, n, value), pending \ {n})
        /\ Forced(document, given, With(result, n, value))
    BY <1>1, <1>5, <2>2, VisitedDefault DEF value
  <2>4. DefaultsSoFar'
    BY <1>1, <1>2, <2>1, <2>3 DEF DefaultsSoFar
  <2>5. Typed' /\ Called' /\ FieldsSoFar' /\ MergedKeeps' /\ StoredIsARecord'
    BY <1>1, <2>1 DEF IInv, Typed, Called, FieldsSoFar, MergedKeeps, KeepsImmutable, StoredIsARecord
  <2> QED
    BY <2>4, <2>5 DEF IInv
<1> QED
  BY <1>3, <1>4, <1>5

LEMMA RoundInv ==
  ASSUME IInv, Round
  PROVE  IInv'
<1>1. /\ stage = "defaults" /\ visit = {}
      /\ UNCHANGED <<document, stored, purpose, partial, given, todo, result, pending>>
  BY DEF Round
<1>2. CASE pending = {}
  <2>1. stage' = "required" /\ UNCHANGED <<visit, progressed>>
    BY <1>2 DEF Round
  <2>2. Typed' /\ Called' /\ FieldsSoFar' /\ MergedKeeps' /\ StoredIsARecord'
    BY <1>1, <2>1 DEF IInv, Typed, Called, FieldsSoFar, MergedKeeps, KeepsImmutable, StoredIsARecord
  <2>3. DefaultsSoFar'
    BY <1>1, <1>2, <2>1 DEF IInv, DefaultsSoFar, Missing
  <2> QED
    BY <2>2, <2>3 DEF IInv
<1>3. CASE pending # {} /\ progressed
  <2>1. visit' = pending /\ progressed' = FALSE /\ UNCHANGED stage
    BY <1>3 DEF Round
  <2>2. Typed' /\ Called' /\ FieldsSoFar' /\ MergedKeeps' /\ StoredIsARecord'
    BY <1>1, <2>1 DEF IInv, Typed, Called, FieldsSoFar, MergedKeeps, KeepsImmutable, StoredIsARecord
  <2>3. DefaultsSoFar'
    BY <1>1, <2>1 DEF IInv, DefaultsSoFar
  <2> QED
    BY <2>2, <2>3 DEF IInv
<1>4. CASE pending # {} /\ ~progressed
  <2>1. stage' = "idle"
    BY <1>4 DEF Round
  <2> QED
    BY <1>1, <2>1, EndsInv
<1> QED
  BY <1>2, <1>3, <1>4 DEF Round

(* What is accepted is the one Record that the input makes.                  *)
LEMMA ReturnedIsValidated ==
  ASSUME IInv, stage = "required"
  PROVE  /\ ~LacksRequired /\ ~LacksIdentity => Validated(document, given) = {result}
         /\ LacksRequired \/ LacksIdentity => ~Accepts(document, given)
<1>1. /\ document \in Documents
      /\ PartlyFilled(document, given, result, {}) /\ Forced(document, given, result)
  BY DEF IInv, Typed, DefaultsSoFar
<1>2. DOMAIN result = DOMAIN given \cup Pending(document, given)
  BY <1>1, FilledIsValidated
<1>3. ASSUME ~LacksRequired, ~LacksIdentity
      PROVE  Validated(document, given) = {result}
  BY <1>1, <1>3, FilledIsValidated DEF LacksRequired, LacksIdentity
<1>4. ASSUME LacksRequired \/ LacksIdentity, NEW full \in Validated(document, given)
      PROVE  FALSE
  <2>1. /\ DOMAIN full = DOMAIN result
        /\ \A n \in DOMAIN result : full[n] = result[n]
        /\ \A n \in DOMAIN document.fields \ DOMAIN full : document.fields[n].nullable
        /\ \A n \in IdentityOf(document) : n \in DOMAIN full /\ full[n] # Null
    BY <1>1, <1>2, <1>4 DEF Validated, Forced
  <2> QED
    BY <1>4, <2>1 DEF LacksRequired, LacksIdentity
<1> QED
  BY <1>3, <1>4 DEF Accepts

(* A Record that was returned is validated once more with the same result.   *)
LEMMA ReturnedIsARecord ==
  ASSUME NEW doc, NEW values, NEW full \in Validated(doc, values)
  PROVE  Accepts(doc, full)
<1>1. /\ full \in [DOMAIN values \cup Pending(doc, values) -> Values \cup {Null}]
      /\ DOMAIN values \subseteq DOMAIN doc.fields
      /\ \A f \in DOMAIN full : Fits(doc.fields[f], full[f])
      /\ \A f \in DOMAIN doc.fields \ DOMAIN full : doc.fields[f].nullable
      /\ \A f \in IdentityOf(doc) : f \in DOMAIN full /\ full[f] # Null
  BY DEF Validated
<1>2. DOMAIN full \subseteq DOMAIN doc.fields /\ Pending(doc, full) = {}
  BY <1>1 DEF Pending
<1>3. Ordered(doc, full)
  <2> DEFINE before == [f \in {} |-> {}]
  <2>1. before \in [{} -> SUBSET {}]
    OBVIOUS
  <2> QED
    BY <1>2, <2>1 DEF Ordered
<1>4. Filled(doc, full, full)
  BY <1>2 DEF Filled
<1>5. full \in [DOMAIN full \cup Pending(doc, full) -> Values \cup {Null}]
  BY <1>1, <1>2
<1>6. full \in Validated(doc, full)
  BY <1>1, <1>2, <1>3, <1>4, <1>5 DEF Validated
<1> QED
  BY <1>6 DEF Accepts

LEMMA ReturnInv ==
  ASSUME IInv, Return
  PROVE  IInv'
<1>1. stage = "required"
  BY DEF Return
<1>2. CASE LacksRequired \/ LacksIdentity
  <2>1. stage' = "idle" /\ UNCHANGED <<document, stored>>
    BY <1>2 DEF Return, Raise, Ends
  <2> QED
    BY <2>1, EndsInv
<1>3. CASE ~LacksRequired /\ ~LacksIdentity
  <2>1. /\ stage' = "idle" /\ document' = document
        /\ stored' = IF purpose = "create" THEN result ELSE given
    BY <1>3 DEF Return, Ends
  <2>2. result \in Validated(document, given)
    BY <1>1, <1>3, ReturnedIsValidated
  <2>3. Accepts(document, stored')
    BY <2>1, <2>2, ReturnedIsARecord DEF Accepts
  <2> QED
    BY <2>1, <2>3 DEF IInv, Typed, Called, FieldsSoFar, DefaultsSoFar, MergedKeeps, StoredIsARecord
<1> QED
  BY <1>2, <1>3

(* No removal is kept in a Record.                                           *)
LEMMA StoredHasNoRemoval ==
  ASSUME IInv, stored # Absent, NEW n \in DOMAIN stored
  PROVE  stored[n] # Removal
<1>1. PICK full \in Validated(document, stored) : TRUE
  BY DEF IInv, StoredIsARecord, Accepts
<1>2. full[n] = stored[n] /\ full \in [DOMAIN stored \cup Pending(document, stored) -> Values \cup {Null}]
  BY <1>1 DEF Validated, Filled
<1> QED
  BY <1>2, NamesAssumption

LEMMA MergeInv ==
  ASSUME IInv, Merge
  PROVE  IInv'
<1>1. /\ stage = "fields" /\ todo = {} /\ partial
      /\ Enter("patch", Merged, FALSE) /\ UNCHANGED stored
  BY DEF Merge
<1>2. /\ stored # Absent
      /\ DOMAIN result \subseteq DOMAIN given
      /\ \A n \in DOMAIN result : result[n] = given[n]
      /\ \A n \in DOMAIN given : FieldError(n) = "none"
  BY <1>1 DEF IInv, Called, FieldsSoFar
<1>3. KeepsImmutable(Merged)
  <2> SUFFICES ASSUME NEW n \in DOMAIN document.fields, ~document.fields[n].mutable
               PROVE  /\ n \in DOMAIN Merged <=> n \in DOMAIN stored
                      /\ n \in DOMAIN stored => Merged[n] = stored[n]
    BY DEF KeepsImmutable
  <2>1. n \in DOMAIN given => n \in DOMAIN stored /\ stored[n] = given[n]
    BY <1>1, <1>2, NoErrorFits
  <2>2. n \notin Removed
    BY <1>2, <2>1, StoredHasNoRemoval DEF Removed
  <2> QED
    BY <1>2, <2>1, <2>2 DEF Merged
<1>4. /\ "patch" = "create" <=> stored = Absent
      /\ FALSE => "patch" = "patch"
  BY <1>2
<1> QED
  BY <1>1, <1>3, <1>4, EnterInv

LEMMA CallInv ==
  ASSUME IInv, NEW values, Create(values) \/ Patch(values)
  PROVE  IInv'
<1>1. CASE Create(values)
  BY <1>1, EnterInv DEF Create
<1>2. CASE Patch(values)
  BY <1>2, EnterInv DEF Patch
<1> QED
  BY <1>1, <1>2

LEMMA IInvAlways == Spec => []IInv
<1>1. IInv /\ [Next]_vars => IInv'
  <2> SUFFICES ASSUME IInv, [Next]_vars PROVE IInv'
    OBVIOUS
  <2>1. ASSUME NEW values \in Inputs, Create(values) \/ Patch(values) PROVE IInv'
    BY <2>1, CallInv
  <2>2. ASSUME NEW n \in Names, ValidateField(n) PROVE IInv'
    BY <2>2, ValidateFieldInv
  <2>3. ASSUME NEW n \in Names, VisitDefault(n) PROVE IInv'
    BY <2>3, VisitDefaultInv
  <2>4. CASE FieldsDone
    BY <2>4, FieldsDoneInv
  <2>5. CASE Round
    BY <2>5, RoundInv
  <2>6. CASE Return
    BY <2>6, ReturnInv
  <2>7. CASE Merge
    BY <2>7, MergeInv
  <2>8. CASE UNCHANGED vars
    BY <2>8 DEF vars, call, IInv, Typed, Called, FieldsSoFar, FieldError, ValueError, DefaultsSoFar,
               Missing, MergedKeeps, KeepsImmutable, StoredIsARecord
  <2> QED
    BY <2>1, <2>2, <2>3, <2>4, <2>5, <2>6, <2>7, <2>8 DEF Next, Step
<1> QED
  BY InitInv, <1>1, PTL DEF Spec

(* Whatever is kept, after any number of patches, is a Record (validation.py *)
(* 136-265).                                                                 *)
THEOREM StoredIsARecordAlways == Spec => []StoredIsARecord
<1>1. IInv => StoredIsARecord
  BY DEF IInv
<1> QED
  BY <1>1, IInvAlways, PTL

(* No patch changes, sets late or removes an immutable field (validation.py  *)
(* 168-181, 256-264).                                                        *)
THEOREM ImmutableFieldsKeepAlways == Spec => ImmutableFieldsKeep
<1>1. ASSUME IInv, [Next]_vars, stored # Absent
      PROVE  \A n \in DOMAIN document.fields : ~document.fields[n].mutable =>
               /\ n \in DOMAIN stored' <=> n \in DOMAIN stored
               /\ n \in DOMAIN stored => stored'[n] = stored[n]
  <2>1. CASE stored' = stored
    BY <2>1
  <2>2. CASE Return /\ ~LacksRequired /\ ~LacksIdentity
    <3>1. stage = "required" /\ stored' = IF purpose = "create" THEN result ELSE given
      BY <2>2 DEF Return
    <3>2. purpose = "patch" /\ ~partial
      BY <1>1, <3>1 DEF IInv, Called
    <3>3. KeepsImmutable(given)
      BY <1>1, <3>1, <3>2 DEF IInv, MergedKeeps
    <3> QED
      BY <3>1, <3>2, <3>3 DEF KeepsImmutable
  <2> QED
    BY <1>1, <2>1, <2>2
    DEF Next, Step, Create, Patch, ValidateField, VisitDefault, FieldsDone, Round, Return, Merge,
        Raise, Ends, vars
<1> QED
  BY <1>1, IInvAlways, PTL DEF Spec, ImmutableFieldsKeep

(* The rounds accept exactly what is a Record and return the one Record that *)
(* the input makes, however defaults depend on each other (validation.py     *)
(* 193-238).                                                                 *)
THEOREM RoundsDecideValidityAlways == Spec => RoundsDecideValidity
<1>1. ASSUME IInv, [Next]_vars, stage # "idle", ~partial, stage' = "idle"
      PROVE  IF outcome' = "accepted" THEN Validated(document, given) = {result}
                                      ELSE ~Accepts(document, given)
  <2> USE <1>1
  <2>1. ASSUME NEW n \in Names, ValidateField(n)
        PROVE  outcome' # "accepted" /\ ~Accepts(document, given)
    <3>1. stage = "fields" /\ n \in todo /\ todo \subseteq DOMAIN given /\ partial \in BOOLEAN
          /\ DOMAIN given \subseteq DOMAIN document.fields /\ document \in Documents
      BY <2>1 DEF ValidateField, IInv, FieldsSoFar, Called, Typed
    <3>2. FieldError(n) # "none" /\ outcome' = FieldError(n)
      BY <2>1, <3>1 DEF ValidateField, Raise, Ends
    <3>3. FieldError(n) \in {"patch.remove", "field.mutable", "field.required", "field.nullable",
                             "field.logical-type", "none"}
      BY DEF FieldError, ValueError
    <3>4. given[n] = Removal \/ ~Fits(document.fields[n], given[n])
      BY <3>1, <3>2 DEF FieldError, ValueError
    <3>5. ~Fits(document.fields[n], given[n])
      BY <3>1, <3>4, FitsIsAValue
    <3>6. \A full \in Validated(document, given) : Fits(document.fields[n], given[n])
      BY <3>1 DEF Validated, Filled
    <3> QED
      BY <3>2, <3>3, <3>5, <3>6 DEF Accepts
  <2>2. ASSUME NEW n \in Names, VisitDefault(n)
        PROVE  outcome' # "accepted" /\ ~Accepts(document, given)
    <3> DEFINE default == document.fields[n].default
               value   == Evaluate(default, Known)
    <3>1. /\ stage = "defaults" /\ n \in visit /\ ~Missing(default)
          /\ \/ Raises(default, Known) /\ outcome' = "ValueError"
             \/ /\ ValueError(document.fields[n], value) # "none"
                /\ outcome' = ValueError(document.fields[n], value)
      BY <2>2 DEF VisitDefault, Known, Raise, Ends
    <3> HIDE DEF value
    <3>2. outcome' # "accepted" /\ (Raises(default, Known) \/ ~Fits(document.fields[n], value))
      BY <3>1 DEF ValueError
    <3> QED
      BY <3>1, <3>2, VisitedDefault DEF Accepts, value
  <2>3. CASE Round
    <3>1. stage = "defaults" /\ visit = {} /\ pending # {} /\ ~progressed /\ outcome' = "defaults.acyclic"
      BY <2>3 DEF Round
    <3>2. /\ document \in Documents /\ PartlyFilled(document, given, result, pending)
          /\ \A n \in pending : Missing(document.fields[n].default)
      BY <3>1 DEF IInv, Typed, DefaultsSoFar
    <3>3. ~Accepts(document, given)
      BY <3>1, <3>2, StuckIsUnordered DEF Missing
    <3> QED
      BY <3>1, <3>3
  <2>4. CASE Return
    <3>1. /\ stage = "required"
          /\ outcome' = IF LacksRequired THEN "field.required"
                        ELSE IF LacksIdentity THEN "identity.required" ELSE "accepted"
      BY <2>4 DEF Return, Raise, Ends
    <3> QED
      BY <3>1, ReturnedIsValidated
  <2> QED
    BY <2>1, <2>2, <2>3, <2>4 DEF Next, Step, Create, Patch, FieldsDone, Merge, vars, call
<1> QED
  BY <1>1, IInvAlways, PTL DEF Spec, RoundsDecideValidity

-----------------------------------------------------------------------------
(* What ValidationEnds rests on, apart from fairness: every step of a        *)
(* validation lowers the stage it is in, or the rounds that can follow, or   *)
(* what is left of the present stage or round.                               *)

StagesLeft ==
  CASE stage = "fields"   -> IF partial THEN 4 ELSE 3
    [] stage = "defaults" -> 2
    [] stage = "required" -> 1
    [] OTHER              -> 0

\* A round follows on progress only, and progress takes a field off pending.
RoundsLeft == Cardinality(pending) + (IF progressed THEN 1 ELSE 0)

InHand == IF stage = "fields" THEN todo ELSE visit

Advances ==
  \/ StagesLeft' < StagesLeft
  \/ /\ StagesLeft' = StagesLeft
     /\ stage' = "defaults" => RoundsLeft' \in Nat /\ RoundsLeft' <= RoundsLeft
     /\ \/ stage' = "defaults" /\ RoundsLeft' < RoundsLeft
        \/ IsFiniteSet(InHand) /\ Cardinality(InHand') < Cardinality(InHand)

LEMMA OneLess ==
  ASSUME NEW S, IsFiniteSet(S), NEW x \in S
  PROVE  Cardinality(S \ {x}) < Cardinality(S)
<1>1. Cardinality(S) \in Nat
  BY FS_CardinalityType
<1>2. Cardinality(S \ {x}) = Cardinality(S) - 1
  BY FS_RemoveElement
<1> QED
  BY <1>1, <1>2

LEMMA FieldAdvances ==
  ASSUME IInv, NEW n \in Names, ValidateField(n)
  PROVE  Advances
<1>1. stage = "fields" /\ n \in todo /\ IsFiniteSet(todo)
  <2>1. stage = "fields" /\ n \in todo
    BY DEF ValidateField
  <2>2. todo \subseteq Names
    BY <2>1, DocumentsAssumption DEF IInv, Typed, Called, FieldsSoFar
  <2> QED
    BY <2>1, <2>2, NamesAssumption, FS_Subset
<1>2. CASE stage' = "idle"
  BY <1>1, <1>2 DEF Advances, StagesLeft
<1>3. CASE todo' = todo \ {n} /\ UNCHANGED <<stage, partial>>
  <2>1. Cardinality(todo') < Cardinality(todo)
    BY <1>1, <1>3, OneLess
  <2>2. InHand = todo /\ InHand' = todo'
    BY <1>1, <1>3 DEF InHand
  <2>3. StagesLeft' = StagesLeft
    BY <1>3 DEF StagesLeft
  <2>4. IsFiniteSet(InHand) /\ Cardinality(InHand') < Cardinality(InHand) /\ stage' # "defaults"
    BY <1>1, <1>3, <2>1, <2>2
  <2> QED
    BY <2>3, <2>4 DEF Advances
<1> QED
  BY <1>2, <1>3 DEF ValidateField, Raise, Ends

LEMMA PendingIsFinite ==
  ASSUME IInv, stage = "defaults"
  PROVE  /\ IsFiniteSet(pending) /\ IsFiniteSet(visit) /\ visit \subseteq pending
         /\ Cardinality(pending) \in Nat /\ progressed \in BOOLEAN
<1>1. pending \subseteq Names /\ visit \subseteq pending /\ progressed \in BOOLEAN
  <2>1. document \in Documents /\ pending \subseteq DOMAIN document.fields
    BY DEF IInv, Typed, DefaultsSoFar, PartlyFilled, Pending
  <2> QED
    BY <2>1, DocumentsAssumption DEF IInv, DefaultsSoFar
<1> QED
  BY <1>1, NamesAssumption, FS_Subset, FS_CardinalityType

LEMMA VisitAdvances ==
  ASSUME IInv, NEW n \in Names, VisitDefault(n)
  PROVE  Advances
<1>1. stage = "defaults" /\ n \in visit
  BY DEF VisitDefault
<1>2. /\ IsFiniteSet(pending) /\ IsFiniteSet(visit) /\ n \in pending
      /\ Cardinality(pending) \in Nat /\ progressed \in BOOLEAN
  BY <1>1, PendingIsFinite
<1>3. CASE stage' = "idle"
  BY <1>1, <1>3 DEF Advances, StagesLeft
<1>4. CASE /\ visit' = visit \ {n} /\ UNCHANGED <<stage, partial>>
           /\ \/ UNCHANGED <<pending, progressed>>
              \/ pending' = pending \ {n} /\ progressed' = TRUE
  <2>1. Cardinality(visit') < Cardinality(visit)
    BY <1>1, <1>2, <1>4, OneLess
  <2>2. RoundsLeft' \in Nat /\ RoundsLeft' <= RoundsLeft
    <3>1. CASE UNCHANGED <<pending, progressed>>
      BY <1>2, <3>1 DEF RoundsLeft
    <3>2. CASE pending' = pending \ {n} /\ progressed' = TRUE
      <4>1. Cardinality(pending') = Cardinality(pending) - 1 /\ Cardinality(pending') \in Nat
        BY <1>2, <3>2, FS_RemoveElement, FS_CardinalityType
      <4> QED
        BY <1>2, <3>2, <4>1 DEF RoundsLeft
    <3> QED
      BY <1>4, <3>1, <3>2
  <2>3. InHand = visit /\ InHand' = visit' /\ StagesLeft' = StagesLeft
    BY <1>1, <1>4 DEF InHand, StagesLeft
  <2> QED
    BY <1>2, <2>1, <2>2, <2>3 DEF Advances
<1> QED
  BY <1>3, <1>4 DEF VisitDefault, Raise, Ends

LEMMA RoundAdvances ==
  ASSUME IInv, Round
  PROVE  Advances
<1>1. stage = "defaults"
  BY DEF Round
<1>2. CASE stage' \in {"required", "idle"}
  BY <1>1, <1>2 DEF Advances, StagesLeft
<1>3. CASE progressed /\ progressed' = FALSE /\ UNCHANGED <<stage, partial, pending>>
  <2>1. RoundsLeft' \in Nat /\ RoundsLeft' < RoundsLeft
    BY <1>1, <1>3, PendingIsFinite DEF RoundsLeft
  <2>2. RoundsLeft' <= RoundsLeft
    BY <1>1, <1>3, PendingIsFinite DEF RoundsLeft
  <2>3. StagesLeft' = StagesLeft
    BY <1>3 DEF StagesLeft
  <2> QED
    BY <1>1, <1>3, <2>1, <2>2, <2>3 DEF Advances
<1> QED
  BY <1>2, <1>3 DEF Round

(* Validation runs down, whatever the defaults depend on: each of its steps  *)
(* comes nearer to its end, in the lexicographic order of the stages, the    *)
(* rounds and the fields that are left.                                      *)
THEOREM ValidationRunsDown == Spec => [][Step => Advances]_vars
<1>1. IInv => (Step => Advances)
  <2> SUFFICES ASSUME IInv, Step PROVE Advances
    OBVIOUS
  <2>1. CASE FieldsDone
    BY <2>1 DEF FieldsDone, Advances, StagesLeft
  <2>2. CASE Return
    BY <2>2 DEF Return, Raise, Ends, Advances, StagesLeft
  <2>3. CASE Merge
    BY <2>3 DEF Merge, Enter, Advances, StagesLeft
  <2> QED
    BY <2>1, <2>2, <2>3, FieldAdvances, VisitAdvances, RoundAdvances DEF Step
<1> QED
  BY <1>1, IInvAlways, PTL

-----------------------------------------------------------------------------
(* RelationRecords *)

\* The Record is one of the version it was written under, and the profile is
\* still that version's, unless a breaking change was allowed.
ProfileKept ==
  record # NoRecord =>
    /\ Admits(origin, record)
    /\ worst < Breaking => schema.profile = origin.profile

RelationInv == TypeOK /\ ProfileKept

LEMMA RelationInitInv == RelationInit => RelationInv
BY DEF RelationInit, RelationInv, TypeOK, ProfileKept

\* A change of the profile is breaking, and no other change is.
LEMMA MildMeansSameProfile ==
  ASSUME NEW source \in Definitions, NEW target \in Definitions
  PROVE  /\ Class(source, target) \in {Identical, Conditional, Breaking}
         /\ Class(source, target) < Breaking => source.profile = target.profile
BY DEF Class, Identical, Conditional, Breaking

LEMMA PublishInv ==
  ASSUME RelationInv, NEW doc \in Definitions, NEW allowBreaking \in BOOLEAN,
         Publish(doc, allowBreaking)
  PROVE  RelationInv'
<1> DEFINE class == Class(schema, doc)
<1>1. /\ RelationWellFormed(doc) /\ schema' = doc /\ record' = record /\ origin' = origin
      /\ worst' = IF record # NoRecord /\ class > worst THEN class ELSE worst
      /\ schema \in Definitions /\ worst \in {Identical, Conditional, Breaking}
  BY DEF Publish, RelationInv, TypeOK
<1>2. /\ class \in {Identical, Conditional, Breaking}
      /\ class < Breaking => schema.profile = doc.profile
  BY <1>1, MildMeansSameProfile
<1>3. TypeOK'
  BY <1>1, <1>2 DEF RelationInv, TypeOK
<1>4. ProfileKept'
  <2> SUFFICES ASSUME record # NoRecord
               PROVE  /\ Admits(origin, record)
                      /\ worst' < Breaking => doc.profile = origin.profile
    BY <1>1 DEF ProfileKept
  <2>1. Admits(origin, record) /\ (worst < Breaking => schema.profile = origin.profile)
    BY DEF RelationInv, ProfileKept
  <2>2. worst' < Breaking => worst < Breaking /\ class < Breaking
    BY <1>1, <1>2 DEF Identical, Conditional, Breaking
  <2> QED BY <1>2, <2>1, <2>2
<1> QED BY <1>3, <1>4 DEF RelationInv

LEMMA WriteInv ==
  ASSUME RelationInv, NEW ends \in Endpoints, Write(ends)
  PROVE  RelationInv'
<1>1. /\ Admits(schema, ends) /\ schema' = schema
      /\ record' = ends /\ origin' = schema /\ worst' = Identical
  BY DEF Write
<1>2. TypeOK'
  BY <1>1, NoRecordAssumption DEF RelationInv, TypeOK
<1>3. ProfileKept'
  BY <1>1 DEF ProfileKept
<1> QED BY <1>2, <1>3 DEF RelationInv

\* Versions are well-formed, and a Record's version declares the same profile as
\* the latest one as long as no breaking change was allowed (compatibility.py
\* 273-294, publication.py 231-238).
THEOREM RelationInvAlways == RelationSpec => []RelationInv
<1>1. RelationInv /\ [RelationNext]_relationVars => RelationInv'
  <2> SUFFICES ASSUME RelationInv, [RelationNext]_relationVars
               PROVE  RelationInv'
    OBVIOUS
  <2>1. CASE UNCHANGED relationVars
    BY <2>1 DEF relationVars, RelationInv, TypeOK, ProfileKept
  <2>2. CASE \E doc \in Definitions, allowBreaking \in BOOLEAN : Publish(doc, allowBreaking)
    BY <2>2, PublishInv
  <2>3. CASE \E ends \in Endpoints : Write(ends)
    BY <2>3, WriteInv
  <2> QED BY <2>1, <2>2, <2>3 DEF RelationNext
<1> QED BY RelationInitInv, <1>1, PTL DEF RelationSpec

\* An invariant Record lies between Collections that are neighbors.
LEMMA KeptIsFound == RelationInv => TraversalFindsRecords
<1> SUFFICES ASSUME RelationInv, record # NoRecord, worst < Breaking, DOMAIN origin.allowed = Sides
             PROVE  /\ record["target"] \in Neighbors(schema.profile, record["source"])
                    /\ ~schema.profile.directed =>
                         record["source"] \in Neighbors(schema.profile, record["target"])
  BY DEF TraversalFindsRecords
<1>1. /\ schema.profile = origin.profile
      /\ \A side \in Sides : origin.allowed[side] = origin.profile[side]
      /\ \A side \in Sides : record[side] \in origin.allowed[side]
  BY DEF RelationInv, ProfileKept, TypeOK, RelationWellFormed, Agrees, Admits
<1>2. /\ record["source"] \in schema.profile["source"]
      /\ record["target"] \in schema.profile["target"]
  BY <1>1 DEF Sides
<1>3. origin \in Definitions /\ origin.profile \in RelationProfile
  BY ProfilesAssumption DEF RelationInv, TypeOK, Definitions
<1>4. /\ schema.profile["source"] = schema.profile.source
      /\ schema.profile["target"] = schema.profile.target
  OBVIOUS
<1> QED BY <1>2, <1>4 DEF Neighbors

\* What is written to a relation whose endpoint fields are constrained is found
\* by traversal, whatever profiles there are and however often the Schema
\* changes (validation.py 542-556, 710-727).
THEOREM TraversalFindsRecordsAlways == RelationSpec => []TraversalFindsRecords
BY RelationInvAlways, KeptIsFound, PTL
=============================================================================
