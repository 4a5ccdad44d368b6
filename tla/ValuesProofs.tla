----------------------------- MODULE ValuesProofs -----------------------------
(***************************************************************************)
(* What the library reads and then compares or resolves by rules of its    *)
(* own; the three parts share no more than an induction over naturals.     *)
(*                                                                         *)
(* SemanticVersions: the precedence is a total order and the published     *)
(* versions of a Schema ascend, for every set of identifiers and versions; *)
(* those of the list in MCSemanticVersions ascend as SemVer 2.0 has it.    *)
(*                                                                         *)
(* LocalizedMessages: a message is found at the nearest locale, # is the   *)
(* number of the innermost plural and plurals take their form, for any     *)
(* messages, however deep, and any locales.                                *)
(*                                                                         *)
(* FieldValues: what is declared of a field is what decides, and what is   *)
(* stored is accepted again, for every declaration and every value.        *)
(***************************************************************************)
EXTENDS MCSemanticVersions, LocalizedMessages, FieldValues, TLAPS, FiniteSetTheorems,
        WellFoundedInduction

-----------------------------------------------------------------------------
(* SemanticVersions: sequences *)

Before == {p \in Nat \X Nat : p[1] < p[2]}

\* A set of naturals has a least one.
LEMMA Least ==
  ASSUME NEW T \in SUBSET Nat, T # {}
  PROVE  \E x \in T : \A y \in T : x <= y
<1>1. IsWellFoundedOn(Before, Nat)
  BY NatLessThanWellFounded DEF OpToRel, Before
<1>2. PICK x \in T : \A y \in T : <<y, x>> \notin Before
  BY <1>1, WFMin
<1>3. \A y \in T : ~(y < x)
  BY <1>2 DEF Before
<1> QED BY <1>3

\* Two prereleases are equal, or one continues the other, or they differ first
\* somewhere.
LEMMA FirstDifference ==
  ASSUME NEW left \in Seq(Identifiers), NEW right \in Seq(Identifiers)
  PROVE  \/ left = right
         \/ Prefix(left, right) \/ Prefix(right, left)
         \/ \E i \in DOMAIN left : DifferAt(left, right, i)
<1> DEFINE Differ == {i \in DOMAIN left \cap DOMAIN right : left[i] # right[i]}
<1>1. CASE Differ = {}
  <2>1. \A j \in DOMAIN left \cap DOMAIN right : left[j] = right[j]
    BY <1>1
  <2>2. CASE Len(left) = Len(right)
    BY <2>1, <2>2
  <2>3. CASE Len(left) # Len(right)
    BY <2>1, <2>3 DEF Prefix
  <2> QED BY <2>2, <2>3
<1>2. CASE Differ # {}
  <2>1. Differ \in SUBSET Nat
    OBVIOUS
  <2>2. PICK i \in Differ : \A j \in Differ : i <= j
    BY <1>2, <2>1, Least
  <2>3. \A j \in 1..(i - 1) : left[j] = right[j]
    BY <2>2
  <2> QED BY <2>2, <2>3 DEF DifferAt
<1> QED BY <1>1, <1>2

-----------------------------------------------------------------------------
(* The order *)

LEMMA IdentifierTotal ==
  \A a, b \in Identifiers : a = b \/ IdentifierLess(a, b) \/ IdentifierLess(b, a)
BY IdentifiersAssumption DEF IdentifierLess

LEMMA IdentifierTransitive ==
  \A a, b, c \in Identifiers :
    IdentifierLess(a, b) /\ IdentifierLess(b, c) => IdentifierLess(a, c) /\ a # c
BY IdentifiersAssumption DEF IdentifierLess

LEMMA PrereleaseTotal ==
  ASSUME NEW left \in Seq(Identifiers), NEW right \in Seq(Identifiers)
  PROVE  left = right \/ PrereleaseLess(left, right) \/ PrereleaseLess(right, left)
<1>1. CASE left = <<>> \/ right = <<>>
  BY <1>1 DEF PrereleaseLess
<1>2. CASE left # <<>> /\ right # <<>>
  <2>1. CASE left = right \/ Prefix(left, right) \/ Prefix(right, left)
    BY <1>2, <2>1 DEF PrereleaseLess
  <2>2. CASE \E i \in DOMAIN left : DifferAt(left, right, i)
    <3>1. PICK i \in DOMAIN left : DifferAt(left, right, i)
      BY <2>2
    <3>2. left[i] \in Identifiers /\ right[i] \in Identifiers
      BY <3>1 DEF DifferAt
    <3>3. DifferAt(right, left, i)
      BY <3>1 DEF DifferAt
    <3>4. IdentifierLess(left[i], right[i]) \/ IdentifierLess(right[i], left[i])
      BY <3>1, <3>2, IdentifierTotal DEF DifferAt
    <3> QED BY <1>2, <3>1, <3>3, <3>4 DEF PrereleaseLess, DifferAt
  <2> QED BY <2>1, <2>2, FirstDifference
<1> QED BY <1>1, <1>2

\* The first difference of left and third lies where left first differs from
\* right, or right from third, whichever comes first.
LEMMA PrereleaseTransitive ==
  ASSUME NEW left \in Seq(Identifiers), NEW right \in Seq(Identifiers),
         NEW third \in Seq(Identifiers),
         PrereleaseLess(left, right), PrereleaseLess(right, third)
  PROVE  PrereleaseLess(left, third) /\ left # third
<1>0. left # <<>> /\ right # <<>>
  BY DEF PrereleaseLess
<1>1. CASE third = <<>>
  BY <1>0, <1>1 DEF PrereleaseLess
<1>2. CASE third # <<>>
  <2> DEFINE LessAt(u, v, i) == DifferAt(u, v, i) /\ IdentifierLess(u[i], v[i])
  <2>1. Prefix(left, right) \/ \E i \in DOMAIN left : LessAt(left, right, i)
    BY <1>0 DEF PrereleaseLess
  <2>2. Prefix(right, third) \/ \E i \in DOMAIN right : LessAt(right, third, i)
    BY <1>2 DEF PrereleaseLess
  <2>3. CASE Prefix(left, right) /\ Prefix(right, third)
    <3>1. Prefix(left, third)
      BY <2>3 DEF Prefix
    <3> QED BY <1>0, <3>1 DEF PrereleaseLess, Prefix
  <2>4. ASSUME Prefix(left, right), NEW j \in DOMAIN right, LessAt(right, third, j)
        PROVE  PrereleaseLess(left, third) /\ left # third
    <3>1. CASE j \in DOMAIN left
      <4>1. DifferAt(left, third, j) /\ left[j] = right[j]
        BY <2>4, <3>1 DEF DifferAt, Prefix
      <4> QED BY <1>0, <2>4, <3>1, <4>1 DEF PrereleaseLess, DifferAt
    <3>2. CASE j \notin DOMAIN left
      <4>1. Prefix(left, third)
        BY <2>4, <3>2 DEF DifferAt, Prefix
      <4> QED BY <1>0, <4>1 DEF PrereleaseLess, Prefix
    <3> QED BY <3>1, <3>2
  <2>5. ASSUME NEW i \in DOMAIN left, LessAt(left, right, i), Prefix(right, third)
        PROVE  PrereleaseLess(left, third) /\ left # third
    <3>1. DifferAt(left, third, i) /\ third[i] = right[i]
      BY <2>5 DEF DifferAt, Prefix
    <3> QED BY <1>0, <2>5, <3>1 DEF PrereleaseLess, DifferAt
  <2>6. ASSUME NEW i \in DOMAIN left, LessAt(left, right, i),
               NEW j \in DOMAIN right, LessAt(right, third, j)
        PROVE  PrereleaseLess(left, third) /\ left # third
    <3>0. /\ i \in Nat /\ j \in Nat
          /\ left[i] \in Identifiers /\ right[i] \in Identifiers
          /\ right[j] \in Identifiers /\ third[j] \in Identifiers
      BY <2>6 DEF DifferAt
    <3>1. CASE i < j
      <4>1. DifferAt(left, third, i) /\ third[i] = right[i]
        BY <2>6, <3>0, <3>1 DEF DifferAt
      <4> QED BY <1>0, <2>6, <4>1 DEF PrereleaseLess, DifferAt
    <3>2. CASE j < i
      <4>1. j \in DOMAIN left /\ DifferAt(left, third, j) /\ left[j] = right[j]
        BY <2>6, <3>0, <3>2 DEF DifferAt
      <4> QED BY <1>0, <2>6, <4>1 DEF PrereleaseLess, DifferAt
    <3>3. CASE i = j
      <4>1. IdentifierLess(left[i], third[i]) /\ left[i] # third[i]
        BY <2>6, <3>0, <3>3, IdentifierTransitive
      <4>2. DifferAt(left, third, i)
        BY <2>6, <3>0, <3>3, <4>1 DEF DifferAt
      <4> QED BY <1>0, <4>1, <4>2 DEF PrereleaseLess, DifferAt
    <3> QED BY <3>0, <3>1, <3>2, <3>3
  <2> QED BY <2>1, <2>2, <2>3, <2>4, <2>5, <2>6
<1> QED BY <1>1, <1>2

\* Any two versions compare (canonical.py 139: total_ordering derives the other
\* comparisons from __lt__ and __eq__, which is right for a total order only).
THEOREM PrecedenceIsTotal ==
  \A u, v \in Version : Less(u, v) \/ Same(u, v) \/ Less(v, u)
<1> SUFFICES ASSUME NEW u \in Version, NEW v \in Version
             PROVE  Less(u, v) \/ Same(u, v) \/ Less(v, u)
  OBVIOUS
<1>1. /\ u.major \in Nat /\ u.minor \in Nat /\ u.patch \in Nat
      /\ v.major \in Nat /\ v.minor \in Nat /\ v.patch \in Nat
      /\ u.prerelease \in Seq(Identifiers) /\ v.prerelease \in Seq(Identifiers)
  BY DEF Version
<1>2. ReleaseLess(u, v) \/ SameRelease(u, v) \/ ReleaseLess(v, u)
  BY <1>1 DEF ReleaseLess, SameRelease
<1>3. \/ u.prerelease = v.prerelease
      \/ PrereleaseLess(u.prerelease, v.prerelease)
      \/ PrereleaseLess(v.prerelease, u.prerelease)
  BY <1>1, PrereleaseTotal
<1>4. SameRelease(u, v) => SameRelease(v, u)
  BY DEF SameRelease
<1> QED BY <1>2, <1>3, <1>4 DEF Less, Same

\* The precedence is transitive (canonical.py 207-222: prereleases compare item
\* by item, numbers below texts, and the longer one is the later).
THEOREM PrecedenceIsTransitive ==
  \A u, v, w \in Version : Less(u, v) /\ Less(v, w) => Less(u, w)
<1> SUFFICES ASSUME NEW u \in Version, NEW v \in Version, NEW w \in Version,
                    Less(u, v), Less(v, w)
             PROVE  Less(u, w)
  OBVIOUS
<1>1. /\ u.major \in Nat /\ u.minor \in Nat /\ u.patch \in Nat
      /\ v.major \in Nat /\ v.minor \in Nat /\ v.patch \in Nat
      /\ w.major \in Nat /\ w.minor \in Nat /\ w.patch \in Nat
      /\ u.prerelease \in Seq(Identifiers) /\ v.prerelease \in Seq(Identifiers)
      /\ w.prerelease \in Seq(Identifiers)
  BY DEF Version
<1>2. CASE SameRelease(u, v) /\ SameRelease(v, w)
  <2>1. SameRelease(u, w)
    BY <1>2 DEF SameRelease
  <2>2. ~ReleaseLess(u, v) /\ ~ReleaseLess(v, w)
    BY <1>1, <1>2 DEF ReleaseLess, SameRelease
  <2>3. /\ PrereleaseLess(u.prerelease, v.prerelease)
        /\ PrereleaseLess(v.prerelease, w.prerelease)
    BY <2>2 DEF Less
  <2>4. PrereleaseLess(u.prerelease, w.prerelease)
    BY <1>1, <2>3, PrereleaseTransitive
  <2> QED BY <2>1, <2>4 DEF Less
<1>3. CASE ~(SameRelease(u, v) /\ SameRelease(v, w))
  <2>1. ReleaseLess(u, v) \/ SameRelease(u, v)
    BY DEF Less
  <2>2. ReleaseLess(v, w) \/ SameRelease(v, w)
    BY DEF Less
  <2>3. ReleaseLess(u, w)
    BY <1>1, <1>3, <2>1, <2>2 DEF ReleaseLess, SameRelease
  <2> QED BY <2>3 DEF Less
<1> QED BY <1>2, <1>3

\* Equal versions stand in the same place.
LEMMA SameIsACongruence ==
  \A u, v, w \in Version : Same(u, v) /\ Less(v, w) => Less(u, w)
BY DEF Same, SameRelease, Less, ReleaseLess

\* No version comes before itself.
LEMMA NeverBelowItself ==
  \A u \in Version : ~Less(u, u)
<1> SUFFICES ASSUME NEW u \in Version
             PROVE  ~Less(u, u)
  OBVIOUS
<1>1. u.major \in Nat /\ u.minor \in Nat /\ u.patch \in Nat /\ u.prerelease \in Seq(Identifiers)
  BY DEF Version
<1>2. ~ReleaseLess(u, u)
  BY <1>1 DEF ReleaseLess
<1>3. ~PrereleaseLess(u.prerelease, u.prerelease)
  BY <1>1 DEF PrereleaseLess, DifferAt, Prefix
<1> QED BY <1>2, <1>3 DEF Less

\* As many versions come before equal ones.
LEMMA SameComesAfterTheSame ==
  \A u, v, w \in Version : Same(u, v) /\ Less(w, u) => Less(w, v)
BY DEF Same, SameRelease, Less, ReleaseLess

\* The versions of any finite set have numbers that compare as __lt__ and
\* __eq__ have it (canonical.py 179-202): their precedence is a Rank, as
\* MetadataRepository takes it, and two strings share one only if they differ
\* in their build.
THEOREM VersionsHaveRanks ==
  ASSUME NEW S \in SUBSET Version, IsFiniteSet(S)
  PROVE  \E rank \in [S -> Nat] :
           \A u, v \in S : /\ rank[u] < rank[v] <=> Less(u, v)
                          /\ rank[u] = rank[v] <=> Same(u, v)
<1> DEFINE below(v) == {w \in S : Less(w, v)}
           rank == [v \in S |-> Cardinality(below(v))]
<1>1. ASSUME NEW v \in S
      PROVE  IsFiniteSet(below(v)) /\ Cardinality(below(v)) \in Nat
  <2>1. below(v) \in SUBSET S
    OBVIOUS
  <2>2. IsFiniteSet(below(v))
    BY <2>1, FS_Subset
  <2> QED BY <2>2, FS_CardinalityType
<1>2. ASSUME NEW u \in S, NEW v \in S, Less(u, v)
      PROVE  Cardinality(below(u)) < Cardinality(below(v))
  <2>1. below(u) \in SUBSET below(v)
    BY <1>2, PrecedenceIsTransitive
  <2>2. u \in below(v) /\ u \notin below(u)
    BY <1>2, NeverBelowItself
  <2>3. IsFiniteSet(below(v))
    BY <1>1
  <2>4. /\ Cardinality(below(u)) <= Cardinality(below(v))
        /\ Cardinality(below(v)) = Cardinality(below(u)) => below(v) = below(u)
    BY <2>1, <2>3, FS_Subset
  <2>5. Cardinality(below(u)) \in Nat /\ Cardinality(below(v)) \in Nat
    BY <1>1
  <2>6. Cardinality(below(v)) # Cardinality(below(u))
    BY <2>2, <2>4
  <2> HIDE DEF below
  <2> QED BY <2>4, <2>5, <2>6
<1>3. ASSUME NEW u \in S, NEW v \in S, Same(u, v)
      PROVE  Cardinality(below(u)) = Cardinality(below(v))
  <2>1. Same(v, u)
    BY <1>3 DEF Same, SameRelease
  <2>2. below(u) = below(v)
    BY <1>3, <2>1, SameComesAfterTheSame
  <2> QED BY <2>2
<1>4. rank \in [S -> Nat] /\ \A v \in S : rank[v] = Cardinality(below(v))
  BY <1>1
<1> HIDE DEF rank, below
<1>5. ASSUME NEW u \in S, NEW v \in S
      PROVE  /\ rank[u] < rank[v] <=> Less(u, v)
             /\ rank[u] = rank[v] <=> Same(u, v)
  <2>1. Less(u, v) \/ Same(u, v) \/ Less(v, u)
    BY PrecedenceIsTotal
  <2>2. /\ Less(u, v) => rank[u] < rank[v]
        /\ Less(v, u) => rank[v] < rank[u]
        /\ Same(u, v) => rank[u] = rank[v]
    BY <1>2, <1>3, <1>4
  <2>3. rank[u] \in Nat /\ rank[v] \in Nat
    BY <1>4
  <2> QED BY <2>1, <2>2, <2>3
<1> QED BY <1>4, <1>5

-----------------------------------------------------------------------------
(* The registry *)

Inv == TypeOK /\ PublishedAscend /\ LatestIsHighest

LEMMA PublishedTyped ==
  ASSUME TypeOK
  PROVE  /\ \A i \in DOMAIN published : published[i] \in Version
         /\ candidate # Absent => candidate \in Version
         /\ latest # Absent => latest \in Version
BY VersionsAssumption DEF TypeOK

LEMMA InitInv == Init => Inv
BY DEF Init, Inv, TypeOK, PublishedAscend, LatestIsHighest, Distinct

LEMMA PublishInv ==
  ASSUME Inv, NEW v \in Versions, Publish(v)
  PROVE  Inv'
<1>1. at = 0 /\ at' = 0 /\ latest' = latest /\ published' = published /\ candidate' = v
  BY DEF Inv, TypeOK, Publish
<1>2. TypeOK'
  BY <1>1, VersionsAssumption DEF Inv, TypeOK, Distinct
<1>3. PublishedAscend' /\ LatestIsHighest'
  BY <1>1 DEF Inv, PublishedAscend, LatestIsHighest
<1> QED BY <1>2, <1>3 DEF Inv

LEMMA ScanInv ==
  ASSUME Inv, Scan
  PROVE  Inv'
<1> DEFINE next == published[at + 1]
<1>1. /\ published' = published /\ candidate' = candidate /\ at' = at + 1
      /\ at \in Nat /\ at + 1 \in DOMAIN published /\ published \in Seq(Versions)
      /\ latest' = IF latest = Absent \/ Greater(next, latest) THEN next ELSE latest
  BY DEF Inv, TypeOK, Scan
<1>2. TypeOK'
  <2>1. latest' # Absent
    BY <1>1, VersionsAssumption
  <2>2. latest' \in {published'[i] : i \in 1..at'}
    BY <1>1 DEF Inv, TypeOK
  <2> QED BY <1>1, <2>1, <2>2 DEF Inv, TypeOK, Distinct, Scan
<1>3. PublishedAscend'
  BY <1>1 DEF Inv, PublishedAscend
<1>4. LatestIsHighest'
  <2>1. next \in Version
    BY <1>1, PublishedTyped DEF Inv
  <2>2. CASE latest = Absent
    BY <1>1, <2>2 DEF Inv, TypeOK, LatestIsHighest, LessOrSame, Same, SameRelease
  <2>3. CASE latest # Absent /\ ~Greater(next, latest)
    BY <1>1, <2>3 DEF Inv, LatestIsHighest, Greater, LessOrSame
  <2>4. CASE latest # Absent /\ Greater(next, latest)
    <3>1. latest \in Version
      BY <2>4, PublishedTyped DEF Inv
    <3>2. Less(latest, next)
      BY <2>1, <2>4, <3>1, PrecedenceIsTotal DEF Greater
    <3>3. ASSUME NEW i \in 1..at
          PROVE  Less(published[i], next)
      <4>1. published[i] \in Version /\ LessOrSame(published[i], latest)
        BY <1>1, PublishedTyped DEF Inv, LatestIsHighest
      <4> QED BY <2>1, <3>1, <3>2, <4>1, PrecedenceIsTransitive, SameIsACongruence
               DEF LessOrSame
    <3>4. LessOrSame(next, next)
      BY DEF LessOrSame, Same, SameRelease
    <3> QED BY <1>1, <2>4, <3>3, <3>4 DEF LatestIsHighest, LessOrSame
  <2> QED BY <2>2, <2>3, <2>4
<1> QED BY <1>2, <1>3, <1>4 DEF Inv

LEMMA DecideInv ==
  ASSUME Inv, Decide
  PROVE  Inv'
<1>1. /\ at' = 0 /\ latest' = Absent /\ candidate' = Absent
      /\ candidate \in Versions /\ candidate \in Version /\ candidate # Absent
      /\ published \in Seq(Versions) /\ at = Len(published)
  BY PublishedTyped DEF Inv, TypeOK, Decide
<1>2. LatestIsHighest'
  BY <1>1 DEF LatestIsHighest
<1>3. CASE Conflicts
  <2>1. published' = published
    BY <1>3 DEF Decide
  <2> QED BY <1>1, <1>2, <2>1 DEF Inv, TypeOK, Distinct, PublishedAscend
<1>4. CASE ~Conflicts
  <2>1. published' = Append(published, candidate)
    BY <1>4 DEF Decide
  <2>2. ASSUME NEW i \in DOMAIN published
        PROVE  Less(published[i], candidate) /\ published[i] # candidate
    <3>1. latest # Absent
      BY <1>1 DEF Inv, TypeOK
    <3>2. latest \in Version /\ published[i] \in Version
      BY <3>1, PublishedTyped DEF Inv
    <3>3. ~Less(candidate, latest) /\ ~Same(candidate, latest)
      BY <1>4, <3>1 DEF Conflicts, LessOrSame
    <3>4. Less(latest, candidate)
      BY <1>1, <3>2, <3>3, PrecedenceIsTotal
    <3>5. LessOrSame(published[i], latest)
      BY <1>1 DEF Inv, LatestIsHighest
    <3>6. Less(published[i], candidate)
      BY <1>1, <3>2, <3>4, <3>5, PrecedenceIsTransitive, SameIsACongruence DEF LessOrSame
    <3> QED BY <3>3, <3>5, <3>6 DEF LessOrSame
  <2>3. PublishedAscend'
    BY <1>1, <2>1, <2>2 DEF Inv, PublishedAscend
  <2>4. Distinct(published')
    BY <1>1, <2>1, <2>2 DEF Inv, TypeOK, Distinct
  <2>5. TypeOK'
    BY <1>1, <2>1, <2>4 DEF TypeOK
  <2> QED BY <1>2, <2>3, <2>5 DEF Inv
<1> QED BY <1>3, <1>4

LEMMA StutterInv ==
  ASSUME Inv, UNCHANGED vars
  PROVE  Inv'
BY DEF Inv, vars, TypeOK, Distinct, PublishedAscend, LatestIsHighest

\* What the scan keeps is the highest it has seen, and the published versions
\* ascend (publication.py 219-230, 739-749), for every set of versions.
THEOREM InvAlways == Spec => []Inv
<1>1. Inv /\ [Next]_vars => Inv'
  BY PublishInv, ScanInv, DecideInv, StutterInv DEF Next
<1> QED BY InitInv, <1>1, PTL DEF Spec

\* Every published version is above all that were published before it,
\* although it was compared with one of them.
THEOREM PublishedAscendAlways == Spec => []PublishedAscend
<1>1. Inv => PublishedAscend
  BY DEF Inv
<1> QED BY InvAlways, <1>1, PTL

\* max() returns a highest version, whatever the versions are.
THEOREM LatestIsHighestAlways == Spec => []LatestIsHighest
<1>1. Inv => LatestIsHighest
  BY DEF Inv
<1> QED BY InvAlways, <1>1, PTL

-----------------------------------------------------------------------------
(* The precedence of SemVer *)

\* How two identifiers of the list compare, by their place in it.
ListOf == <<One, Two, Elf, OneA, Alpha, Beta, Rc>>

LEMMA IdentifiersOfTheList ==
  \A i, j \in 1..7 : /\ ListOf[i] = ListOf[j] => i = j
                     /\ IdentifierLess(ListOf[i], ListOf[j]) => i < j
<1> USE DEF One, Two, Elf, OneA, Alpha, Beta, Rc,
            Word, Number
<1>1. ASSUME NEW i \in 1..7, NEW j \in 1..7, ListOf[i] = ListOf[j]
      PROVE  i = j
  BY <1>1 DEF ListOf
<1>2. ASSUME NEW i \in 1..7, NEW j \in 1..7, IdentifierLess(ListOf[i], ListOf[j])
      PROVE  i < j
  BY <1>2 DEF ListOf, IdentifierLess
<1> QED BY <1>1, <1>2

\* How prereleases of no more than two identifiers compare.
LEMMA ShortPrereleases ==
  ASSUME NEW a, NEW b, NEW c, NEW d
  PROVE  /\ PrereleaseLess(<<a>>, <<c>>) => IdentifierLess(a, c) /\ a # c
         /\ PrereleaseLess(<<a>>, <<c, d>>) => a = c \/ IdentifierLess(a, c)
         /\ PrereleaseLess(<<a, b>>, <<c>>) => IdentifierLess(a, c) /\ a # c
         /\ PrereleaseLess(<<a, b>>, <<c, d>>) =>
              \/ IdentifierLess(a, c) /\ a # c
              \/ a = c /\ b # d /\ IdentifierLess(b, d)
<1>1. PrereleaseLess(<<a>>, <<c>>) => IdentifierLess(a, c) /\ a # c
  BY DEF PrereleaseLess, DifferAt, Prefix
<1>2. PrereleaseLess(<<a>>, <<c, d>>) => a = c \/ IdentifierLess(a, c)
  BY DEF PrereleaseLess, DifferAt, Prefix
<1>3. PrereleaseLess(<<a, b>>, <<c>>) => IdentifierLess(a, c) /\ a # c
  BY DEF PrereleaseLess, DifferAt, Prefix
<1>4. PrereleaseLess(<<a, b>>, <<c, d>>) =>
        \/ IdentifierLess(a, c) /\ a # c
        \/ a = c /\ b # d /\ IdentifierLess(b, d)
  BY DEF PrereleaseLess, DifferAt, Prefix
<1> QED BY <1>1, <1>2, <1>3, <1>4

\* The prereleases of the list, and the minor versions they belong to.
PrereleaseAt == <<
  <<Alpha>>, <<Alpha, One>>, <<Alpha, Beta>>,
  <<Beta>>, <<Beta, Two>>, <<Beta, Elf>>,
  <<Beta, OneA>>, <<Rc, One>>, <<>>, <<Alpha>>, <<>>>>
MinorAt(k) == IF k <= 9 THEN 0 ELSE 1

LEMMA VersionsOfTheList ==
  ASSUME NEW k \in 1..11, NEW v \in Precedence[k]
  PROVE  /\ v.major = 1 /\ v.patch = 0
         /\ v.minor = MinorAt(k) /\ v.prerelease = PrereleaseAt[k]
<1>1. \E build :
        v = [major |-> 1, minor |-> MinorAt(k), patch |-> 0,
             prerelease |-> PrereleaseAt[k], build |-> build]
  <2>1. CASE k = 1
    BY <2>1 DEF Precedence, VersionOf, PrereleaseAt, MinorAt
  <2>2. CASE k = 2
    BY <2>2 DEF Precedence, VersionOf, PrereleaseAt, MinorAt
  <2>3. CASE k = 3
    BY <2>3 DEF Precedence, VersionOf, PrereleaseAt, MinorAt
  <2>4. CASE k = 4
    BY <2>4 DEF Precedence, VersionOf, PrereleaseAt, MinorAt
  <2>5. CASE k = 5
    BY <2>5 DEF Precedence, VersionOf, PrereleaseAt, MinorAt
  <2>6. CASE k = 6
    BY <2>6 DEF Precedence, VersionOf, PrereleaseAt, MinorAt
  <2>7. CASE k = 7
    BY <2>7 DEF Precedence, VersionOf, PrereleaseAt, MinorAt
  <2>8. CASE k = 8
    BY <2>8 DEF Precedence, VersionOf, PrereleaseAt, MinorAt
  <2>9. CASE k = 9
    BY <2>9 DEF Precedence, VersionOf, PrereleaseAt, MinorAt
  <2>10. CASE k = 10
    BY <2>10 DEF Precedence, VersionOf, PrereleaseAt, MinorAt
  <2>11. CASE k = 11
    BY <2>11 DEF Precedence, VersionOf, PrereleaseAt, MinorAt
  <2> QED BY <2>1, <2>2, <2>3, <2>4, <2>5, <2>6, <2>7, <2>8, <2>9, <2>10, <2>11
<1> QED BY <1>1

\* Of two prereleases of one minor version the later in the list is not less.
LEMMA LaterIsNotLess ==
  ASSUME NEW i \in 1..11, NEW j \in 1..i, MinorAt(i) = MinorAt(j)
  PROVE  ~PrereleaseLess(PrereleaseAt[i], PrereleaseAt[j])
<1>1. /\ ~IdentifierLess(Alpha, Alpha) /\ ~IdentifierLess(Beta, Beta)
      /\ ~IdentifierLess(Beta, Alpha) /\ Beta # Alpha
      /\ ~IdentifierLess(Rc, Alpha) /\ Rc # Alpha
      /\ ~IdentifierLess(Rc, Beta) /\ Rc # Beta
      /\ ~IdentifierLess(Beta, One) /\ ~IdentifierLess(Elf, Two)
      /\ ~IdentifierLess(OneA, Two) /\ ~IdentifierLess(OneA, Elf)
      /\ ~IdentifierLess(One, One)
  <2>1. \A p, q \in 1..7 : q <= p => ~IdentifierLess(ListOf[p], ListOf[q])
    BY IdentifiersOfTheList
  <2>2. \A p, q \in 1..7 : q < p => ListOf[p] # ListOf[q]
    BY IdentifiersOfTheList
  <2>3. /\ ListOf[1] = One /\ ListOf[2] = Two /\ ListOf[3] = Elf
        /\ ListOf[4] = OneA /\ ListOf[5] = Alpha /\ ListOf[6] = Beta
        /\ ListOf[7] = Rc
    BY DEF ListOf
  <2> QED BY <2>1, <2>2, <2>3
<1>2. \A right : ~PrereleaseLess(<<>>, right)
  BY DEF PrereleaseLess
<1>3. CASE i = 1
  BY <1>1, <1>3, ShortPrereleases DEF PrereleaseAt
<1>4. CASE i = 2
  BY <1>1, <1>4, ShortPrereleases DEF PrereleaseAt
<1>5. CASE i = 3
  BY <1>1, <1>5, ShortPrereleases DEF PrereleaseAt
<1>6. CASE i = 4
  BY <1>1, <1>6, ShortPrereleases DEF PrereleaseAt
<1>7. CASE i = 5
  BY <1>1, <1>7, ShortPrereleases DEF PrereleaseAt
<1>8. CASE i = 6
  BY <1>1, <1>8, ShortPrereleases DEF PrereleaseAt
<1>9. CASE i = 7
  BY <1>1, <1>9, ShortPrereleases DEF PrereleaseAt
<1>10. CASE i = 8
  <2> DEFINE rcOne == <<Rc, One>>
  <2>1. ~PrereleaseLess(rcOne, <<Alpha>>) /\ ~PrereleaseLess(rcOne, <<Beta>>)
    BY <1>1, ShortPrereleases
  <2>2. \A d : /\ ~PrereleaseLess(rcOne, <<Alpha, d>>)
               /\ ~PrereleaseLess(rcOne, <<Beta, d>>)
    BY <1>1, ShortPrereleases
  <2>3. ~PrereleaseLess(rcOne, rcOne)
    BY <1>1, ShortPrereleases
  <2>4. PrereleaseAt[8] = rcOne
    BY DEF PrereleaseAt
  <2> HIDE DEF rcOne
  <2>5. /\ PrereleaseAt[1] = <<Alpha>> /\ PrereleaseAt[2] = <<Alpha, One>>
        /\ PrereleaseAt[3] = <<Alpha, Beta>> /\ PrereleaseAt[4] = <<Beta>>
        /\ PrereleaseAt[5] = <<Beta, Two>>
        /\ PrereleaseAt[6] = <<Beta, Elf>>
        /\ PrereleaseAt[7] = <<Beta, OneA>>
    BY DEF PrereleaseAt
  <2>6. CASE j = 8
    BY <1>10, <2>3, <2>4, <2>6
  <2>7. CASE j \in {1, 4}
    BY <1>10, <2>1, <2>4, <2>5, <2>7
  <2>8. CASE j \in {2, 3, 5, 6, 7}
    BY <1>10, <2>2, <2>4, <2>5, <2>8
  <2> QED BY <1>10, <2>6, <2>7, <2>8
<1>11. CASE i = 10
  <2>1. j = 10
    BY <1>11 DEF MinorAt
  <2> QED BY <1>1, <1>11, <2>1, ShortPrereleases DEF PrereleaseAt
<1>12. CASE i \in {9, 11}
  BY <1>2, <1>12 DEF PrereleaseAt
<1> QED BY <1>3, <1>4, <1>5, <1>6, <1>7, <1>8, <1>9, <1>10, <1>11, <1>12

LEMMA LaterVersionIsNotLess ==
  ASSUME NEW i \in 1..11, NEW j \in 1..i,
         NEW u \in Precedence[i], NEW v \in Precedence[j]
  PROVE  ~Less(u, v)
<1>1. /\ u.major = 1 /\ u.patch = 0 /\ u.minor = MinorAt(i) /\ u.prerelease = PrereleaseAt[i]
      /\ v.major = 1 /\ v.patch = 0 /\ v.minor = MinorAt(j) /\ v.prerelease = PrereleaseAt[j]
  BY VersionsOfTheList
<1>2. MinorAt(i) \in Nat /\ MinorAt(j) \in Nat /\ MinorAt(j) <= MinorAt(i)
  BY DEF MinorAt
<1>3. ~ReleaseLess(u, v)
  BY <1>1, <1>2 DEF ReleaseLess
<1>4. SameRelease(u, v) => ~PrereleaseLess(u.prerelease, v.prerelease)
  BY <1>1, LaterIsNotLess DEF SameRelease
<1> QED BY <1>3, <1>4 DEF Less

\* The precedence computed from the parsed parts is the one of SemVer 2.0
\* section 11 (canonical.py 142, 181-222): whatever else is published, the
\* versions of its list are published in its order.
THEOREM PrecedenceIsSemVerAlways == Spec => []PrecedenceIsSemVer
<1>1. ASSUME PublishedAscend, TypeOK
      PROVE  PrecedenceIsSemVer
  <2> SUFFICES ASSUME NEW i \in DOMAIN published, NEW j \in DOMAIN published, i < j,
                      published[i] \in MCVersions, published[j] \in MCVersions
               PROVE  Place(published[i]) < Place(published[j])
    BY DEF PrecedenceIsSemVer
  <2> DEFINE u == published[i]
             v == published[j]
  <2>1. Less(u, v)
    <3>1. i \in 1..(j - 1)
      BY <1>1 DEF TypeOK
    <3> QED BY <1>1, <3>1 DEF PublishedAscend
  <2>2. DOMAIN Precedence = 1..11
    BY DEF Precedence
  <2>3. ASSUME NEW w \in MCVersions
        PROVE  Place(w) \in 1..11 /\ w \in Precedence[Place(w)]
    <3>1. \E k \in DOMAIN Precedence : w \in Precedence[k]
      BY DEF MCVersions
    <3>2. Place(w) \in DOMAIN Precedence /\ w \in Precedence[Place(w)]
      BY <3>1 DEF Place
    <3> QED BY <2>2, <3>2
  <2>4. Place(v) \in 1..Place(u) => ~Less(u, v)
    BY <2>3, LaterVersionIsNotLess
  <2> QED BY <2>1, <2>3, <2>4
<1>2. Spec => [](PublishedAscend /\ TypeOK)
  BY InvAlways, PTL DEF Inv
<1> QED BY <1>1, <1>2, PTL

-----------------------------------------------------------------------------
(* LocalizedMessages *)

(* The normal spelling of a locale has its subtags, one by one.              *)
Subtags == {First[s] : s \in DOMAIN First} \cup {Later[s] : s \in DOMAIN Later}
NormalLocales == {Normal(locale) : locale \in Locales}

LEMMA NormalIsALocale ==
  ASSUME NEW locale \in Locales
  PROVE  Normal(locale) \in Seq(Subtags) /\ Len(Normal(locale)) \in Nat \ {0}
<1>1. /\ locale \in Seq(DOMAIN First \cup DOMAIN Later) /\ locale # <<>>
      /\ locale[1] \in DOMAIN First
      /\ \A i \in 2..Len(locale) : locale[i] \in DOMAIN Later
  BY SpellingAssumption
<1>2. DOMAIN locale = 1..Len(locale) /\ Len(locale) \in Nat \ {0}
  BY <1>1
<1>3. Normal(locale) = [i \in 1..Len(locale) |-> IF i = 1 THEN First[locale[i]] ELSE Later[locale[i]]]
  BY <1>2 DEF Normal
<1>4. \A i \in 1..Len(locale) : Normal(locale)[i] \in Subtags
  BY <1>1, <1>3 DEF Subtags
<1>5. Normal(locale) \in [1..Len(locale) -> Subtags]
  BY <1>3, <1>4
<1> QED
  BY <1>2, <1>5

(* The candidates are the parents, the longest first, and the default.       *)
LEMMA CandidatesAre ==
  ASSUME NEW S, NEW locale \in Seq(S)
  PROVE  LET tried == Candidates(locale)
         IN  /\ tried \in Seq(Seq(S) \cup {default})
             /\ Len(tried) = Len(locale) + 1
             /\ \A j \in 1..Len(locale) : tried[j] = SubSeq(locale, 1, Len(locale) + 1 - j)
             /\ tried[Len(locale) + 1] = default
<1> DEFINE parents == [i \in 1..Len(locale) |-> SubSeq(locale, 1, Len(locale) + 1 - i)]
<1>1. parents \in [1..Len(locale) -> Seq(S)]
  OBVIOUS
<1>2. parents \in Seq(Seq(S) \cup {default}) /\ Len(parents) = Len(locale)
  BY <1>1
<1>3. Candidates(locale) = Append(parents, default)
  BY DEF Candidates
<1> HIDE DEF parents
<1>4. \A j \in 1..Len(locale) : Append(parents, default)[j] = parents[j]
  BY <1>2
<1>5. /\ Append(parents, default) \in Seq(Seq(S) \cup {default})
      /\ Len(Append(parents, default)) = Len(locale) + 1
      /\ Append(parents, default)[Len(locale) + 1] = default
  BY <1>2
<1> QED
  BY <1>3, <1>4, <1>5 DEF parents

(* Of the candidates for a locale the first k are tried and not there.       *)
TriedInVain(k) ==
  LET tried == Candidates(Normal(requested))
  IN  /\ candidates \in Seq(Seq(Subtags) \cup {default})
      /\ Len(candidates) = Len(tried) - k
      /\ \A i \in 1..Len(candidates) : candidates[i] = tried[k + i]
      /\ \A j \in 1..k : tried[j] \notin DOMAIN messages

(* What is chosen after k candidates is the nearest.                         *)
LEMMA FirstIsNearest ==
  ASSUME requested \in Locales, DOMAIN messages \subseteq NormalLocales,
         NEW k \in Nat, TriedInVain(k), candidates # <<>>,
         Head(candidates) \in DOMAIN messages
  PROVE  LET parents == {l \in DOMAIN messages : IsParent(l, Normal(requested))}
         IN  IF parents = {} THEN Head(candidates) = default
             ELSE Head(candidates) \in parents /\ \A l \in parents : Len(l) <= Len(Head(candidates))
<1> DEFINE locale  == Normal(requested)
           tried   == Candidates(locale)
           parents == {l \in DOMAIN messages : IsParent(l, locale)}
           found   == Head(candidates)
<1>1. locale \in Seq(Subtags) /\ Len(locale) \in Nat
  BY NormalIsALocale
<1> HIDE DEF locale
<1>2. /\ Len(tried) = Len(locale) + 1
      /\ \A j \in 1..Len(locale) : tried[j] = SubSeq(locale, 1, Len(locale) + 1 - j)
      /\ tried[Len(locale) + 1] = default
  BY <1>1, CandidatesAre
<1> HIDE DEF tried
<1>3. /\ k + 1 \in 1..(Len(locale) + 1) /\ found = tried[k + 1]
      /\ \A j \in 1..k : tried[j] \notin DOMAIN messages
  <2>1. /\ candidates \in Seq(Seq(Subtags) \cup {default}) /\ Len(candidates) = Len(locale) + 1 - k
        /\ \A i \in 1..Len(candidates) : candidates[i] = tried[k + i]
        /\ \A j \in 1..k : tried[j] \notin DOMAIN messages
    BY <1>2 DEF TriedInVain, tried, locale
  <2>2. Len(candidates) >= 1 /\ found = candidates[1]
    BY <2>1
  <2> QED
    BY <1>1, <2>1, <2>2
<1>4. ASSUME NEW l \in parents
      PROVE  Len(l) \in 1..(Len(locale) - k)
  <2>1. /\ Len(l) \in Nat \ {0} /\ Len(l) <= Len(locale) /\ SubSeq(locale, 1, Len(l)) = l
        /\ l \in DOMAIN messages
    BY <1>4, NormalIsALocale DEF IsParent, NormalLocales
  <2>2. Len(locale) + 1 - Len(l) \in 1..Len(locale)
    BY <1>1, <2>1
  <2>3. tried[Len(locale) + 1 - Len(l)] = SubSeq(locale, 1, Len(locale) + 1 - (Len(locale) + 1 - Len(l)))
    BY <1>2, <2>2
  <2>4. tried[Len(locale) + 1 - Len(l)] = l
    BY <1>1, <2>1, <2>3
  <2>5. ~(Len(locale) + 1 - Len(l) <= k)
    BY <1>3, <2>1, <2>2, <2>4
  <2> QED
    BY <1>1, <2>1, <2>5
<1>5. CASE k = Len(locale)
  <2>1. parents = {}
    BY <1>1, <1>4, <1>5
  <2> QED
    BY <1>2, <1>3, <1>5, <2>1 DEF locale
<1>6. CASE k # Len(locale)
  <2>1. k + 1 \in 1..Len(locale) /\ found = SubSeq(locale, 1, Len(locale) - k)
    <3>1. k + 1 \in 1..Len(locale) /\ Len(locale) + 1 - (k + 1) = Len(locale) - k
      BY <1>1, <1>3, <1>6
    <3>2. found = tried[k + 1]
      BY <1>3
    <3> HIDE DEF found
    <3>3. tried[k + 1] = SubSeq(locale, 1, Len(locale) + 1 - (k + 1))
      BY <1>2, <3>1
    <3> QED
      BY <3>1, <3>2, <3>3
  <2>2. Len(found) = Len(locale) - k
    BY <1>1, <2>1
  <2>3. found \in parents
    BY <1>1, <2>1, <2>2 DEF IsParent
  <2> QED
    BY <1>4, <2>2, <2>3 DEF locale
<1> QED
  BY <1>5, <1>6

(* An option is found for every number or value: the one that is spelled     *)
(* exactly, the category's, or "other".                                      *)
LEMMA SelectorIsAnOption ==
  ASSUME NEW choice \in Nodes, choice.kind # "text", NEW worth
  PROVE  Selector(choice, worth) \in DOMAIN choice.options
<1>1. "other" \in DOMAIN choice.options
  BY MessagesAssumption DEF Parsed
<1>2. \A wanted : Chosen(choice, wanted) \in DOMAIN choice.options
  BY <1>1 DEF Chosen
<1>3. ASSUME Exactly(worth.number) \cap DOMAIN choice.options # {}
      PROVE  (CHOOSE s \in Exactly(worth.number) : TRUE) \in DOMAIN choice.options
  <2>1. PICK s : s \in Exactly(worth.number) /\ s \in DOMAIN choice.options
    BY <1>3
  <2>2. \A t \in Exactly(worth.number) : t = s
    BY <2>1, PlainAssumption DEF Exactly
  <2> QED
    BY <2>1, <2>2
<1> QED
  BY <1>2, <1>3 DEF Selector

(* The forms of Russian and Ukrainian by the last digits.                    *)
LEMMA SlavicCategoryIsTheForm ==
  ASSUME NEW integer \in Nat
  PROVE  SlavicCategory(integer) = SlavicForm(integer)
<1> DEFINE tens == integer \div 10
           hundreds == integer \div 100
           last == integer % 10
           lastTwo == integer % 100
           c == tens - 10 * hundreds
<1>1. /\ tens \in Nat /\ hundreds \in Nat
      /\ integer = 10 * tens + last /\ last \in 0..9
      /\ integer = 100 * hundreds + lastTwo /\ lastTwo \in 0..99
  OBVIOUS
<1> HIDE DEF tens, hundreds, last, lastTwo
<1>2. c \in 0..9 /\ lastTwo = 10 * c + last
  BY <1>1
<1>3. /\ last = 1 /\ lastTwo # 11 => ~(lastTwo \in 5..20 \/ last \in {0} \cup 5..9)
      /\ last \in 2..4 /\ lastTwo \notin 12..14 => ~(lastTwo \in 5..20 \/ last \in {0} \cup 5..9) /\ last # 1
      /\ ~(last = 1 /\ lastTwo # 11) /\ ~(last \in 2..4 /\ lastTwo \notin 12..14)
           => lastTwo \in 5..20 \/ last \in {0} \cup 5..9
  BY <1>1, <1>2
<1>4. SlavicCategory(integer) =
        CASE last = 1 /\ lastTwo # 11            -> "one"
          [] last \in 2..4 /\ lastTwo \notin 12..14 -> "few"
          [] OTHER                               -> "many"
  BY DEF SlavicCategory, last, lastTwo
<1>5. SlavicForm(integer) =
        IF lastTwo \in 5..20 \/ last \in {0} \cup 5..9 THEN "many"
        ELSE IF last = 1 THEN "one" ELSE "few"
  BY DEF SlavicForm, last, lastTwo
<1>6. CASE last = 1 /\ lastTwo # 11
  BY <1>3, <1>4, <1>5, <1>6
<1>7. CASE last \in 2..4 /\ lastTwo \notin 12..14
  BY <1>3, <1>4, <1>5, <1>7
<1>8. CASE ~(last = 1 /\ lastTwo # 11) /\ ~(last \in 2..4 /\ lastTwo \notin 12..14)
  BY <1>3, <1>4, <1>5, <1>8
<1> QED
  BY <1>6, <1>7, <1>8

LEMMA SlavicSelector ==
  ASSUME NEW choice, NEW worth,
         choice.kind = "plural", selected[1] = "ru",
         worth.number \in Nat, Whole(worth.number),
         Selector(choice, worth) \in Words \ {"other"}
  PROVE  Selector(choice, worth) = SlavicForm(Integer(worth.number))
<1>1. Integer(worth.number) \in Nat
  BY DEF Integer
<1>2. Category(selected, worth.number, "plural") = SlavicCategory(Integer(worth.number))
  BY DEF Category
<1>3. Selector(choice, worth) = Chosen(choice, Category(selected, worth.number, "plural"))
  <2>1. CASE Exactly(worth.number) \cap DOMAIN choice.options # {}
    <3>1. Selector(choice, worth) \in DOMAIN Denotes
      BY <2>1, PlainAssumption DEF Selector, Exactly
    <3> QED
      BY <3>1, PlainAssumption
  <2>2. CASE Exactly(worth.number) \cap DOMAIN choice.options = {}
    BY <2>2 DEF Selector
  <2> QED
    BY <2>1, <2>2
<1> QED
  BY <1>1, <1>2, <1>3, SlavicCategoryIsTheForm DEF Chosen

ChoiceNodes == {choice \in Nodes : choice.kind # "text"}
ChosenSteps == [choice : ChoiceNodes, selector : UNION {DOMAIN choice.options : choice \in ChoiceNodes},
                value : Given]

MessagesSpelled ==
  DOMAIN messages \subseteq NormalLocales /\ \A l \in DOMAIN messages : messages[l] \in Messages

NothingCalled == phase \in {"building", "ready"} => NoCall

StillTrying ==
  phase = "resolving" =>
    /\ requested \in Locales /\ values \in Calls
    /\ selected = Null /\ path = <<>> /\ pound = Null
    /\ \E k \in Nat : TriedInVain(k)

AtANode == phase = "rendering" => node \in Nodes /\ values \in Calls

ChoicesFollow ==
  /\ path \in Seq(ChosenSteps)
  /\ \A i \in DOMAIN path : path[i].selector = Selector(path[i].choice, path[i].value)

(* # stands for the number of the innermost plural at any place.             *)
InnermostShows ==
  LET plurals == {i \in DOMAIN path : path[i].choice.kind # "select"}
  IN  IF plurals = {} THEN pound = Null
      ELSE \E i \in plurals : /\ \A j \in plurals : j <= i
                              /\ pound = path[i].value.number - path[i].choice.offset

TextInv ==
  /\ MessagesSpelled /\ NothingCalled /\ StillTrying /\ AtANode
  /\ ChoicesFollow /\ InnermostShows /\ ResolvesToNearest

LEMMA EmptyPath ==
  ASSUME path = <<>>, pound = Null
  PROVE  ChoicesFollow /\ InnermostShows
BY DEF ChoicesFollow, InnermostShows

LEMMA TextInitInv == TextInit => TextInv
<1> SUFFICES ASSUME TextInit PROVE TextInv
  OBVIOUS
<1>1. ChoicesFollow /\ InnermostShows
  BY EmptyPath DEF TextInit, NoCall
<1> QED
  BY <1>1 DEF TextInit, NoCall, TextInv, MessagesSpelled, NothingCalled, StillTrying, AtANode,
              ResolvesToNearest

(* A text that is being built has not been formatted.                        *)
LEMMA BuildingInv ==
  ASSUME TextInv, phase = "building", UNCHANGED call,
         phase' \in {"building", "ready", "ValueError"}, MessagesSpelled'
  PROVE  TextInv'
<1>1. NoCall /\ path' = path /\ pound' = pound /\ selected' = selected /\ NoCall'
  BY DEF TextInv, NothingCalled, NoCall, call
<1>2. ChoicesFollow' /\ InnermostShows'
  BY <1>1 DEF NoCall, ChoicesFollow, InnermostShows
<1>3. ResolvesToNearest'
  BY <1>1 DEF NoCall, ResolvesToNearest
<1> QED
  BY <1>1, <1>2, <1>3 DEF TextInv, NothingCalled, StillTrying, AtANode

LEMMA AddMessageInv ==
  ASSUME TextInv, NEW locale \in Locales, NEW message \in Messages, AddMessage(locale, message)
  PROVE  TextInv'
<1>1. /\ phase = "building" /\ UNCHANGED call /\ phase' \in {"building", "ValueError"}
      /\ \/ UNCHANGED messages
         \/ messages' = [l \in DOMAIN messages \cup {Normal(locale)} |->
                           IF l = Normal(locale) THEN message ELSE messages[l]]
  BY DEF AddMessage
<1>2. MessagesSpelled'
  BY <1>1 DEF TextInv, MessagesSpelled, NormalLocales
<1> QED
  BY <1>1, <1>2, BuildingInv

LEMMA BuiltInv ==
  ASSUME TextInv, Built
  PROVE  TextInv'
<1>1. /\ phase = "building" /\ UNCHANGED <<messages, call>> /\ phase' \in {"ready", "ValueError"}
  BY DEF Built
<1>2. MessagesSpelled'
  BY <1>1 DEF TextInv, MessagesSpelled
<1> QED
  BY <1>1, <1>2, BuildingInv

LEMMA FormatInv ==
  ASSUME TextInv, NEW locale \in Locales, NEW arguments \in Calls, Format(locale, arguments)
  PROVE  TextInv'
<1>1. /\ phase = "ready" /\ requested' = locale /\ values' = arguments
      /\ candidates' = Candidates(Normal(locale)) /\ phase' = "resolving"
      /\ UNCHANGED <<default, given, messages, selected, node, path, pound>>
      /\ NoCall
  BY DEF Format, TextInv, NothingCalled
<1>2. TriedInVain(0)'
  <2> DEFINE tried == Candidates(Normal(locale))
  <2>1. tried \in Seq(Seq(Subtags) \cup {default}) /\ Len(tried) \in Nat
    BY NormalIsALocale, CandidatesAre
  <2>2. Candidates(Normal(requested))' = tried
    BY <1>1 DEF Candidates, Normal
  <2> HIDE DEF tried
  <2>3. candidates' = tried
    BY <1>1 DEF tried
  <2> QED
    BY <1>1, <2>1, <2>2, <2>3 DEF TriedInVain
<1>3. StillTrying'
  BY <1>1, <1>2 DEF StillTrying, NoCall
<1>4. ChoicesFollow' /\ InnermostShows' /\ ResolvesToNearest'
  BY <1>1 DEF NoCall, ChoicesFollow, InnermostShows, ResolvesToNearest
<1> QED
  BY <1>1, <1>3, <1>4 DEF TextInv, MessagesSpelled, NothingCalled, AtANode

LEMMA TryInv ==
  ASSUME TextInv, Try
  PROVE  TextInv'
<1>1. /\ phase = "resolving" /\ requested \in Locales /\ values \in Calls
      /\ selected = Null /\ path = <<>> /\ pound = Null
      /\ DOMAIN messages \subseteq NormalLocales
      /\ UNCHANGED <<default, given, messages, requested, values, path, pound>>
  BY DEF Try, TextInv, StillTrying, MessagesSpelled
<1>2. PICK k \in Nat : TriedInVain(k)
  BY <1>1 DEF TextInv, StillTrying
<1>3. MessagesSpelled' /\ ChoicesFollow' /\ InnermostShows'
  BY <1>1 DEF TextInv, MessagesSpelled, ChoicesFollow, InnermostShows
<1>4. CASE candidates = <<>>
  BY <1>1, <1>3, <1>4 DEF Try, TextInv, NothingCalled, StillTrying, AtANode, ResolvesToNearest
<1>5. CASE candidates # <<>> /\ Head(candidates) \in DOMAIN messages
  <2>1. /\ selected' = Head(candidates) /\ node' = messages[Head(candidates)]
        /\ phase' = "rendering"
    BY <1>5 DEF Try
  <2>2. ResolvesToNearest'
    <3>1. \A l : IsParent(l, Normal(requested))' = IsParent(l, Normal(requested))
      BY <1>1 DEF Normal
    <3> QED
      BY <1>1, <1>2, <1>5, <2>1, <3>1, FirstIsNearest DEF ResolvesToNearest
  <2>3. node' \in Nodes
    BY <1>5, <2>1, MessagesAssumption DEF TextInv, MessagesSpelled
  <2> QED
    BY <1>1, <1>3, <2>1, <2>2, <2>3 DEF TextInv, NothingCalled, StillTrying, AtANode
<1>6. CASE candidates # <<>> /\ Head(candidates) \notin DOMAIN messages
  <2>1. candidates' = Tail(candidates) /\ UNCHANGED <<phase, selected, node>>
    BY <1>6 DEF Try
  <2>2. TriedInVain(k + 1)'
    <3> DEFINE tried == Candidates(Normal(requested))
    <3>1. /\ candidates \in Seq(Seq(Subtags) \cup {default})
          /\ Len(candidates) = Len(tried) - k
          /\ \A i \in 1..Len(candidates) : candidates[i] = tried[k + i]
          /\ \A j \in 1..k : tried[j] \notin DOMAIN messages
      BY <1>2 DEF TriedInVain
    <3>2. Len(tried) \in Nat
      BY <1>1, NormalIsALocale, CandidatesAre
    <3>3. Candidates(Normal(requested))' = tried
      BY <1>1 DEF Candidates, Normal
    <3> HIDE DEF tried
    <3>4. /\ Len(candidates) >= 1 /\ Head(candidates) = tried[k + 1]
          /\ candidates' \in Seq(Seq(Subtags) \cup {default})
          /\ Len(candidates') = Len(candidates) - 1
          /\ \A i \in 1..Len(candidates') : candidates'[i] = candidates[i + 1]
      <4> DEFINE S == Seq(Subtags) \cup {default}
      <4>1. candidates \in Seq(S) /\ candidates # <<>>
        BY <1>6, <3>1
      <4> HIDE DEF S
      <4>2. Len(candidates) \in Nat /\ Len(candidates) >= 1
        BY <4>1
      <4>3. Tail(candidates) \in Seq(S) /\ Len(Tail(candidates)) = Len(candidates) - 1
        BY <4>1
      <4>4. \A i \in 1..(Len(candidates) - 1) : Tail(candidates)[i] = candidates[i + 1]
        BY <4>1
      <4>5. Head(candidates) = candidates[1] /\ candidates[1] = tried[k + 1]
        BY <3>1, <4>1, <4>2
      <4> QED
        BY <2>1, <4>2, <4>3, <4>4, <4>5 DEF S
    <3>5. \A i \in 1..Len(candidates') : candidates'[i] = tried[(k + 1) + i]
      BY <3>1, <3>2, <3>4
    <3>6. \A j \in 1..(k + 1) : tried[j] \notin DOMAIN messages
      BY <1>6, <3>1, <3>4
    <3>7. Len(candidates') = Len(tried) - (k + 1)
      BY <3>1, <3>2, <3>4
    <3> QED
      BY <1>1, <3>3, <3>4, <3>5, <3>6, <3>7 DEF TriedInVain
  <2>3. StillTrying'
    <3>1. k + 1 \in Nat
      OBVIOUS
    <3> QED
      BY <1>1, <2>1, <2>2, <3>1 DEF StillTrying, Calls
  <2> QED
    BY <1>1, <1>3, <2>1, <2>3 DEF TextInv, NothingCalled, AtANode, ResolvesToNearest
<1> QED
  BY <1>4, <1>5, <1>6

LEMMA RenderInv ==
  ASSUME TextInv, Render
  PROVE  TextInv'
<1>1. /\ phase = "rendering" /\ node \in Nodes /\ values \in Calls
      /\ UNCHANGED <<default, given, messages, requested, candidates, selected, values>>
  BY DEF Render, TextInv, AtANode
<1>2. MessagesSpelled' /\ ResolvesToNearest'
  <2>1. \A l : IsParent(l, Normal(requested))' = IsParent(l, Normal(requested))
    BY <1>1 DEF Normal
  <2> QED
    BY <1>1, <2>1 DEF TextInv, MessagesSpelled, ResolvesToNearest
<1>3. CASE UNCHANGED <<node, path, pound>> /\ phase' \in {"rendered", "KeyError"} \cup PluralErrors
  <2>1. ChoicesFollow' /\ InnermostShows'
    <3>1. InnermostShows'
      BY <1>3 DEF TextInv, InnermostShows
    <3>2. \A choice, v : Selector(choice, v)' = Selector(choice, v)
      BY <1>1 DEF Selector, Category, Exactly
    <3> QED
      BY <1>3, <3>1, <3>2 DEF TextInv, ChoicesFollow
  <2> QED
    BY <1>2, <1>3, <2>1 DEF TextInv, NothingCalled, StillTrying, AtANode, PluralErrors
<1>4. CASE node.kind # "text" /\ node.argument \in DOMAIN values
           /\ (node.kind = "select" \/ values[node.argument].reads = "number")
  <2> DEFINE worth    == values[node.argument]
             selector == Selector(node, worth)
             step     == [choice |-> node, selector |-> selector, value |-> worth]
  <2>1. /\ node' = node.options[selector] /\ pound' = Pound(node, worth)
        /\ path' = Append(path, step) /\ UNCHANGED phase
    BY <1>1, <1>4 DEF Render
  <2>2. node \in ChoiceNodes /\ worth \in Given /\ selector \in DOMAIN node.options
    BY <1>1, <1>4, SelectorIsAnOption DEF ChoiceNodes, Calls
  <2>3. node' \in Nodes
    BY <1>1, <1>4, <2>1, <2>2, MessagesAssumption DEF Parsed
  <2>4. step \in ChosenSteps
    BY <2>2 DEF ChosenSteps
  <2>5. path \in Seq(ChosenSteps)
    BY DEF TextInv, ChoicesFollow
  <2>6. step.choice = node /\ step.selector = Selector(node, worth) /\ step.value = worth
    OBVIOUS
  <2> HIDE DEF step, worth, selector
  <2>7. /\ path' \in Seq(ChosenSteps) /\ DOMAIN path' = 1..(Len(path) + 1)
        /\ DOMAIN path = 1..Len(path) /\ Len(path) \in Nat
        /\ \A i \in 1..Len(path) : path'[i] = path[i]
        /\ path'[Len(path) + 1] = step
    BY <2>1, <2>4, <2>5
  <2>8. ChoicesFollow'
    <3>1. \A choice, v : Selector(choice, v)' = Selector(choice, v)
      BY <1>1 DEF Selector, Category, Exactly
    <3>2. \A i \in DOMAIN path' : path'[i].selector = Selector(path'[i].choice, path'[i].value)
      BY <2>6, <2>7 DEF TextInv, ChoicesFollow
    <3> QED
      BY <2>7, <3>1, <3>2 DEF ChoicesFollow
  <2>9. InnermostShows'
    <3> DEFINE plurals == {i \in DOMAIN path : path[i].choice.kind # "select"}
               more    == {i \in DOMAIN path' : path'[i].choice.kind # "select"}
    <3>1. CASE node.kind = "select"
      <4>1. more = plurals /\ pound' = pound
        BY <2>1, <2>6, <2>7, <3>1 DEF Pound
      <4>2. IF plurals = {} THEN pound = Null
            ELSE \E i \in plurals : /\ \A j \in plurals : j <= i
                                    /\ pound = path[i].value.number - path[i].choice.offset
        BY DEF TextInv, InnermostShows
      <4>3. IF more = {} THEN pound' = Null
            ELSE \E i \in more : /\ \A j \in more : j <= i
                                 /\ pound' = path'[i].value.number - path'[i].choice.offset
        BY <2>7, <4>1, <4>2
      <4> QED
        BY <4>3 DEF InnermostShows
    <3>2. CASE node.kind # "select"
      <4>1. /\ Len(path) + 1 \in more /\ \A j \in more : j <= Len(path) + 1
            /\ pound' = path'[Len(path) + 1].value.number - path'[Len(path) + 1].choice.offset
        BY <2>1, <2>6, <2>7, <3>2 DEF Pound
      <4> QED
        BY <4>1 DEF InnermostShows
    <3> QED
      BY <3>1, <3>2
  <2> QED
    BY <1>1, <1>2, <2>1, <2>3, <2>8, <2>9 DEF TextInv, NothingCalled, StillTrying, AtANode, Calls
<1> QED
  BY <1>1, <1>3, <1>4 DEF Render, Raises, PluralErrors

LEMMA TextInvAlways == TextSpec => []TextInv
<1>1. TextInv /\ [TextNext]_textVars => TextInv'
  <2> SUFFICES ASSUME TextInv, [TextNext]_textVars PROVE TextInv'
    OBVIOUS
  <2>1. ASSUME NEW locale \in Locales, NEW message \in Messages, AddMessage(locale, message)
        PROVE  TextInv'
    BY <2>1, AddMessageInv
  <2>2. CASE Built
    BY <2>2, BuiltInv
  <2>3. ASSUME NEW locale \in Locales, NEW arguments \in Calls, Format(locale, arguments)
        PROVE  TextInv'
    BY <2>3, FormatInv
  <2>4. CASE Try
    BY <2>4, TryInv
  <2>5. CASE Render
    BY <2>5, RenderInv
  <2>6. CASE UNCHANGED textVars
    <3>1. UNCHANGED <<default, messages, phase, requested, candidates, selected, values, node, path, pound>>
      BY <2>6 DEF textVars, call
    <3>2. MessagesSpelled' /\ NothingCalled' /\ AtANode' /\ InnermostShows'
      BY <3>1 DEF TextInv, MessagesSpelled, NothingCalled, NoCall, AtANode, InnermostShows, Calls
    <3>3. StillTrying'
      BY <3>1 DEF TextInv, StillTrying, TriedInVain, Candidates, Normal, Calls
    <3>4. ChoicesFollow'
      BY <3>1 DEF TextInv, ChoicesFollow, Selector, Category, Exactly
    <3>5. ResolvesToNearest'
      BY <3>1 DEF TextInv, ResolvesToNearest, Normal
    <3> QED
      BY <3>2, <3>3, <3>4, <3>5 DEF TextInv
  <2> QED
    BY <2>1, <2>2, <2>3, <2>4, <2>5, <2>6 DEF TextNext
<1> QED
  BY TextInitInv, <1>1, PTL DEF TextSpec

(* What is rendered is the message of the most specific parent there is      *)
(* (i18n.py 206-237).                                                        *)
THEOREM ResolvesToNearestAlways == TextSpec => []ResolvesToNearest
<1>1. TextInv => ResolvesToNearest
  BY DEF TextInv
<1> QED
  BY <1>1, TextInvAlways, PTL

(* # is the number of the innermost plural, however deep choices are nested  *)
(* (i18n.py 253-291).                                                        *)
THEOREM PoundIsInnermostAlways == TextSpec => []PoundIsInnermost
<1>1. TextInv => PoundIsInnermost
  BY DEF TextInv, InnermostShows, PoundIsInnermost
<1> QED
  BY <1>1, TextInvAlways, PTL

(* Every number that is rendered in Russian has its form (i18n.py 317-323).  *)
THEOREM SlavicFormsApplyAlways == TextSpec => []SlavicFormsApply
<1>1. TextInv => SlavicFormsApply
  <2> SUFFICES ASSUME TextInv, NEW i \in DOMAIN path,
                      path[i].choice.kind = "plural", selected[1] = "ru",
                      Whole(path[i].value.number), path[i].value.number >= 0,
                      path[i].selector \in Words \ {"other"}
               PROVE  path[i].selector = SlavicForm(Integer(path[i].value.number))
    BY DEF SlavicFormsApply
  <2>1. path[i] \in ChosenSteps /\ path[i].selector = Selector(path[i].choice, path[i].value)
    BY DEF TextInv, ChoicesFollow
  <2>2. path[i].value.number \in Nat
    <3>1. path[i].value \in Value
      BY <2>1, GivenAssumption DEF ChosenSteps
    <3> QED
      BY <3>1 DEF Value
  <2> QED
    BY <2>1, <2>2, SlavicSelector
<1> QED
  BY <1>1, TextInvAlways, PTL

-----------------------------------------------------------------------------
(* What FormatAnswers rests on, apart from fairness: the ways in which a     *)
(* call of format may end.                                                   *)

\* A text that is built has a message of its default locale, the last candidate.
DefaultIsThere == phase \in {"ready", "resolving"} => default \in DOMAIN messages

\* The AssertionError after the candidates cannot be reached; an argument that is
\* not given, or a plural whose own argument is no finite number, is all that may
\* fail, and the latter fails as its argument reads.
FailsOnItsInput ==
  /\ phase # "AssertionError"
  /\ phase = "KeyError" => DOMAIN values # Arguments
  /\ phase \in PluralErrors /\ requested # Null => PluralRaises

AnswerInv == DefaultIsThere /\ FailsOnItsInput

LEMMA TryAnswers ==
  ASSUME TextInv, AnswerInv, Try
  PROVE  AnswerInv'
<1>1. /\ phase = "resolving" /\ default \in DOMAIN messages
      /\ UNCHANGED <<default, messages>>
  BY DEF Try, AnswerInv, DefaultIsThere
<1>2. candidates # <<>>
  <2> SUFFICES ASSUME candidates = <<>>  PROVE FALSE
    OBVIOUS
  <2> DEFINE tried == Candidates(Normal(requested))
             length == Len(Normal(requested))
  <2>1. requested \in Locales
    BY <1>1 DEF TextInv, StillTrying
  <2>2. Normal(requested) \in Seq(Subtags) /\ length \in Nat
    BY <2>1, NormalIsALocale
  <2>3. Len(tried) = length + 1 /\ tried[length + 1] = default
    BY <2>2, CandidatesAre
  <2>4. PICK k \in Nat : TriedInVain(k)
    BY <1>1 DEF TextInv, StillTrying
  <2>5. Len(candidates) = Len(tried) - k /\ \A j \in 1..k : tried[j] \notin DOMAIN messages
    BY <2>4 DEF TriedInVain
  <2> HIDE DEF tried, length
  <2>6. k = length + 1
    BY <2>2, <2>3, <2>5
  <2>7. tried[length + 1] \notin DOMAIN messages
    BY <2>2, <2>5, <2>6
  <2> QED
    BY <1>1, <2>3, <2>7
<1>3. phase' \in {"resolving", "rendering"}
  BY <1>1, <1>2 DEF Try
<1> QED
  BY <1>1, <1>3 DEF AnswerInv, DefaultIsThere, FailsOnItsInput, PluralErrors

LEMMA RenderAnswers ==
  ASSUME TextInv, AnswerInv, Render
  PROVE  AnswerInv'
<1>1. phase = "rendering" /\ node \in Nodes /\ UNCHANGED <<values, requested>>
  BY DEF Render, TextInv, AtANode
<1>2. DefaultIsThere'
  BY <1>1 DEF Render, Raises, DefaultIsThere
<1>3. ASSUME phase' \in {"rendering", "rendered"}
      PROVE  FailsOnItsInput'
  BY <1>3 DEF FailsOnItsInput, PluralErrors
<1>4. ASSUME phase' = "KeyError", node.kind # "text", node.argument \notin DOMAIN values
      PROVE  FailsOnItsInput'
  <2>1. node.argument \in Arguments
    BY <1>1, <1>4, MessagesAssumption DEF Parsed
  <2> QED
    BY <1>1, <1>4, <2>1 DEF FailsOnItsInput, PluralErrors
<1>5. ASSUME phase' = Raises(values[node.argument]), node.kind \notin {"text", "select"},
             node.argument \in DOMAIN values, values[node.argument].reads # "number",
             node' = node
      PROVE  FailsOnItsInput'
  <2>1. node.kind \in {"plural", "selectordinal"}
    BY <1>1, <1>5, MessagesAssumption DEF Parsed, Choices
  <2>2. PluralRaises'
    BY <1>1, <1>5, <2>1 DEF PluralRaises, Raises
  <2>3. phase' \in PluralErrors
    BY <1>5 DEF Raises, PluralErrors
  <2> QED
    BY <2>2, <2>3 DEF FailsOnItsInput, PluralErrors
<1>6. FailsOnItsInput'
  BY <1>1, <1>3, <1>4, <1>5 DEF Render
<1> QED
  BY <1>2, <1>6 DEF AnswerInv

(* A call of format fails on its arguments only, never because the text has  *)
(* no message for it: the default locale is declared and tried last          *)
(* (i18n.py 206-207, 227-237).  Other than for a missing argument it ends at *)
(* a plural of what is no finite number, with the exception such an argument *)
(* causes (i18n.py 291-303).                                                 *)
THEOREM FormatFailsOnItsInputOnly == TextSpec => []FailsOnItsInput
<1>1. TextInit => AnswerInv
  BY DEF TextInit, AnswerInv, DefaultIsThere, FailsOnItsInput, PluralErrors
<1>2. TextInv /\ AnswerInv /\ [TextNext]_textVars => AnswerInv'
  <2> SUFFICES ASSUME TextInv, AnswerInv, [TextNext]_textVars PROVE AnswerInv'
    OBVIOUS
  <2>1. phase = "building" => requested = Null
    BY DEF TextInv, NothingCalled, NoCall
  <2>2. ASSUME NEW locale \in Locales, NEW message \in Messages, AddMessage(locale, message)
        PROVE  AnswerInv'
    <3>1. requested' = requested /\ phase = "building" /\ phase' \in {"building", "ValueError"}
      BY <2>2 DEF AddMessage, call
    <3> QED
      BY <2>1, <3>1 DEF AnswerInv, DefaultIsThere, FailsOnItsInput, PluralErrors
  <2>3. CASE Built
    <3>1. /\ requested' = requested /\ phase = "building" /\ phase' \in {"ready", "ValueError"}
          /\ phase' = "ready" => default' \in DOMAIN messages'
      BY <2>3 DEF Built, call
    <3> QED
      BY <2>1, <3>1 DEF AnswerInv, DefaultIsThere, FailsOnItsInput, PluralErrors
  <2>4. ASSUME NEW locale \in Locales, NEW arguments \in Calls, Format(locale, arguments)
        PROVE  AnswerInv'
    BY <2>4 DEF Format, AnswerInv, DefaultIsThere, FailsOnItsInput, PluralErrors
  <2>5. CASE UNCHANGED textVars
    <3>1. UNCHANGED <<default, messages, phase, requested, values, node>>
      BY <2>5 DEF textVars, call
    <3>2. PluralRaises' = PluralRaises
      BY <3>1 DEF PluralRaises, Raises
    <3> QED
      BY <3>1, <3>2 DEF AnswerInv, DefaultIsThere, FailsOnItsInput, PluralErrors
  <2> QED
    BY <2>2, <2>3, <2>4, <2>5, TryAnswers, RenderAnswers DEF TextNext
<1>3. AnswerInv => FailsOnItsInput
  BY DEF AnswerInv
<1> QED
  BY <1>1, <1>2, <1>3, TextInvAlways, PTL DEF TextSpec

-----------------------------------------------------------------------------
(* FieldValues: powers *)

\* The first n powers of base.
Powers(base, n) ==
  {f \in [0..n -> Nat] : f[0] = 1 /\ \A i \in 0..n : i > 0 => f[i] = base * f[i - 1]}

(* Induction over a set of naturals.                                         *)
LEMMA SetInduction ==
  ASSUME NEW S \in SUBSET Nat, 0 \in S, \A n \in S : n + 1 \in S
  PROVE  S = Nat
<1> SUFFICES ASSUME Nat \ S # {} PROVE FALSE
  OBVIOUS
<1>1. PICK n \in Nat \ S : \A m \in Nat \ S : n <= m
  BY Least
<1>2. n # 0 /\ n - 1 \in S
  BY <1>1
<1> QED
  BY <1>1, <1>2

LEMMA PowersExist ==
  ASSUME NEW base \in Nat
  PROVE  \A n \in Nat : Powers(base, n) # {}
<1> DEFINE S == {n \in Nat : Powers(base, n) # {}}
<1>1. 0 \in S
  <2>1. [i \in 0..0 |-> 1] \in Powers(base, 0)
    BY DEF Powers
  <2> QED
    BY <2>1
<1>2. ASSUME NEW n \in S PROVE n + 1 \in S
  <2>1. PICK f : f \in Powers(base, n)
    OBVIOUS
  <2> DEFINE g == [i \in 0..(n + 1) |-> IF i <= n THEN f[i] ELSE base * f[n]]
  <2>2. f \in [0..n -> Nat] /\ f[0] = 1 /\ \A i \in 0..n : i > 0 => f[i] = base * f[i - 1]
    BY <2>1 DEF Powers
  <2>3. base * f[n] \in Nat
    BY <2>2
  <2>4. g \in [0..(n + 1) -> Nat] /\ g[0] = 1
    BY <2>2, <2>3
  <2>5. ASSUME NEW i \in 0..(n + 1), i > 0
        PROVE  g[i] = base * g[i - 1]
    <3>1. i - 1 \in 0..(n + 1) /\ g[i - 1] = f[i - 1]
      BY <2>5
    <3>2. CASE i <= n
      <4>1. g[i] = f[i] /\ f[i] = base * f[i - 1]
        BY <2>2, <2>5, <3>2
      <4> QED
        BY <3>1, <4>1
    <3>3. CASE i = n + 1
      <4>1. g[i] = base * f[n]
        BY <3>3
      <4> QED
        BY <3>1, <3>3, <4>1
    <3> QED
      BY <3>2, <3>3
  <2>6. g \in Powers(base, n + 1)
    BY <2>4, <2>5 DEF Powers
  <2> QED
    BY <2>6
<1> HIDE DEF S
<1>3. S = Nat
  BY <1>1, <1>2, SetInduction DEF S
<1> QED
  BY <1>3 DEF S

LEMMA PowersAgree ==
  ASSUME NEW base \in Nat, NEW n \in Nat, NEW m \in Nat,
         NEW f \in Powers(base, n), NEW g \in Powers(base, m)
  PROVE  \A i \in 0..n : i <= m => f[i] = g[i]
<1> DEFINE S == {i \in Nat : i <= n /\ i <= m => f[i] = g[i]}
<1>1. 0 \in S
  BY DEF Powers
<1>2. ASSUME NEW i \in S PROVE i + 1 \in S
  <2>1. CASE i + 1 <= n /\ i + 1 <= m
    <3>1. i + 1 \in 0..n /\ i + 1 \in 0..m /\ i + 1 > 0 /\ (i + 1) - 1 = i
      BY <2>1
    <3> DEFINE j == i + 1
    <3>3. f[j] = base * f[j - 1] /\ g[j] = base * g[j - 1]
      BY <3>1 DEF Powers
    <3>2. f[i] = g[i]
      BY <2>1
    <3> QED
      BY <3>1, <3>2, <3>3
  <2> QED
    BY <2>1
<1> HIDE DEF S
<1>3. S = Nat
  BY <1>1, <1>2, SetInduction DEF S
<1> QED
  BY <1>3 DEF S

(* There is a function of all powers; Tens and Twos are two of them.         *)
LEMMA PowerFunction ==
  ASSUME NEW base \in Nat
  PROVE  \E f \in [Nat -> Nat] : f = [n \in Nat |-> IF n = 0 THEN 1 ELSE base * f[n - 1]]
<1> DEFINE first(n) == CHOOSE g : g \in Powers(base, n)
           f == [n \in Nat |-> first(n)[n]]
<1>1. \A n \in Nat : first(n) \in Powers(base, n)
  BY PowersExist
<1> HIDE DEF first
<1>2. ASSUME NEW n \in Nat PROVE f[n] \in Nat /\ f[n] = IF n = 0 THEN 1 ELSE base * f[n - 1]
  <2>1. first(n) \in [0..n -> Nat] /\ first(n)[0] = 1
        /\ \A i \in 0..n : i > 0 => first(n)[i] = base * first(n)[i - 1]
    BY <1>1 DEF Powers
  <2>2. f[n] = first(n)[n] /\ first(n)[n] \in Nat
    BY <2>1
  <2>3. CASE n = 0
    BY <2>1, <2>2, <2>3
  <2>4. CASE n # 0
    <3>1. n - 1 \in Nat /\ first(n - 1) \in Powers(base, n - 1) /\ first(n) \in Powers(base, n)
      BY <1>1, <2>4
    <3>2. \A i \in 0..(n - 1) : i <= n => first(n - 1)[i] = first(n)[i]
      BY <3>1, PowersAgree
    <3>3. first(n - 1)[n - 1] = first(n)[n - 1]
      BY <3>1, <3>2
    <3>4. f[n - 1] = first(n)[n - 1]
      BY <3>1, <3>3
    <3>5. first(n)[n] = base * first(n)[n - 1]
      BY <2>1, <2>4
    <3> QED
      BY <2>2, <2>4, <3>4, <3>5
  <2> QED
    BY <2>3, <2>4
<1>3. f \in [Nat -> Nat]
  BY <1>2
<1> HIDE DEF f
<1>4. f = [n \in Nat |-> f[n]]
  BY <1>3
<1>5. f = [n \in Nat |-> IF n = 0 THEN 1 ELSE base * f[n - 1]]
  BY <1>2, <1>4
<1> QED
  BY <1>3, <1>5

LEMMA TensAre ==
  /\ Tens[0] = 1
  /\ \A n \in Nat : Tens[n + 1] = 10 * Tens[n]
<1> DEFINE Is(g) == g = [n \in Nat |-> IF n = 0 THEN 1 ELSE 10 * g[n - 1]]
<1>1. \E f : Is(f)
  BY PowerFunction
<1>2. Tens = CHOOSE g : Is(g)
  BY Zenon DEF Tens
<1> HIDE DEF Is
<1>3. Is(Tens)
  BY <1>1, <1>2, Zenon
<1>4. \A n \in Nat : Tens[n] = IF n = 0 THEN 1 ELSE 10 * Tens[n - 1]
  BY <1>3 DEF Is
<1> QED
  BY <1>4

LEMMA TwosAre ==
  /\ Twos[0] = 1
  /\ \A n \in Nat : Twos[n + 1] = 2 * Twos[n]
<1> DEFINE Is(g) == g = [n \in Nat |-> IF n = 0 THEN 1 ELSE 2 * g[n - 1]]
<1>1. \E f : Is(f)
  BY PowerFunction
<1>2. Twos = CHOOSE g : Is(g)
  BY Zenon DEF Twos
<1> HIDE DEF Is
<1>3. Is(Twos)
  BY <1>1, <1>2, Zenon
<1>4. \A n \in Nat : Twos[n] = IF n = 0 THEN 1 ELSE 2 * Twos[n - 1]
  BY <1>3 DEF Is
<1> QED
  BY <1>4

LEMMA TensArePositive == \A n \in Nat : Tens[n] \in Nat \ {0}
<1> DEFINE S == {n \in Nat : Tens[n] \in Nat \ {0}}
<1>1. 0 \in S
  BY TensAre
<1>2. \A n \in S : n + 1 \in S
  BY TensAre
<1> HIDE DEF S
<1>3. S = Nat
  BY <1>1, <1>2, SetInduction DEF S
<1> QED
  BY <1>3 DEF S

\* 10^(m + n) = 10^m * 10^n
LEMMA TensAdd ==
  ASSUME NEW m \in Nat, NEW n \in Nat
  PROVE  Tens[m + n] = Tens[m] * Tens[n]
<1> DEFINE S == {k \in Nat : Tens[m + k] = Tens[m] * Tens[k]}
<1>1. 0 \in S
  BY TensAre, TensArePositive
<1>2. ASSUME NEW k \in S PROVE k + 1 \in S
  <2>1. Tens[m + (k + 1)] = 10 * Tens[m + k]
    BY TensAre
  <2>2. Tens[k + 1] = 10 * Tens[k]
    BY TensAre
  <2>3. Tens[m] \in Int /\ Tens[k] \in Int
    BY TensArePositive
  <2>4. \A x, y \in Int : 10 * (x * y) = x * (10 * y)
    OBVIOUS
  <2>5. 10 * (Tens[m] * Tens[k]) = Tens[m] * (10 * Tens[k])
    BY <2>3, <2>4
  <2> QED
    BY <2>1, <2>2, <2>5
<1> HIDE DEF S
<1>3. S = Nat
  BY <1>1, <1>2, SetInduction DEF S
<1> QED
  BY <1>3 DEF S

LEMMA TwosAscend ==
  ASSUME NEW m \in Nat, NEW n \in Nat, m <= n
  PROVE  Twos[m] \in Nat /\ Twos[n] \in Nat /\ Twos[m] <= Twos[n]
<1> DEFINE S == {k \in Nat : Twos[k] \in Nat}
           T == {k \in Nat : Twos[m] <= Twos[m + k]}
<1>1. 0 \in S /\ \A k \in S : k + 1 \in S
  BY TwosAre
<1>2. S = Nat
  <2> HIDE DEF S
  <2> QED
    BY <1>1, SetInduction DEF S
<1> HIDE DEF T
<1>3. \A k \in Nat : Twos[k] \in Nat
  BY <1>2
<1> USE DEF T
<1>4. 0 \in T
  BY <1>3
<1>5. ASSUME NEW k \in T PROVE k + 1 \in T
  <2>1. Twos[m + (k + 1)] = 2 * Twos[m + k]
    BY TwosAre
  <2>2. Twos[m + k] \in Nat /\ Twos[m] \in Nat
    BY <1>3
  <2> QED
    BY <2>1, <2>2
<1>6. T = Nat
  <2> HIDE DEF T
  <2> QED
    BY <1>4, <1>5, SetInduction DEF T
<1>7. n - m \in T
  <2> HIDE DEF T
  <2>1. n - m \in Nat
    OBVIOUS
  <2> QED
    BY <1>6, <2>1
<1> QED
  BY <1>3, <1>7

-----------------------------------------------------------------------------
(* FieldValues: values and what is declared of them *)

(* Bounds may be compared at any power of ten.                               *)
LEMMA Scaled ==
  ASSUME NEW x \in Int, NEW y \in Int, NEW p \in Nat \ {0}
  PROVE  /\ x * p >= y * p <=> x >= y
         /\ x * p > y * p <=> x > y
<1>1. \A a, b \in Int : a > b => a * p > b * p
  <2> TAKE a, b \in Int
  <2>1. a * p - b * p = (a - b) * p
    OBVIOUS
  <2>2. a > b => (a - b) * p > 0
    <3>1. \A d, q \in Int : d > 0 /\ q > 0 => d * q > 0
      OBVIOUS
    <3> QED
      BY <3>1
  <2>3. a * p \in Int /\ b * p \in Int
    OBVIOUS
  <2> QED
    BY <2>1, <2>2, <2>3
<1>2. x > y => x * p > y * p
  BY <1>1
<1>3. y > x => y * p > x * p
  BY <1>1
<1>4. x * p \in Int /\ y * p \in Int
  OBVIOUS
<1> QED
  BY <1>2, <1>3, <1>4

Decimal == [digits : Digits, exponent : Exponents]

LEMMA ScaleIs ==
  ASSUME NEW w, w.exponent \in Int
  PROVE  Scale(w) = IF w.exponent <= 0 THEN -w.exponent ELSE 0
<1> DEFINE e == w.exponent
<1>1. Scale(w) = Larger(-e, 0)
  BY DEF Scale
<1>2. e \in Int
  OBVIOUS
<1> HIDE DEF e
<1>3. Larger(-e, 0) = IF e <= 0 THEN -e ELSE 0
  BY <1>2 DEF Larger
<1> QED
  BY <1>1, <1>3 DEF e

LEMMA DecimalsAreNumbers ==
  ASSUME NEW v \in Decimal
  PROVE  /\ v.digits \in Nat /\ v.exponent \in Int /\ Places \in Nat
         /\ v.exponent + Places \in Nat
<1>1. v.digits \in Digits /\ v.exponent \in Exponents
  BY DEF Decimal
<1>2. v.exponent + Places >= 0 /\ Places \in Nat
  BY <1>1, DigitsAssumption, Zenon
<1> DEFINE e == v.exponent
<1>3. v.digits \in Nat /\ e \in Int
  BY <1>1, NumbersAssumption
<1>4. e + Places >= 0 /\ Places \in Nat
  BY <1>2
<1> HIDE DEF e
<1>5. e + Places \in Nat
  BY <1>3, <1>4
<1> QED
  BY <1>2, <1>3, <1>5 DEF e

(* What is compared with a bound, in the digits of what is returned, is the  *)
(* decimal itself.                                                           *)
LEMMA DecimalsCompare ==
  ASSUME definition.type.kind = "decimal", NEW v \in Decimal, NEW bound \in Int
  PROVE  LET w == Written(definition.type, v)
         IN  /\ w.digits >= bound * Tens[Scale(w)] <=> Parts(v) >= bound * Tens[Places]
             /\ w.digits > bound * Tens[Scale(w)]  <=> Parts(v) > bound * Tens[Places]
             /\ w.digits \in Int /\ bound * Tens[Scale(w)] \in Int
             /\ Parts(v) \in Int /\ bound * Tens[Places] \in Int
<1> DEFINE w == Written(definition.type, v)
           d == v.digits
           e == v.exponent
<1>1. d \in Nat /\ e \in Int /\ Places \in Nat /\ e + Places \in Nat
  BY DecimalsAreNumbers
<1>2. Parts(v) = d * Tens[e + Places]
  BY DEF Parts
<1>3. CASE e > 0
  <2>1. w.digits = d * Tens[e] /\ w.exponent = 0
    BY <1>3 DEF Written
  <2>2. Scale(w) = 0
    <3>1. w.exponent = 0
      BY <2>1
    <3> HIDE DEF w
    <3> QED
      BY <3>1, ScaleIs
  <2>3. Tens[e + Places] = Tens[e] * Tens[Places]
    BY <1>1, <1>3, TensAdd
  <2>4. Tens[e] \in Nat \ {0} /\ Tens[Places] \in Nat \ {0} /\ Tens[0] = 1
    BY <1>1, <1>3, TensArePositive, TensAre
  <2>5. \A a, b, c \in Int : a * (b * c) = (a * b) * c
    OBVIOUS
  <2>6. d * (Tens[e] * Tens[Places]) = (d * Tens[e]) * Tens[Places]
    BY <1>1, <2>4, <2>5
  <2>7. d * Tens[e] \in Int /\ bound * Tens[Places] \in Int /\ (d * Tens[e]) * Tens[Places] \in Int
    BY <1>1, <2>4
  <2>8. bound * Tens[Scale(w)] = bound
    BY <2>2, <2>4
  <2> HIDE DEF w, d, e
  <2>9. /\ (d * Tens[e]) * Tens[Places] >= bound * Tens[Places] <=> d * Tens[e] >= bound
        /\ (d * Tens[e]) * Tens[Places] > bound * Tens[Places] <=> d * Tens[e] > bound
    BY <2>4, <2>7, Scaled
  <2>10. Parts(v) = (d * Tens[e]) * Tens[Places]
    BY <1>2, <2>3, <2>6
  <2>11. /\ w.digits >= bound * Tens[Scale(w)] <=> Parts(v) >= bound * Tens[Places]
         /\ w.digits > bound * Tens[Scale(w)]  <=> Parts(v) > bound * Tens[Places]
         /\ w.digits \in Int /\ bound * Tens[Scale(w)] \in Int
         /\ Parts(v) \in Int /\ bound * Tens[Places] \in Int
    BY <2>1, <2>7, <2>8, <2>9, <2>10
  <2> QED
    BY <2>11 DEF w
<1>4. CASE ~(e > 0)
  <2>1. w = v
    BY <1>4 DEF Written
  <2>2. Scale(w) = -e /\ -e \in Nat
    BY <1>1, <1>4, <2>1, ScaleIs
  <2>3. Tens[Places] = Tens[-e] * Tens[e + Places]
    <3>1. (-e) + (e + Places) = Places
      BY <1>1
    <3>2. Tens[(-e) + (e + Places)] = Tens[-e] * Tens[e + Places]
      BY <1>1, <2>2, TensAdd
    <3> QED
      BY <3>1, <3>2
  <2>4. Tens[-e] \in Nat \ {0} /\ Tens[e + Places] \in Nat \ {0}
    BY <1>1, <2>2, TensArePositive
  <2>5. \A a, b, c \in Int : a * (b * c) = (a * b) * c
    OBVIOUS
  <2>6. bound * Tens[Places] = (bound * Tens[-e]) * Tens[e + Places]
    BY <2>3, <2>4, <2>5
  <2>7. bound * Tens[-e] \in Int /\ d * Tens[e + Places] \in Int
        /\ (bound * Tens[-e]) * Tens[e + Places] \in Int
    BY <1>1, <2>4
  <2> HIDE DEF w, e
  <2>8. /\ d * Tens[e + Places] >= (bound * Tens[-e]) * Tens[e + Places] <=> d >= bound * Tens[-e]
        /\ d * Tens[e + Places] > (bound * Tens[-e]) * Tens[e + Places] <=> d > bound * Tens[-e]
    <3> HIDE DEF d
    <3> QED
      BY <1>1, <2>4, <2>7, Scaled
  <2>9. w.digits = d
    BY <2>1
  <2> HIDE DEF d
  <2>10. /\ w.digits >= bound * Tens[Scale(w)] <=> Parts(v) >= bound * Tens[Places]
         /\ w.digits > bound * Tens[Scale(w)]  <=> Parts(v) > bound * Tens[Places]
         /\ w.digits \in Int /\ bound * Tens[Scale(w)] \in Int
         /\ Parts(v) \in Int /\ bound * Tens[Places] \in Int
    BY <1>1, <1>2, <2>2, <2>6, <2>7, <2>8, <2>9
  <2> QED
    BY <2>10 DEF w
<1> QED
  BY <1>3, <1>4

(* The items of an array differ iff there are as many as its length says.    *)
LEMMA UniqueMeansDifferent ==
  ASSUME NEW n \in Nat, NEW items, items = [i \in 1..n |-> items[i]]
  PROVE  Cardinality({items[i] : i \in DOMAIN items}) = n
           <=> \A i, j \in 1..n : items[i] = items[j] => i = j
<1> DEFINE T == {items[i] : i \in 1..n}
<1>1. DOMAIN items = 1..n
  OBVIOUS
<1>2. items \in [1..n -> T]
  OBVIOUS
<1>3. items \in Surjection(1..n, T)
  BY <1>2 DEF Surjection
<1>4. IsFiniteSet(1..n) /\ Cardinality(1..n) = n
  BY FS_Interval
<1> HIDE DEF T
<1>5. Cardinality(T) = n <=> items \in Injection(1..n, T)
  BY <1>3, <1>4, FS_Surjection
<1>6. items \in Injection(1..n, T) <=> \A i, j \in 1..n : items[i] = items[j] => i = j
  BY <1>2 DEF Injection, IsInjective
<1> QED
  BY <1>1, <1>5, <1>6 DEF T

-----------------------------------------------------------------------------
(* FieldValues: the invariant *)

\* What came back for the value is what would come back for it now.
FieldInv ==
  /\ definition \in Definitions
  /\ verdict # "none" => verdict = Verdict
  /\ value = None => result = None
  /\ value # None =>
       /\ verdict = "accepted" /\ value \in ValuesOf(definition)
       /\ result = IF Accepts(value) THEN Returned(value) ELSE None

LEMMA DefinitionsAre ==
  ASSUME definition \in Definitions
  PROVE  LET c == definition.constraints
         IN  /\ definition.type \in Types /\ definition.many \in BOOLEAN
             /\ definition.type.kind \in {"int", "decimal", "string"}
             /\ DOMAIN c \subseteq Names
             /\ \A name \in DOMAIN c : c[name] \in Int \cup {None}
             /\ \A name \in DOMAIN c \cap {"uniqueItems", "pattern"} : c[name] \in {1, None}
<1>1. definition.type \in Types /\ definition.many \in BOOLEAN
      /\ definition.constraints \in UNION {Declarable(names) : names \in {n \in SUBSET Names : Cardinality(n) <= 2}}
  BY DEF Definitions
<1>2. PICK names \in SUBSET Names : definition.constraints \in Declarable(names)
  BY <1>1
<1>3. definition.type.kind \in {"int", "decimal", "string"}
  BY <1>1 DEF Types
<1> DEFINE c == definition.constraints
<1>4. c \in [names -> Bounds] /\ \A name \in names \cap {"uniqueItems", "pattern"} : c[name] \in {1, None}
  BY <1>2 DEF Declarable
<1> HIDE DEF c
<1>5. DOMAIN c = names /\ \A name \in DOMAIN c : c[name] \in Int \cup {None}
  BY <1>4, BoundsAssumption
<1> QED
  BY <1>1, <1>2, <1>3, <1>4, <1>5 DEF c

LEMMA ScalarsAre ==
  ASSUME NEW type \in Types, NEW v \in Scalars(type)
  PROVE  /\ v \in Scalar /\ Written(type, v) \in Scalar
         /\ type.kind = "int" => v \in Int
         /\ type.kind = "decimal" => v \in Decimal
         /\ type.kind = "string" => v \in [length : Nat, matches : BOOLEAN]
<1>1. type.kind \in {"int", "decimal", "string"}
  BY DEF Types
<1>2. CASE type.kind = "int"
  BY <1>2, NumbersAssumption DEF Scalars, Scalar, Written
<1>3. CASE type.kind = "decimal"
  <2>1. v \in Decimal
    BY <1>3 DEF Scalars, Decimal
  <2>2. v.digits \in Nat /\ v.exponent \in Int /\ v = [digits |-> v.digits, exponent |-> v.exponent]
    BY <2>1, DecimalsAreNumbers DEF Decimal
  <2>3. v \in Scalar
    BY <2>2 DEF Scalar
  <2>4. Written(type, v) \in Scalar
    <3>1. CASE v.exponent > 0
      <4>1. Written(type, v) = [digits |-> v.digits * Tens[v.exponent], exponent |-> 0]
        BY <1>3, <3>1 DEF Written
      <4>2. v.digits * Tens[v.exponent] \in Nat
        BY <2>2, <3>1, TensArePositive
      <4> QED
        BY <4>1, <4>2 DEF Scalar
    <3>2. CASE ~(v.exponent > 0)
      BY <2>3, <3>2 DEF Written
    <3> QED
      BY <3>1, <3>2
  <2> QED
    BY <1>3, <2>1, <2>3, <2>4
<1>4. CASE type.kind = "string"
  BY <1>4, StringsAssumption DEF Scalars, Scalar, Written
<1> QED
  BY <1>1, <1>2, <1>3, <1>4

(* A value is never None, nor is what comes back for it.                     *)
LEMMA NeverNone ==
  ASSUME definition \in Definitions, NEW v \in ValuesOf(definition)
  PROVE  v # None /\ Returned(v) # None
<1>1. definition.type \in Types
  BY DefinitionsAre
<1>2. CASE definition.many
  <2>1. PICK n \in 0..MaxItems : v \in [1..n -> Scalars(definition.type)]
    BY <1>2 DEF ValuesOf
  <2>2. n \in Nat
    BY <2>1, ItemsAssumption
  <2>3. \A i \in 1..n : v[i] \in Scalar /\ Written(definition.type, v[i]) \in Scalar
    BY <1>1, <2>1, ScalarsAre
  <2>4. v \in [1..n -> Scalar]
    BY <2>1, <2>3
  <2>5. Returned(v) \in [1..n -> Scalar]
    BY <1>2, <2>1, <2>3 DEF Returned
  <2>6. \A s \in [1..n -> Scalar] : s \in Seq(Scalar)
    BY <2>2
  <2> QED
    BY <2>4, <2>5, <2>6, NoneAssumption
<1>3. CASE ~definition.many
  BY <1>1, <1>3, ScalarsAre, NoneAssumption DEF ValuesOf, Returned
<1> QED
  BY <1>2, <1>3

(* A decimal has a number of digits.                                         *)
LEMMA DigitsAreCounted ==
  ASSUME NEW v \in Decimal
  PROVE  Precision(v) \in Int
<1> DEFINE d == v.digits
           T == {k \in Nat : k >= 1 /\ d < Tens[k]}
<1>1. d \in Nat /\ MaxDigits \in Nat \ {0}
  BY DecimalsAreNumbers, DigitsAssumption
<1>2. MaxDigits \in T
  <2> DEFINE p == Tens[Larger(v.exponent, 0)]
  <2>1. d * p < Tens[MaxDigits]
    BY DigitsAssumption DEF Decimal
  <2>2. p \in Nat \ {0}
    <3> DEFINE e == v.exponent
    <3>1. e \in Int
      BY DecimalsAreNumbers
    <3> HIDE DEF e
    <3>2. Larger(e, 0) \in Nat
      BY <3>1 DEF Larger
    <3> QED
      BY <3>2, TensArePositive DEF e
  <2>3. Tens[MaxDigits] \in Nat
    BY <1>1, TensArePositive
  <2> HIDE DEF d, p
  <2>4. d * p >= d
    <3>1. \A m, n \in Nat : n >= 1 => m * n >= m
      OBVIOUS
    <3> QED
      BY <1>1, <2>2, <3>1
  <2>5. d * p \in Nat
    BY <1>1, <2>2
  <2>6. d < Tens[MaxDigits]
    BY <1>1, <2>1, <2>3, <2>4, <2>5
  <2> QED
    BY <1>1, <2>6
<1>3. PICK k \in T : \A j \in T : k <= j
  BY <1>2, Least
<1>4. k \in 1..MaxDigits /\ d < Tens[k] /\ (k = 1 \/ d >= Tens[k - 1])
  <2>1. k \in 1..MaxDigits /\ d < Tens[k]
    BY <1>1, <1>2, <1>3
  <2>2. ASSUME k # 1 PROVE d >= Tens[k - 1]
    <3>1. k - 1 \in Nat /\ k - 1 >= 1 /\ k - 1 \notin T
      BY <1>3, <2>1, <2>2
    <3>2. Tens[k - 1] \in Nat
      BY <3>1, TensArePositive
    <3> QED
      BY <1>1, <3>1, <3>2
  <2> QED
    BY <2>1, <2>2
<1>5. NumberOfDigits(d) \in 1..MaxDigits
  <2> HIDE DEF d
  <2> QED
    BY <1>4 DEF NumberOfDigits
<1>6. NumberOfDigits(d) \in Int
  BY <1>1, <1>5
<1>7. Scale(v) \in Int
  BY DecimalsAreNumbers, ScaleIs
<1> HIDE DEF d
<1> QED
  BY <1>6, <1>7 DEF Precision, Larger, d

(* What a type takes a wider type takes.                                     *)
LEMMA WiderTypesTake ==
  ASSUME NEW source \in Types, NEW target \in Types, Widens(source, target),
         NEW v \in Scalars(source), OfType(source, v)
  PROVE  OfType(target, v)
<1>1. CASE source.kind = "int" /\ target.kind = "int" /\ target.bits > source.bits
  <2>1. source.bits \in Nat \ {0} /\ target.bits \in Nat \ {0} /\ v \in Int
    BY <1>1, TypesAssumption, NumbersAssumption DEF Types, Scalars
  <2>2. /\ Twos[source.bits - 1] \in Nat /\ Twos[target.bits - 1] \in Nat
        /\ Twos[source.bits - 1] <= Twos[target.bits - 1]
    BY <1>1, <2>1, TwosAscend
  <2>3. -Twos[source.bits - 1] <= v /\ v < Twos[source.bits - 1]
    BY <1>1 DEF OfType, InRange
  <2>4. -Twos[target.bits - 1] <= v /\ v < Twos[target.bits - 1]
    BY <2>1, <2>2, <2>3
  <2> QED
    BY <1>1, <2>4 DEF OfType, InRange
<1>2. CASE /\ source.kind = "decimal" /\ target.kind = "decimal"
           /\ target.precision >= source.precision /\ target.scale >= source.scale
  <2>1. /\ source.precision \in Int /\ source.scale \in Int
        /\ target.precision \in Int /\ target.scale \in Int
    BY <1>2 DEF Types
  <2>2. Precision(v) <= source.precision /\ Scale(v) <= source.scale
    BY <1>2 DEF OfType
  <2>3. Scale(v) \in Int
    <3>1. v \in Decimal
      BY <1>2 DEF Scalars, Decimal
    <3> QED
      BY <3>1, DecimalsAreNumbers, ScaleIs
  <2>4. Precision(v) \in Int
    BY <1>2, DigitsAreCounted DEF Scalars, Decimal
  <2>5. Precision(v) <= target.precision /\ Scale(v) <= target.scale
    BY <1>2, <2>1, <2>2, <2>3, <2>4
  <2> QED
    BY <1>2, <2>5 DEF OfType
<1> QED
  BY <1>1, <1>2 DEF Widens

LEMMA FieldInitInv == FieldInit => FieldInv
BY DEF FieldInit, FieldInv

LEMMA ValidateDefinitionInv == FieldInv /\ ValidateDefinition => FieldInv'
<1> SUFFICES ASSUME FieldInv, ValidateDefinition PROVE FieldInv'
  OBVIOUS
<1>1. verdict = "none" /\ verdict' = Verdict /\ definition' = definition /\ value' = value /\ result' = result
  BY DEF ValidateDefinition
<1>2. value = None /\ result = None
  BY <1>1 DEF FieldInv
<1>3. Verdict' = Verdict
  BY <1>1 DEF Verdict, BadLength, Crossed, Incomparable, NotADeclaration, Inapplicable, BothDeclared,
              Declares, Declared
<1> QED
  BY <1>1, <1>2, <1>3 DEF FieldInv

LEMMA ValidateValueInv ==
  ASSUME FieldInv, NEW v \in ValuesOf(definition), ValidateValue(v)
  PROVE  FieldInv'
<1>1. /\ verdict = "accepted" /\ value = None /\ value' = v
      /\ result' = IF Accepts(v) THEN Returned(v) ELSE None
      /\ definition' = definition /\ verdict' = verdict
  BY DEF ValidateValue
<1>2. Verdict' = Verdict
  BY <1>1 DEF Verdict, BadLength, Crossed, Incomparable, NotADeclaration, Inapplicable, BothDeclared,
              Declares, Declared
<1>3. ValuesOf(definition') = ValuesOf(definition)
  BY <1>1
<1>4. (Accepts(value))' = Accepts(v) /\ (Returned(value))' = Returned(v)
  BY <1>1 DEF Accepts, HasType, ConstraintsHold, Returned, AtLeast, AtMost, Declares, Declared,
              NumberFits, Digital, Limit
<1>5. v # None /\ Returned(v) # None
  BY NeverNone DEF FieldInv
<1> QED
  BY <1>1, <1>2, <1>3, <1>4, <1>5 DEF FieldInv

(* A wider type makes no difference but for what it takes.                   *)
LEMMA WidenChangesTheTypeOnly ==
  ASSUME FieldInv, NEW target \in Types, Widen(target)
  PROVE  /\ definition' \in Definitions
         /\ ValuesOf(definition') = ValuesOf(definition)
         /\ Verdict' = Verdict
         /\ (ConstraintsHold(Returned(value)))' = ConstraintsHold(Returned(value))
         /\ (Returned(value))' = Returned(value)
         /\ definition'.type = target /\ definition'.many = definition.many
<1>1. /\ definition' = [definition EXCEPT !.type = target] /\ value' = value
      /\ definition \in Definitions
  BY DEF Widen, FieldInv
<1>2. /\ definition'.type = target /\ definition'.many = definition.many
      /\ definition'.constraints = definition.constraints
      /\ definition' \in Definitions
  BY <1>1 DEF Definitions
<1>3. target.kind = definition.type.kind
  BY DEF Widen, Widens
<1>4. ValuesOf(definition') = ValuesOf(definition)
  BY <1>2, <1>3 DEF ValuesOf, Scalars
<1>5. \A name : (Declares(name))' = Declares(name) /\ (Declared(name))' = Declared(name)
  BY <1>2 DEF Declares, Declared
<1>6. Verdict' = Verdict
  BY <1>2, <1>3, <1>5 DEF Verdict, BadLength, Crossed, Incomparable, NotADeclaration, Inapplicable,
                         BothDeclared
<1>7. \A v : Written(target, v) = Written(definition.type, v)
  BY <1>3 DEF Written
<1>8. (Returned(value))' = Returned(value)
  BY <1>1, <1>2, <1>7 DEF Returned
<1>9. (ConstraintsHold(Returned(value)))' = ConstraintsHold(Returned(value))
  BY <1>2, <1>3, <1>5, <1>8 DEF ConstraintsHold, AtLeast, AtMost, NumberFits, Digital, Limit
<1> QED
  BY <1>2, <1>4, <1>6, <1>8, <1>9

LEMMA WidenInv ==
  ASSUME FieldInv, NEW target \in Types, Widen(target)
  PROVE  FieldInv'
<1>1. /\ result # None /\ Widens(definition.type, target)
      /\ verdict' = verdict /\ value' = value /\ result' = result
  BY DEF Widen
<1>2. value # None /\ value \in ValuesOf(definition) /\ Accepts(value)
  BY <1>1 DEF FieldInv
<1>3. definition.type \in Types
  BY DefinitionsAre DEF FieldInv
<1>4. (HasType(value))'
  <2>1. \A v \in Scalars(definition.type) : OfType(definition.type, v) => OfType(target, v)
    BY <1>1, <1>3, WiderTypesTake
  <2>2. definition'.type = target /\ definition'.many = definition.many
    BY WidenChangesTheTypeOnly
  <2>3. CASE definition.many
    <3>1. PICK n \in 0..MaxItems : value \in [1..n -> Scalars(definition.type)]
      BY <1>2, <2>3 DEF ValuesOf
    <3>2. \A i \in DOMAIN value : OfType(definition.type, value[i])
      BY <1>2, <2>3 DEF Accepts, HasType
    <3>3. \A i \in DOMAIN value : OfType(target, value[i])
      BY <2>1, <3>1, <3>2
    <3> QED
      BY <1>1, <2>2, <2>3, <3>3 DEF HasType
  <2>4. CASE ~definition.many
    BY <1>1, <1>2, <2>1, <2>2, <2>4 DEF HasType, Accepts, ValuesOf
  <2> QED
    BY <2>3, <2>4
<1>5. (Accepts(value))' /\ (Returned(value))' = Returned(value)
  BY <1>2, <1>4, WidenChangesTheTypeOnly DEF Accepts
<1> QED
  BY <1>1, <1>2, <1>5, WidenChangesTheTypeOnly DEF FieldInv

LEMMA FieldInvAlways == FieldSpec => []FieldInv
<1>1. FieldInv /\ [FieldNext]_fieldVars => FieldInv'
  <2> SUFFICES ASSUME FieldInv, [FieldNext]_fieldVars PROVE FieldInv'
    OBVIOUS
  <2>1. CASE ValidateDefinition
    BY <2>1, ValidateDefinitionInv
  <2>2. ASSUME NEW v \in ValuesOf(definition), ValidateValue(v) PROVE FieldInv'
    BY <2>2, ValidateValueInv
  <2>3. ASSUME NEW target \in Types, Widen(target) PROVE FieldInv'
    BY <2>3, WidenInv
  <2>4. CASE UNCHANGED fieldVars
    BY <2>4 DEF fieldVars, FieldInv, Verdict, BadLength, Crossed, Incomparable, NotADeclaration,
                Inapplicable, BothDeclared, Declares, Declared, ValuesOf, Accepts, HasType,
                ConstraintsHold, Returned, AtLeast, AtMost, NumberFits, Digital, Limit
  <2> QED
    BY <2>1, <2>2, <2>3, <2>4 DEF FieldNext
<1> QED
  BY FieldInitInv, <1>1, PTL DEF FieldSpec

-----------------------------------------------------------------------------
(* FieldValues: what follows *)

LEMMA WrittenOnce ==
  ASSUME NEW type, NEW v
  PROVE  Written(type, Written(type, v)) = Written(type, v)
<1>1. CASE type.kind = "decimal" /\ v.exponent > 0
  <2>1. Written(type, v).exponent = 0
    BY <1>1 DEF Written
  <2> QED
    BY <2>1 DEF Written
<1>2. CASE ~(type.kind = "decimal" /\ v.exponent > 0)
  BY <1>2 DEF Written
<1> QED
  BY <1>1, <1>2

LEMMA ReturnedOnce ==
  ASSUME NEW v
  PROVE  Returned(Returned(v)) = Returned(v)
<1>1. CASE definition.many
  <2>1. Returned(v) = [i \in DOMAIN v |-> Written(definition.type, v[i])]
    BY <1>1 DEF Returned
  <2> DEFINE w == Returned(v)
  <2>2. DOMAIN w = DOMAIN v /\ \A i \in DOMAIN v : w[i] = Written(definition.type, v[i])
    BY <2>1
  <2>3. Returned(w) = [i \in DOMAIN w |-> Written(definition.type, w[i])]
    BY <1>1 DEF Returned
  <2>4. \A i \in DOMAIN v : Written(definition.type, w[i]) = w[i]
    BY <2>2, WrittenOnce
  <2> HIDE DEF w
  <2>5. Returned(w) = [i \in DOMAIN v |-> w[i]]
    BY <2>2, <2>3, <2>4
  <2>6. w = [i \in DOMAIN v |-> w[i]]
    <3>1. w = [i \in DOMAIN v |-> Written(definition.type, v[i])]
      BY <2>1 DEF w
    <3> QED
      BY <3>1
  <2>7. Returned(w) = w
    BY <2>5, <2>6
  <2> QED
    BY <2>7 DEF w
<1>2. CASE ~definition.many
  BY <1>2, WrittenOnce DEF Returned
<1> QED
  BY <1>1, <1>2

(* What is stored is accepted once more and returned as it is, however often *)
(* the type was widened: validate_patch does not fail on a field that was    *)
(* never touched.                                                            *)
THEOREM StoredIsAcceptedAgainAlways == FieldSpec => []StoredIsAcceptedAgain
<1>1. FieldInv => StoredIsAcceptedAgain
  <2> SUFFICES ASSUME FieldInv, result # None
               PROVE  Returned(result) = result /\ (result = value => Accepts(result))
    BY DEF StoredIsAcceptedAgain
  <2>1. result = Returned(value) /\ Accepts(value)
    BY DEF FieldInv
  <2> QED
    BY <2>1, ReturnedOnce
<1> QED
  BY <1>1, FieldInvAlways, PTL

(* Of an array that is unique the items that were submitted differ as they   *)
(* are written.                                                              *)
LEMMA ItemsDecide ==
  ASSUME definition \in Definitions, definition.many, NEW v \in ValuesOf(definition)
  PROVE  ConstraintsHold(Returned(v)) <=>
           \A name \in DOMAIN definition.constraints \cap OfItems : Satisfies(v, name, Declared(name))
<1>1. PICK n \in 0..MaxItems : v \in [1..n -> Scalars(definition.type)]
  BY DEF ValuesOf
<1>2. n \in Nat /\ DOMAIN v = 1..n /\ Len(v) = n
  BY <1>1, ItemsAssumption
<1> DEFINE w == Returned(v)
           c == definition.constraints
<1>3. w = [i \in 1..n |-> Written(definition.type, v[i])]
  BY <1>2 DEF Returned
<1>4. DOMAIN w = 1..n /\ \A i \in 1..n : w[i] = Written(definition.type, v[i])
  BY <1>3
<1>5. Len(w) = n
  <2> HIDE DEF w
  <2>1. w \in Seq({w[i] : i \in 1..n})
    <3>1. w = [i \in 1..n |-> w[i]]
      BY <1>3, <1>4
    <3> QED
      BY <1>2, <3>1
  <2> QED
    BY <1>2, <1>4, <2>1
<1>6. Unique(w) <=> \A i, j \in DOMAIN v :
                      Written(definition.type, v[i]) = Written(definition.type, v[j]) => i = j
  <2>1. w = [i \in 1..n |-> w[i]]
    BY <1>3, <1>4
  <2> HIDE DEF w
  <2>2. Cardinality({w[i] : i \in DOMAIN w}) = n <=> \A i, j \in 1..n : w[i] = w[j] => i = j
    BY <1>2, <2>1, UniqueMeansDifferent
  <2>3. Unique(w) <=> \A i, j \in 1..n : w[i] = w[j] => i = j
    BY <1>5, <2>2 DEF Unique
  <2> QED
    BY <1>2, <1>4, <2>3
<1>7. \A name \in DOMAIN c : c[name] \in Int \cup {None}
  BY DefinitionsAre
<1> HIDE DEF w
<1>8. ConstraintsHold(w) <=>
        /\ AtLeast("minItems", n) /\ AtMost("maxItems", n)
        /\ Declares("uniqueItems") /\ Declared("uniqueItems") = 1 => Unique(w)
  BY <1>5 DEF ConstraintsHold
<1>9. AtLeast("minItems", n) <=>
        ("minItems" \in DOMAIN c => Satisfies(v, "minItems", Declared("minItems")))
  BY <1>2, <1>7 DEF AtLeast, Satisfies, Declares, Declared
<1>10. AtMost("maxItems", n) <=>
        ("maxItems" \in DOMAIN c => Satisfies(v, "maxItems", Declared("maxItems")))
  BY <1>2, <1>7 DEF AtMost, Satisfies, Declares, Declared
<1>11. (Declares("uniqueItems") /\ Declared("uniqueItems") = 1 => Unique(w)) <=>
        ("uniqueItems" \in DOMAIN c => Satisfies(v, "uniqueItems", Declared("uniqueItems")))
  <2>1. Satisfies(v, "uniqueItems", Declared("uniqueItems")) <=>
          (Declared("uniqueItems") = 1 => Unique(w))
    BY <1>6 DEF Satisfies
  <2> QED
    BY <2>1 DEF Declares
<1>12. ConstraintsHold(w) <=>
         /\ "minItems" \in DOMAIN c => Satisfies(v, "minItems", Declared("minItems"))
         /\ "maxItems" \in DOMAIN c => Satisfies(v, "maxItems", Declared("maxItems"))
         /\ "uniqueItems" \in DOMAIN c => Satisfies(v, "uniqueItems", Declared("uniqueItems"))
  BY <1>8, <1>9, <1>10, <1>11
<1>13. OfItems = {"minItems", "maxItems", "uniqueItems"}
  BY DEF OfItems, Counts
<1> HIDE DEF c
<1>14. ConstraintsHold(w) <=> \A name \in DOMAIN c \cap OfItems : Satisfies(v, name, Declared(name))
  BY <1>12, <1>13, Zenon
<1> QED
  BY <1>14 DEF w, c

(* An accepted definition declares numbers as numbers, and of a type what    *)
(* applies to it.                                                            *)
LEMMA AcceptedDeclares ==
  ASSUME definition \in Definitions, Verdict = "accepted", ~definition.many
  PROVE  LET c == definition.constraints
         IN  /\ definition.type.kind = "string" => DOMAIN c \subseteq Lengths \cup {"pattern"}
             /\ definition.type.kind # "string" => DOMAIN c \subseteq Numeric
             /\ \A name \in DOMAIN c \cap Numeric : c[name] \in Int
<1>1. ~NotADeclaration /\ ~Inapplicable
  BY DEF Verdict
<1> DEFINE c == definition.constraints
<1>2. DOMAIN c \subseteq Names /\ \A name \in DOMAIN c : c[name] \in Int \cup {None}
  BY DefinitionsAre
<1>3. DOMAIN c \cap (Counts \cup {"uniqueItems"}) = {}
  BY <1>1 DEF Inapplicable, Declares
<1>4. definition.type.kind = "string" => DOMAIN c \cap Numeric = {}
  BY <1>1 DEF Inapplicable, Declares
<1>5. definition.type.kind # "string" => DOMAIN c \cap (Lengths \cup {"pattern"}) = {}
  BY <1>1 DEF Inapplicable, Declares
<1>6. \A name \in DOMAIN c \cap Numeric : c[name] # None
  BY <1>1 DEF NotADeclaration, Declares, Declared
<1> HIDE DEF c
<1>7. /\ definition.type.kind = "string" => DOMAIN c \subseteq Lengths \cup {"pattern"}
      /\ definition.type.kind # "string" => DOMAIN c \subseteq Numeric
  BY <1>2, <1>3, <1>4, <1>5 DEF Names
<1> QED
  BY <1>2, <1>6, <1>7 DEF c

LEMMA StringsDecide ==
  ASSUME definition \in Definitions, Verdict = "accepted", ~definition.many,
         definition.type.kind = "string", NEW v \in [length : Nat, matches : BOOLEAN]
  PROVE  ConstraintsHold(Returned(v)) <=>
           \A name \in DOMAIN definition.constraints : Satisfies(v, name, Declared(name))
<1> DEFINE c == definition.constraints
<1>1. Returned(v) = v
  BY DEF Returned, Written
<1>2. DOMAIN c \subseteq Lengths \cup {"pattern"} /\ \A name \in DOMAIN c : c[name] \in Int \cup {None}
  BY AcceptedDeclares, DefinitionsAre
<1>3. ConstraintsHold(v) <=>
        /\ AtLeast("minLength", v.length) /\ AtMost("maxLength", v.length)
        /\ Declares("pattern") => v.matches
  BY DEF ConstraintsHold
<1>4. v.length \in Int
  OBVIOUS
<1>5. AtLeast("minLength", v.length) <=>
        ("minLength" \in DOMAIN c => Satisfies(v, "minLength", Declared("minLength")))
  BY <1>2, <1>4 DEF AtLeast, Satisfies, Declares, Declared
<1>6. AtMost("maxLength", v.length) <=>
        ("maxLength" \in DOMAIN c => Satisfies(v, "maxLength", Declared("maxLength")))
  BY <1>2, <1>4 DEF AtMost, Satisfies, Declares, Declared
<1>7. (Declares("pattern") => v.matches) <=>
        ("pattern" \in DOMAIN c => Satisfies(v, "pattern", Declared("pattern")))
  BY DEF Satisfies, Declares
<1>8. ConstraintsHold(v) <=>
        /\ "minLength" \in DOMAIN c => Satisfies(v, "minLength", Declared("minLength"))
        /\ "maxLength" \in DOMAIN c => Satisfies(v, "maxLength", Declared("maxLength"))
        /\ "pattern" \in DOMAIN c => Satisfies(v, "pattern", Declared("pattern"))
  BY <1>3, <1>5, <1>6, <1>7
<1>9. DOMAIN c \subseteq {"minLength", "maxLength", "pattern"}
  BY <1>2 DEF Lengths
<1> HIDE DEF c
<1>10. ConstraintsHold(v) <=> \A name \in DOMAIN c : Satisfies(v, name, Declared(name))
  BY <1>8, <1>9, Zenon
<1> QED
  BY <1>1, <1>10 DEF c

(* A number meets its bounds as they are declared, whatever power of ten it  *)
(* is written at.                                                            *)
LEMMA NumbersDecide ==
  ASSUME definition \in Definitions, Verdict = "accepted", ~definition.many,
         definition.type.kind # "string", NEW v \in Scalars(definition.type)
  PROVE  ConstraintsHold(Returned(v)) <=>
           \A name \in DOMAIN definition.constraints : Satisfies(v, name, Declared(name))
<1> DEFINE c == definition.constraints
           w == Written(definition.type, v)
<1>1. DOMAIN c \subseteq Numeric /\ \A name \in DOMAIN c : c[name] \in Int
  BY AcceptedDeclares
<1>2. ConstraintsHold(Returned(v)) <=> NumberFits(w)
  BY DEF ConstraintsHold, Returned
<1>3. ASSUME NEW name \in DOMAIN c
      PROVE  /\ Digital(w) >= Limit(name, w) <=> Parts(v) >= Declared(name) * Tens[Places]
             /\ Digital(w) > Limit(name, w)  <=> Parts(v) > Declared(name) * Tens[Places]
             /\ Digital(w) \in Int /\ Limit(name, w) \in Int
             /\ Parts(v) \in Int /\ Declared(name) * Tens[Places] \in Int
  <2>1. definition.type \in Types /\ Declared(name) \in Int
    BY <1>1, DefinitionsAre DEF Declared
  <2>2. CASE definition.type.kind = "decimal"
    <3>1. v \in Decimal
      BY <2>1, <2>2, ScalarsAre
    <3>2. Digital(w) = w.digits /\ Limit(name, w) = Declared(name) * Tens[Scale(w)]
      BY <2>2 DEF Digital, Limit
    <3> QED
      BY <2>1, <2>2, <3>1, <3>2, DecimalsCompare
  <2>3. CASE definition.type.kind # "decimal"
    <3>1. v \in Int
      BY <2>1, <2>3, ScalarsAre, DefinitionsAre
    <3>2. Digital(w) = v /\ Limit(name, w) = Declared(name) /\ Parts(v) = v * Tens[Places]
      BY <2>3 DEF Digital, Limit, Written, Parts
    <3>3. Tens[Places] \in Nat \ {0}
      BY TensArePositive, DigitsAssumption
    <3>4. /\ v * Tens[Places] >= Declared(name) * Tens[Places] <=> v >= Declared(name)
          /\ v * Tens[Places] > Declared(name) * Tens[Places] <=> v > Declared(name)
      BY <2>1, <3>1, <3>3, Scaled
    <3>5. v * Tens[Places] \in Int /\ Declared(name) * Tens[Places] \in Int
      BY <2>1, <3>1, <3>3
    <3> QED
      BY <2>1, <3>1, <3>2, <3>4, <3>5
  <2> QED
    BY <2>2, <2>3
<1>4. "min" \in DOMAIN c =>
        (Digital(w) >= Limit("min", w) <=> Satisfies(v, "min", Declared("min")))
  BY <1>3 DEF Satisfies
<1>5. "max" \in DOMAIN c =>
        (Digital(w) <= Limit("max", w) <=> Satisfies(v, "max", Declared("max")))
  <2> SUFFICES ASSUME "max" \in DOMAIN c
               PROVE  Digital(w) <= Limit("max", w) <=> Parts(v) <= Declared("max") * Tens[Places]
    BY DEF Satisfies
  <2> DEFINE a == Digital(w)
             b == Limit("max", w)
             p == Parts(v)
             q == Declared("max") * Tens[Places]
  <2>1. /\ a > b <=> p > q
        /\ a \in Int /\ b \in Int /\ p \in Int /\ q \in Int
    BY <1>3
  <2> HIDE DEF a, b, p, q
  <2>2. a <= b <=> p <= q
    BY <2>1
  <2> QED
    BY <2>2 DEF a, b, p, q
<1>6. "exclusiveMin" \in DOMAIN c =>
        (Digital(w) > Limit("exclusiveMin", w) <=> Satisfies(v, "exclusiveMin", Declared("exclusiveMin")))
  BY <1>3 DEF Satisfies
<1>7. "exclusiveMax" \in DOMAIN c =>
        (Digital(w) < Limit("exclusiveMax", w) <=> Satisfies(v, "exclusiveMax", Declared("exclusiveMax")))
  <2> SUFFICES ASSUME "exclusiveMax" \in DOMAIN c
               PROVE  Digital(w) < Limit("exclusiveMax", w)
                        <=> Parts(v) < Declared("exclusiveMax") * Tens[Places]
    BY DEF Satisfies
  <2> DEFINE a == Digital(w)
             b == Limit("exclusiveMax", w)
             p == Parts(v)
             q == Declared("exclusiveMax") * Tens[Places]
  <2>1. /\ a >= b <=> p >= q
        /\ a \in Int /\ b \in Int /\ p \in Int /\ q \in Int
    BY <1>3
  <2> HIDE DEF a, b, p, q
  <2>2. a < b <=> p < q
    BY <2>1
  <2> QED
    BY <2>2 DEF a, b, p, q
<1>8. NumberFits(w) <=>
        /\ "min" \in DOMAIN c => Satisfies(v, "min", Declared("min"))
        /\ "max" \in DOMAIN c => Satisfies(v, "max", Declared("max"))
        /\ "exclusiveMin" \in DOMAIN c => Satisfies(v, "exclusiveMin", Declared("exclusiveMin"))
        /\ "exclusiveMax" \in DOMAIN c => Satisfies(v, "exclusiveMax", Declared("exclusiveMax"))
  BY <1>4, <1>5, <1>6, <1>7, Zenon DEF NumberFits, Declares
<1>9. DOMAIN c \subseteq {"min", "max", "exclusiveMin", "exclusiveMax"}
  BY <1>1 DEF Numeric
<1> HIDE DEF c, w
<1>10. NumberFits(w) <=> \A name \in DOMAIN c : Satisfies(v, name, Declared(name))
  BY <1>8, <1>9, Zenon
<1> QED
  BY <1>2, <1>10 DEF c, w

(* A value of the type of its field is stored if and only if it satisfies    *)
(* what the accepted definition declares of it, for every definition and     *)
(* every value.                                                              *)
THEOREM DeclaredIsWhatDecidesAlways == FieldSpec => []DeclaredIsWhatDecides
<1>1. FieldInv => DeclaredIsWhatDecides
  <2> SUFFICES ASSUME FieldInv, value # None
               PROVE  result # None <=>
                        /\ HasType(value)
                        /\ \A name \in DOMAIN definition.constraints :
                             (definition.many /\ name \notin OfItems)
                               \/ Satisfies(value, name, Declared(name))
    BY DEF DeclaredIsWhatDecides
  <2>1. /\ definition \in Definitions /\ Verdict = "accepted" /\ value \in ValuesOf(definition)
        /\ result = IF Accepts(value) THEN Returned(value) ELSE None
    BY DEF FieldInv
  <2>2. result # None <=> HasType(value) /\ ConstraintsHold(Returned(value))
    BY <2>1, NeverNone DEF Accepts
  <2>3. CASE definition.many
    BY <2>1, <2>2, <2>3, ItemsDecide
  <2>4. CASE ~definition.many
    <3>1. value \in Scalars(definition.type) /\ definition.type \in Types
      BY <2>1, <2>4, DefinitionsAre DEF ValuesOf
    <3>2. ConstraintsHold(Returned(value)) <=>
            \A name \in DOMAIN definition.constraints : Satisfies(value, name, Declared(name))
      <4>1. CASE definition.type.kind = "string"
        <5>1. value \in [length : Nat, matches : BOOLEAN]
          BY <3>1, <4>1, ScalarsAre
        <5> QED
          BY <2>1, <2>4, <4>1, <5>1, StringsDecide
      <4>2. CASE definition.type.kind # "string"
        BY <2>1, <2>4, <3>1, <4>2, NumbersDecide
      <4> QED
        BY <4>1, <4>2
    <3> QED
      BY <2>2, <2>4, <3>2
  <2> QED
    BY <2>3, <2>4
<1> QED
  BY <1>1, FieldInvAlways, PTL
=============================================================================
