--------------------------- MODULE MCSemanticVersions ---------------------------
(* The versions SemVer 2.0 orders in its section 11, with one more identifier  *)
(* ("1a": digits and a letter) and a build.                                     *)
EXTENDS SemanticVersions

Word(place)           == [digits |-> FALSE, number |-> 0, text |-> place]
Number(number, place) == [digits |-> TRUE, number |-> number, text |-> place]

\* In the order of their texts: "1" "11" "1a" "2" "alpha" "beta" "rc".
One   == Number(1, 1)
Elf   == Number(11, 2)
OneA  == Word(3)
Two   == Number(2, 4)
Alpha == Word(5)
Beta  == Word(6)
Rc    == Word(7)

MCIdentifiers == {One, Elf, OneA, Two, Alpha, Beta, Rc}

VersionOf(minor, prerelease, build) ==
  [major |-> 1, minor |-> minor, patch |-> 0, prerelease |-> prerelease, build |-> build]

NoBuild == ""
Build   == "b"

\* Ascending; the versions of one set have the same precedence.
Precedence == <<
  {VersionOf(0, <<Alpha>>, NoBuild)},
  {VersionOf(0, <<Alpha, One>>, NoBuild), VersionOf(0, <<Alpha, One>>, Build)},
  {VersionOf(0, <<Alpha, Beta>>, NoBuild)},
  {VersionOf(0, <<Beta>>, NoBuild)},
  {VersionOf(0, <<Beta, Two>>, NoBuild)},
  {VersionOf(0, <<Beta, Elf>>, NoBuild)},
  {VersionOf(0, <<Beta, OneA>>, NoBuild)},
  {VersionOf(0, <<Rc, One>>, NoBuild)},
  {VersionOf(0, <<>>, NoBuild), VersionOf(0, <<>>, Build)},
  {VersionOf(1, <<Alpha>>, NoBuild)},
  {VersionOf(1, <<>>, NoBuild)}>>

MCVersions == UNION {Precedence[i] : i \in DOMAIN Precedence}

Place(v) == CHOOSE i \in DOMAIN Precedence : v \in Precedence[i]

\* The precedence is the one of SemVer 2.0, as canonical.py 142 has it: those
\* of these versions that are published are so in its order, and each pair once.
PrecedenceIsSemVer ==
  \A i, j \in DOMAIN published :
    i < j /\ {published[i], published[j]} \subseteq MCVersions
      => Place(published[i]) < Place(published[j])
=============================================================================
