--------------------------- MODULE SemanticVersions ---------------------------
(***************************************************************************)
(* The precedence of SemVer versions (canonical.py 139-222), and how the   *)
(* registry uses it: publish_schema (publication.py 219-230) looks for the *)
(* latest version with max() over a dictionary and compares only that one  *)
(* with the new version.  MetadataRepository takes the precedence as a     *)
(* number; here it is computed.                                            *)
(***************************************************************************)
EXTENDS Integers, Sequences

CONSTANTS
  Identifiers,  \* of prereleases: whether all digits, the number, and the place
                \* among all identifiers compared as text
  Versions,     \* parsed versions that are published
  Absent        \* None

\* "1" and "01" are no two identifiers: parse refuses leading zeroes.
ASSUME IdentifiersAssumption ==
  /\ Identifiers \subseteq [digits : BOOLEAN, number : Nat, text : Int]
  /\ \A a, b \in Identifiers :
       a # b => IF a.digits /\ b.digits THEN a.number # b.number ELSE a.text # b.text

Version == [major : Nat, minor : Nat, patch : Nat, prerelease : Seq(Identifiers), build : STRING]

ASSUME VersionsAssumption == Versions \subseteq Version /\ Absent \notin Version

VARIABLES
  published,  \* the versions of one Schema: the keys of a dictionary, in their order
  candidate,  \* the version that is being published, or Absent
  at,         \* how many of the published ones max() has looked at
  latest      \* the greatest of those

vars == <<published, candidate, at, latest>>

Distinct(s) == \A i, j \in DOMAIN s : s[i] = s[j] => i = j

\* Nothing of one publication is left for the next.
TypeOK ==
  /\ published \in Seq(Versions) /\ Distinct(published)
  /\ candidate \in Versions \cup {Absent}
  /\ at \in 0..Len(published)
  /\ latest = Absent \/ latest \in {published[i] : i \in 1..at}
  /\ latest = Absent <=> at = 0
  /\ candidate = Absent => at = 0

-----------------------------------------------------------------------------
(* SemanticVersion *)

ReleaseLess(u, v) ==
  \/ u.major < v.major
  \/ u.major = v.major /\ u.minor < v.minor
  \/ u.major = v.major /\ u.minor = v.minor /\ u.patch < v.patch

SameRelease(u, v) == u.major = v.major /\ u.minor = v.minor /\ u.patch = v.patch

\* Mutant: a number and a text are compared as texts.
IdentifierLessText(a, b) ==
  IF a.digits /\ b.digits THEN a.number < b.number ELSE a.text < b.text

IdentifierLess(a, b) ==
  IF a.digits /\ b.digits     THEN a.number < b.number
  ELSE IF a.digits # b.digits THEN a.digits
                              ELSE a.text < b.text

\* The first place in which two prereleases differ.
DifferAt(left, right, i) ==
  /\ i \in DOMAIN left /\ i \in DOMAIN right /\ left[i] # right[i]
  /\ \A j \in 1..(i - 1) : left[j] = right[j]

Prefix(left, right) ==
  Len(left) < Len(right) /\ \A j \in DOMAIN left : left[j] = right[j]

\* Mutant: a release comes before its prereleases.
PrereleaseLessAsTuples(left, right) ==
  \/ \E i \in DOMAIN left : DifferAt(left, right, i) /\ IdentifierLess(left[i], right[i])
  \/ Prefix(left, right)

\* _prerelease_less: a release comes after its prereleases.
PrereleaseLess(left, right) ==
  /\ left # <<>>
  /\ \/ right = <<>>
     \/ \E i \in DOMAIN left : DifferAt(left, right, i) /\ IdentifierLess(left[i], right[i])
     \/ Prefix(left, right)

\* __lt__ and __eq__: the build counts for nothing.
Less(u, v) ==
  \/ ReleaseLess(u, v)
  \/ SameRelease(u, v) /\ PrereleaseLess(u.prerelease, v.prerelease)

Same(u, v) == SameRelease(u, v) /\ u.prerelease = v.prerelease

\* What total_ordering makes of them.
Greater(u, v)   == ~Less(u, v) /\ ~Same(u, v)
LessOrSame(u, v) == Less(u, v) \/ Same(u, v)

-----------------------------------------------------------------------------
Init ==
  /\ published = <<>>
  /\ candidate = Absent /\ at = 0 /\ latest = Absent

\* publish_schema calls _latest, include_deprecated=True.
Publish(v) ==
  /\ candidate = Absent
  /\ v \notin {published[i] : i \in DOMAIN published}
  /\ candidate' = v
  /\ UNCHANGED <<published, at, latest>>

\* One round of max(), which keeps the first of equals.
Scan ==
  /\ candidate # Absent /\ at < Len(published)
  /\ at' = at + 1
  /\ latest' = IF latest = Absent \/ Greater(published[at + 1], latest)
                 THEN published[at + 1] ELSE latest
  /\ UNCHANGED <<published, candidate>>

\* Mutant: only a lower version is refused.
ConflictsIfBelow == latest # Absent /\ Less(candidate, latest)

Conflicts == latest # Absent /\ LessOrSame(candidate, latest)

Decide ==
  /\ candidate # Absent /\ at = Len(published)
  /\ published' = IF Conflicts THEN published ELSE Append(published, candidate)
  /\ candidate' = Absent /\ at' = 0 /\ latest' = Absent

Next ==
  \/ \E v \in Versions : Publish(v)
  \/ Scan
  \/ Decide

Spec == Init /\ [][Next]_vars

-----------------------------------------------------------------------------
(* What holds *)

\* The versions of a Schema ascend in the order in which they were published,
\* although each was compared with one other only (publication.py 220-221):
\* the precedence is transitive, and two versions that differ in their build
\* are not published both.
PublishedAscend ==
  \A j \in DOMAIN published : \A i \in 1..(j - 1) : Less(published[i], published[j])

\* What max() keeps is no lower than any version it has looked at: the order
\* that total_ordering derives from __lt__ and __eq__ is total.
LatestIsHighest ==
  \A i \in 1..at : LessOrSame(published[i], latest)
=============================================================================
