------------------------ MODULE TraversePlanningProofs ------------------------
(***************************************************************************)
(* Theorems about the walk (NeighborTraversal), for every snapshot, every  *)
(* visibility and every depth: it stays in sight, it leaves nothing        *)
(* behind, what it selects is exactly the neighborhood that walks of less  *)
(* than maxDepth hops reach, and it is resolved iff that has one Binding.  *)
(* Then about a traverse that is planned with it (TraversePlanning): the   *)
(* plan is exact or can be told to be stale, for every registry, however   *)
(* it moves on.                                                            *)
(***************************************************************************)
EXTENDS TraversePlanning, TLAPS, WellFoundedInduction

\* Before the call is accepted nothing has been selected.
Unbegun == outcome = "called" => selected = {} /\ depth = 0

\* A call that got this far asked for a depth the code accepts.
Accepted == outcome = "expanding" => maxDepth \in 1..32

FrontierVisited == frontier \subseteq visited

IInv == TypeOK /\ Unbegun /\ Accepted /\ FrontierVisited /\ StaysInSight /\ NothingLeftBehind

LEMMA InitIInv == Init => IInv
  BY DEF Init, IInv, TypeOK, Unbegun, Accepted, FrontierVisited, StaysInSight, NothingLeftBehind

(* The inputs fix what touches a Collection and where a hop leads.           *)
LEMMA NeighborhoodIsOfInputs ==
  ASSUME UNCHANGED inputs
  PROVE  /\ \A c : Touching(c)' = Touching(c)
         /\ \A c, n : Hop(c, n)' <=> Hop(c, n)
         /\ Relations' = Relations
  BY DEF inputs, Touching, Hop, Relations, Neighbors

LEMMA BeginIInv == IInv /\ Begin => IInv'
<1> SUFFICES ASSUME IInv, Begin PROVE IInv'
  OBVIOUS
<1>1. frontier' = {start} /\ visited' = {start} /\ selected' = {} /\ depth' = 0
  BY DEF IInv, Begin, Unbegun
<1>2. /\ UNCHANGED inputs
      /\ outcome' \in {"ValueError", "ResourceNotFound", "expanding"}
      /\ outcome' = "expanding" => maxDepth \in 1..32
  BY DEF Begin
<1>3. TypeOK'
  BY <1>1, <1>2 DEF IInv, TypeOK, inputs
<1>4. StaysInSight' /\ NothingLeftBehind'
  BY <1>1, <1>2 DEF StaysInSight, NothingLeftBehind, inputs
<1> QED
  BY <1>1, <1>2, <1>3, <1>4 DEF IInv, Unbegun, Accepted, FrontierVisited, inputs

LEMMA ExpandIInv == IInv /\ Expand => IInv'
<1> SUFFICES ASSUME IInv, Expand PROVE IInv'
  OBVIOUS
<1>0. /\ outcome = "expanding" /\ depth < maxDepth
      /\ selected' = selected \cup UNION {Touching(c) : c \in frontier}
      /\ frontier' = {n \in Refs \ visited : \E c \in frontier : Hop(c, n)}
      /\ visited' = visited \cup frontier'
      /\ depth' = depth + 1
      /\ UNCHANGED inputs /\ UNCHANGED outcome
  BY DEF Expand
<1>1. /\ \A c : Touching(c)' = Touching(c)
      /\ \A c, n : Hop(c, n)' <=> Hop(c, n)
      /\ Relations' = Relations
  BY <1>0, NeighborhoodIsOfInputs
<1>2. TypeOK'
  <2>1. selected' \subseteq Refs
    BY <1>0 DEF IInv, TypeOK, Touching, Relations
  <2>2. depth' \in Nat /\ depth' <= maxDepth
    BY <1>0, DepthsAssumption DEF IInv, TypeOK
  <2>3. depth' <= 32
    BY <1>0, <2>2 DEF IInv, Accepted
  <2> QED
    BY <1>0, <2>1, <2>2, <2>3 DEF IInv, TypeOK, inputs
<1>3. StaysInSight'
  <2>1. visited' \ {start} \subseteq active \cap shown
    BY <1>0 DEF IInv, StaysInSight, Hop
  <2>2. \A r \in selected' : r \in Relations /\ r \in shown /\ \E c \in visited' : r \in Touching(c)
    <3> SUFFICES ASSUME NEW r \in selected'
                 PROVE  r \in Relations /\ r \in shown /\ \E c \in visited' : r \in Touching(c)
      OBVIOUS
    <3>1. CASE r \in selected
      BY <1>0, <3>1 DEF IInv, StaysInSight
    <3>2. CASE r \notin selected
      <4>1. PICK c \in frontier : r \in Touching(c)
        BY <1>0, <3>2
      <4>2. c \in visited'
        BY <1>0, <4>1 DEF IInv, FrontierVisited
      <4> QED
        BY <4>1, <4>2 DEF Touching
    <3> QED
      BY <3>1, <3>2
  <2> QED
    BY <1>0, <1>1, <2>1, <2>2 DEF StaysInSight, inputs
<1>4. NothingLeftBehind'
  <2> SUFFICES ASSUME NEW c \in visited' \ frontier'
               PROVE  /\ Touching(c) \subseteq selected'
                      /\ \A n \in Refs : Hop(c, n) => n \in visited'
    BY <1>1 DEF NothingLeftBehind
  <2>1. c \in visited
    BY <1>0
  <2>2. CASE c \in frontier
    BY <1>0, <2>2
  <2>3. CASE c \notin frontier
    BY <1>0, <2>1, <2>3 DEF IInv, NothingLeftBehind
  <2> QED
    BY <2>2, <2>3
<1> QED
  BY <1>0, <1>2, <1>3, <1>4 DEF IInv, Unbegun, Accepted, FrontierVisited, inputs

LEMMA FinishIInv == IInv /\ Finish => IInv'
<1> SUFFICES ASSUME IInv, Finish PROVE IInv'
  OBVIOUS
<1>0. /\ outcome' \in {"CapabilityMismatch", "resolved"}
      /\ UNCHANGED inputs /\ UNCHANGED <<frontier, visited, selected, depth>>
  BY DEF Finish
<1>1. /\ \A c : Touching(c)' = Touching(c)
      /\ \A c, n : Hop(c, n)' <=> Hop(c, n)
      /\ Relations' = Relations
  BY <1>0, NeighborhoodIsOfInputs
<1> QED
  BY <1>0, <1>1 DEF IInv, TypeOK, Unbegun, Accepted, FrontierVisited, StaysInSight,
                    NothingLeftBehind, inputs

LEMMA InvariantHolds == Spec => []IInv
<1>1. IInv /\ UNCHANGED vars => IInv'
  <2> SUFFICES ASSUME IInv, UNCHANGED vars PROVE IInv'
    OBVIOUS
  <2>1. UNCHANGED inputs /\ UNCHANGED <<frontier, visited, selected, depth, outcome>>
    BY DEF vars
  <2>2. /\ \A c : Touching(c)' = Touching(c)
        /\ \A c, n : Hop(c, n)' <=> Hop(c, n)
        /\ Relations' = Relations
    BY <2>1, NeighborhoodIsOfInputs
  <2> QED
    BY <2>1, <2>2 DEF IInv, TypeOK, Unbegun, Accepted, FrontierVisited, StaysInSight,
                      NothingLeftBehind, inputs
<1>2. IInv /\ [Next]_vars => IInv'
  BY <1>1, BeginIInv, ExpandIInv, FinishIInv DEF Next
<1> QED
  BY InitIInv, <1>2, PTL DEF Spec

(* Everything the loop has passed is expanded in full: the relations that    *)
(* touch it are selected and its neighbors visited.                          *)
THEOREM NothingLeftBehindAlways == Spec => []NothingLeftBehind
<1>1. IInv => NothingLeftBehind
  BY DEF IInv
<1> QED
  BY <1>1, InvariantHolds, PTL

(* Only visible, active Collections are visited, and only visible relations  *)
(* between visited Collections are selected.                                 *)
THEOREM StaysInSightAlways == Spec => []StaysInSight
<1>1. IInv => StaysInSight
  BY DEF IInv
<1> QED
  BY <1>1, InvariantHolds, PTL

(* A walk that ran out of Collections before it ran out of rounds has found  *)
(* all there is: what it visited is closed under hops, so a larger maxDepth  *)
(* would resolve to the same relations.                                      *)
Exhausted ==
  outcome \in {"resolved", "CapabilityMismatch"} /\ frontier = {} =>
    \A c \in visited : /\ Touching(c) \subseteq selected
                       /\ \A n \in Refs : Hop(c, n) => n \in visited

THEOREM ExhaustedAlways == Spec => []Exhausted
<1>1. IInv => Exhausted
  BY DEF IInv, NothingLeftBehind, Exhausted
<1> QED
  BY <1>1, InvariantHolds, PTL

-----------------------------------------------------------------------------
(* Walks *)

(* Walks of no hop lead to the start.                                        *)
LEMMA WithinZero ==
  ASSUME start \in Refs
  PROVE  Within(0) = {start}
<1>1. [i \in 0..0 |-> start] \in Walks(0)
  BY DEF Walks
<1>2. start \in Within(0)
  BY <1>1 DEF Within
<1>3. \A w \in Walks(0) : w[0] = start
  BY DEF Walks
<1> QED
  BY <1>2, <1>3 DEF Within

(* A walk may stay where it is, so longer walks lead to no less.             *)
LEMMA WithinGrows ==
  ASSUME NEW n \in Nat, NEW m \in Nat, n <= m
  PROVE  Within(n) \subseteq Within(m)
<1> SUFFICES ASSUME NEW w \in Walks(n) PROVE w[n] \in Within(m)
  BY DEF Within
<1> DEFINE u == [i \in 0..m |-> IF i <= n THEN w[i] ELSE w[n]]
<1>1. /\ w \in [0..n -> Refs] /\ w[0] = start
      /\ \A i \in 1..n : w[i] = w[i - 1] \/ Hop(w[i - 1], w[i])
  BY DEF Walks
<1>2. u \in [0..m -> Refs] /\ u[0] = start /\ u[m] = w[n]
  BY <1>1
<1>3. ASSUME NEW i \in 1..m PROVE u[i] = u[i - 1] \/ Hop(u[i - 1], u[i])
  <2>1. CASE i <= n
    <3>1. u[i] = w[i] /\ u[i - 1] = w[i - 1] /\ i \in 1..n
      BY <2>1
    <3> QED
      BY <1>1, <3>1
  <2>2. CASE ~(i <= n)
    <3>1. u[i] = w[n] /\ u[i - 1] = w[n]
      BY <2>2
    <3> QED
      BY <3>1
  <2> QED
    BY <2>1, <2>2
<1>4. u \in Walks(m)
  BY <1>2, <1>3 DEF Walks
<1> QED
  BY <1>2, <1>4 DEF Within

(* One more hop: where the walks led, and where one hop leads from there.    *)
LEMMA WithinNext ==
  ASSUME NEW n \in Nat
  PROVE  Within(n + 1) = Within(n) \cup {x \in Refs : \E c \in Within(n) : Hop(c, x)}
<1>1. ASSUME NEW w \in Walks(n + 1)
      PROVE  w[n + 1] \in Within(n) \cup {x \in Refs : \E c \in Within(n) : Hop(c, x)}
  <2> DEFINE u == [i \in 0..n |-> w[i]]
  <2>1. /\ w \in [0..(n + 1) -> Refs] /\ w[0] = start
        /\ \A i \in 1..(n + 1) : w[i] = w[i - 1] \/ Hop(w[i - 1], w[i])
    BY DEF Walks
  <2>2. u \in [0..n -> Refs] /\ u[0] = start /\ u[n] = w[n]
    BY <2>1
  <2>3. ASSUME NEW i \in 1..n PROVE u[i] = u[i - 1] \/ Hop(u[i - 1], u[i])
    <3>1. i \in 1..(n + 1) /\ u[i] = w[i] /\ u[i - 1] = w[i - 1]
      OBVIOUS
    <3> QED
      BY <2>1, <3>1
  <2>4. w[n] \in Within(n)
    BY <2>2, <2>3 DEF Walks, Within
  <2>5. w[n + 1] = w[n] \/ Hop(w[n], w[n + 1])
    <3>1. n + 1 \in 1..(n + 1) /\ (n + 1) - 1 = n
      OBVIOUS
    <3> QED
      BY <2>1, <3>1
  <2>6. w[n + 1] \in Refs
    BY <2>1
  <2> QED
    BY <2>4, <2>5, <2>6
<1>2. ASSUME NEW c \in Within(n), NEW x \in Refs, Hop(c, x) PROVE x \in Within(n + 1)
  <2>1. PICK w \in Walks(n) : c = w[n]
    BY <1>2 DEF Within
  <2> DEFINE u == [i \in 0..(n + 1) |-> IF i <= n THEN w[i] ELSE x]
  <2>2. /\ w \in [0..n -> Refs] /\ w[0] = start
        /\ \A i \in 1..n : w[i] = w[i - 1] \/ Hop(w[i - 1], w[i])
    BY DEF Walks
  <2>3. u \in [0..(n + 1) -> Refs] /\ u[0] = start /\ u[n + 1] = x
    BY <2>2
  <2>4. ASSUME NEW i \in 1..(n + 1) PROVE u[i] = u[i - 1] \/ Hop(u[i - 1], u[i])
    <3>1. CASE i <= n
      <4>1. u[i] = w[i] /\ u[i - 1] = w[i - 1] /\ i \in 1..n
        BY <3>1
      <4> QED
        BY <2>2, <4>1
    <3>2. CASE ~(i <= n)
      <4>1. u[i] = x /\ u[i - 1] = c
        BY <2>1, <3>2
      <4> QED
        BY <1>2, <4>1
    <3> QED
      BY <3>1, <3>2
  <2>5. u \in Walks(n + 1)
    BY <2>3, <2>4 DEF Walks
  <2> QED
    BY <2>3, <2>5 DEF Within
<1>3. Within(n) \subseteq Within(n + 1)
  BY WithinGrows
<1>4. Within(n + 1) \subseteq Within(n) \cup {x \in Refs : \E c \in Within(n) : Hop(c, x)}
  BY <1>1 DEF Within
<1> QED
  BY <1>2, <1>3, <1>4

(* A set of naturals has a least one.                                        *)
LEMMA LeastOfNaturals ==
  ASSUME NEW T \in SUBSET Nat, T # {}
  PROVE  \E i \in T : \A j \in T : i <= j
<1> DEFINE Before == {p \in Nat \X Nat : p[1] < p[2]}
<1>1. IsWellFoundedOn(Before, Nat)
  BY NatLessThanWellFounded DEF OpToRel, Before
<1>2. PICK i \in T : \A j \in T : <<j, i>> \notin Before
  BY <1>1, WFMin
<1>3. \A j \in T : ~(j < i)
  BY <1>2
<1> QED
  BY <1>3

(* Walks never leave a set of Collections that is closed under hops.         *)
LEMMA ClosedSetsHoldWalks ==
  ASSUME NEW S, start \in S, \A c \in S, x \in Refs : Hop(c, x) => x \in S,
         NEW n \in Nat
  PROVE  Within(n) \subseteq S
<1> SUFFICES ASSUME NEW w \in Walks(n), w[n] \notin S PROVE FALSE
  BY DEF Within
<1>1. /\ w \in [0..n -> Refs] /\ w[0] = start
      /\ \A i \in 1..n : w[i] = w[i - 1] \/ Hop(w[i - 1], w[i])
  BY DEF Walks
<1> DEFINE Out == {i \in 0..n : w[i] \notin S}
<1>2. n \in Out /\ Out \subseteq Nat
  OBVIOUS
<1>3. PICK i \in Out : \A j \in Out : i <= j
  BY <1>2, LeastOfNaturals
<1>4. i # 0 /\ i \in 1..n /\ i - 1 \in 0..n
  BY <1>1
<1>5. w[i - 1] \in S
  <2>1. i - 1 \notin Out
    BY <1>2, <1>3, <1>4
  <2> QED
    BY <1>4, <2>1
<1>6. w[i] \in Refs /\ (w[i] = w[i - 1] \/ Hop(w[i - 1], w[i]))
  BY <1>1, <1>4
<1> QED
  BY <1>5, <1>6

-----------------------------------------------------------------------------
(* The exact neighborhood *)

Ended == outcome \in {"resolved", "CapabilityMismatch"}

\* The rounds visit what walks of as many hops lead to, and have expanded what
\* walks of one hop less lead to.
Exact ==
  outcome = "expanding" \/ Ended =>
    /\ visited = Within(depth)
    /\ depth # 0 => visited \ frontier = Within(depth - 1)
    /\ depth = 0 => frontier = visited /\ frontier # {}
    /\ selected = UNION {Touching(c) : c \in visited \ frontier}

Concluded == Ended => maxDepth \in 1..32 /\ (depth = maxDepth \/ frontier = {})

EInv == IInv /\ Exact /\ Concluded

(* Where walks lead is fixed by the inputs.                                  *)
LEMMA WithinIsOfInputs ==
  ASSUME UNCHANGED inputs, NEW n
  PROVE  Within(n)' = Within(n)
<1>1. /\ \A c, x : Hop(c, x)' <=> Hop(c, x)
      /\ start' = start
  BY NeighborhoodIsOfInputs DEF inputs
<1>2. Walks(n)' = Walks(n)
  BY <1>1 DEF Walks
<1> QED
  BY <1>2 DEF Within

LEMMA BeginExact == IInv /\ Begin => Exact' /\ Concluded'
<1> SUFFICES ASSUME IInv, Begin PROVE Exact' /\ Concluded'
  OBVIOUS
<1>1. /\ frontier' = {start} /\ visited' = {start} /\ selected' = {} /\ depth' = 0
      /\ UNCHANGED inputs
      /\ outcome' \in {"ValueError", "ResourceNotFound", "expanding"}
  BY DEF IInv, Begin, Unbegun
<1>2. Within(0)' = {start}
  BY <1>1, WithinIsOfInputs, WithinZero DEF IInv, TypeOK
<1>3. visited' = Within(depth)'
  <2>1. Within(depth)' = Within(0)'
    BY <1>1 DEF Within, Walks
  <2> QED
    BY <1>1, <1>2, <2>1
<1> QED
  BY <1>1, <1>3 DEF Exact, Concluded, Ended

LEMMA ExpandExact == IInv /\ Exact /\ Expand => Exact' /\ Concluded'
<1> SUFFICES ASSUME IInv, Exact, Expand PROVE Exact' /\ Concluded'
  OBVIOUS
<1>0. /\ outcome = "expanding"
      /\ selected' = selected \cup UNION {Touching(c) : c \in frontier}
      /\ frontier' = {n \in Refs \ visited : \E c \in frontier : Hop(c, n)}
      /\ visited' = visited \cup frontier'
      /\ depth' = depth + 1
      /\ UNCHANGED inputs /\ UNCHANGED outcome
      /\ depth \in Nat /\ frontier \subseteq visited
  BY DEF Expand, IInv, TypeOK, FrontierVisited
<1>1. visited = Within(depth) /\ selected = UNION {Touching(c) : c \in visited \ frontier}
  BY <1>0 DEF Exact
<1>2. visited' = Within(depth + 1)
  <2>1. Within(depth + 1) = visited \cup {x \in Refs : \E c \in visited : Hop(c, x)}
    BY <1>0, <1>1, WithinNext
  <2>2. ASSUME NEW c \in visited, NEW x \in Refs, Hop(c, x), x \notin visited
        PROVE  c \in frontier
    BY <2>2 DEF IInv, NothingLeftBehind
  <2> QED
    BY <1>0, <2>1, <2>2
<1>3. visited' \ frontier' = visited
  BY <1>0
<1>4. Within(depth)' = Within(depth + 1)
  <2>1. /\ \A c, x : Hop(c, x)' <=> Hop(c, x)
        /\ start' = start
    BY <1>0, NeighborhoodIsOfInputs DEF inputs
  <2> QED
    BY <1>0, <2>1 DEF Within, Walks
<1>5. Within(depth - 1)' = Within(depth)
  <2>1. /\ \A c, x : Hop(c, x)' <=> Hop(c, x)
        /\ start' = start /\ depth' - 1 = depth
    BY <1>0, NeighborhoodIsOfInputs DEF inputs
  <2> QED
    BY <2>1 DEF Within, Walks
<1>6. selected' = UNION {Touching(c)' : c \in visited' \ frontier'}
  <2>1. \A c : Touching(c)' = Touching(c)
    BY <1>0, NeighborhoodIsOfInputs
  <2> QED
    BY <1>0, <1>1, <1>3, <2>1
<1>7. depth' # 0
  BY <1>0
<1> QED
  BY <1>0, <1>1, <1>2, <1>3, <1>4, <1>5, <1>6, <1>7 DEF Exact, Concluded, Ended

LEMMA FinishExact == EInv /\ Finish => Exact' /\ Concluded'
<1> SUFFICES ASSUME EInv, Finish PROVE Exact' /\ Concluded'
  OBVIOUS
<1>1. /\ outcome = "expanding" /\ outcome' \in {"CapabilityMismatch", "resolved"}
      /\ depth = maxDepth \/ frontier = {}
      /\ UNCHANGED inputs /\ UNCHANGED <<frontier, visited, selected, depth>>
  BY DEF Finish
<1>2. \A c : Touching(c)' = Touching(c)
  BY <1>1, NeighborhoodIsOfInputs
<1>3. /\ \A c, x : Hop(c, x)' <=> Hop(c, x)
      /\ start' = start /\ depth' = depth
  BY <1>1, NeighborhoodIsOfInputs DEF inputs
<1>4. Within(depth)' = Within(depth) /\ Within(depth - 1)' = Within(depth - 1)
  BY <1>3 DEF Within, Walks
<1>5. maxDepth' \in 1..32 /\ (depth' = maxDepth' \/ frontier' = {})
  BY <1>1 DEF EInv, IInv, Accepted, inputs
<1> QED
  BY <1>1, <1>2, <1>4, <1>5 DEF EInv, Exact, Concluded, Ended

LEMMA ExactStep == EInv /\ [Next]_vars => EInv'
<1>1. EInv /\ UNCHANGED vars => EInv'
  <2> SUFFICES ASSUME EInv, UNCHANGED vars PROVE EInv'
    OBVIOUS
  <2>1. UNCHANGED inputs /\ UNCHANGED <<frontier, visited, selected, depth, outcome>>
    BY DEF vars
  <2>2. /\ \A c : Touching(c)' = Touching(c)
        /\ \A c, n : Hop(c, n)' <=> Hop(c, n)
        /\ Relations' = Relations
    BY <2>1, NeighborhoodIsOfInputs
  <2>3. start' = start /\ depth' = depth /\ maxDepth' = maxDepth
    BY <2>1 DEF inputs
  <2>4. Within(depth)' = Within(depth) /\ Within(depth - 1)' = Within(depth - 1)
    BY <2>2, <2>3 DEF Within, Walks
  <2>5. IInv'
    BY <2>1, <2>2 DEF EInv, IInv, TypeOK, Unbegun, Accepted, FrontierVisited, StaysInSight,
                      NothingLeftBehind, inputs
  <2>6. Exact' /\ Concluded'
    BY <2>1, <2>2, <2>3, <2>4 DEF EInv, Exact, Concluded, Ended
  <2> QED
    BY <2>5, <2>6 DEF EInv
<1>2. EInv /\ Begin => EInv'
  BY BeginIInv, BeginExact DEF EInv
<1>3. EInv /\ Expand => EInv'
  BY ExpandIInv, ExpandExact DEF EInv
<1>4. EInv /\ Finish => EInv'
  BY FinishIInv, FinishExact DEF EInv
<1> QED
  BY <1>1, <1>2, <1>3, <1>4 DEF Next

LEMMA ExactInit == Init => EInv
<1>1. Init => Exact /\ Concluded
  BY DEF Init, Exact, Concluded, Ended
<1> QED
  BY <1>1, InitIInv DEF EInv

(* An ended walk has expanded the neighborhood and visited what one hop more *)
(* leads to: either it used all rounds, or it ran out of Collections, and    *)
(* then longer walks lead nowhere else.                                      *)
LEMMA EndedIsExact ==
  ASSUME EInv, Ended
  PROVE  /\ selected = UNION {Touching(c) : c \in Within(maxDepth - 1)}
         /\ visited = Within(maxDepth)
<1>1. /\ maxDepth \in 1..32 /\ depth \in Nat /\ start \in Refs
      /\ depth = maxDepth \/ frontier = {}
      /\ depth = 0 \/ depth <= maxDepth
  BY DEF EInv, IInv, TypeOK, Concluded
<1>2. depth # 0 /\ depth <= maxDepth
  BY <1>1 DEF EInv, Exact
<1>3. /\ visited \ frontier = Within(depth - 1)
      /\ visited = Within(depth)
      /\ selected = UNION {Touching(c) : c \in visited \ frontier}
  BY <1>2 DEF EInv, Exact
<1>4. Within(maxDepth - 1) = Within(depth - 1) /\ Within(maxDepth) = Within(depth)
  <2>1. CASE depth = maxDepth
    BY <2>1
  <2>2. CASE frontier = {}
    <3>1. Within(depth - 1) = visited
      BY <1>3, <2>2
    <3>2. \A c \in visited, x \in Refs : Hop(c, x) => x \in visited
      BY <2>2 DEF EInv, IInv, NothingLeftBehind
    <3>3. start \in visited
      <4>1. Within(0) \subseteq Within(depth)
        BY <1>1, WithinGrows
      <4> QED
        BY <1>1, <1>3, <4>1, WithinZero
    <3>4. maxDepth - 1 \in Nat /\ depth - 1 \in Nat /\ depth - 1 <= maxDepth - 1
      BY <1>1, <1>2
    <3>5. Within(maxDepth - 1) \subseteq visited
      BY <3>2, <3>3, <3>4, ClosedSetsHoldWalks
    <3>6. Within(depth - 1) \subseteq Within(maxDepth - 1)
      BY <3>4, WithinGrows
    <3>7. maxDepth \in Nat /\ depth <= maxDepth
      BY <1>1, <1>2
    <3>8. Within(maxDepth) \subseteq visited
      BY <3>2, <3>3, <3>7, ClosedSetsHoldWalks
    <3>9. Within(depth) \subseteq Within(maxDepth)
      BY <1>1, <3>7, WithinGrows
    <3> QED
      BY <1>3, <3>1, <3>5, <3>6, <3>8, <3>9
  <2> QED
    BY <1>1, <2>1, <2>2
<1> QED
  BY <1>3, <1>4

LEMMA ExactSelects == EInv => SelectsTheNeighborhood
  BY EndedIsExact DEF SelectsTheNeighborhood, Ended

(* What an ended walk has selected is exactly the visible relations of the   *)
(* Collections that walks of less than maxDepth hops lead to.                *)
THEOREM SelectsTheNeighborhoodAlways == Spec => []SelectsTheNeighborhood
<1> QED
  BY ExactInit, ExactStep, ExactSelects, PTL DEF Spec

\* What was selected and visited when the walk ended has decided on its answer.
Answered ==
  Ended =>
    (outcome = "resolved" <=>
       binding = Absent \/ \A ref \in selected \cup visited : binding[ref] = binding[start])

LEMMA AnsweredStep == Answered /\ [Next]_vars => Answered'
<1> SUFFICES ASSUME Answered, [Next]_vars  PROVE Answered'
  OBVIOUS
<1>1. CASE Begin \/ Expand
  BY <1>1 DEF Begin, Expand, Answered, Ended
<1>2. CASE Finish
  BY <1>2 DEF Finish, Answered, Ended, inputs
<1>3. CASE UNCHANGED vars
  BY <1>3 DEF vars, inputs, Answered, Ended
<1> QED
  BY <1>1, <1>2, <1>3 DEF Next

(* An ended walk is resolved iff everything that walks of up to maxDepth     *)
(* hops lead to, and every relation selected, has the Binding of the start,  *)
(* or no Binding is asked for: for every graph, depth and assignment.        *)
THEOREM BindingDecidesAlways == Spec => []BindingDecides
<1>1. Init => Answered
  BY DEF Init, Answered, Ended
<1>2. EInv /\ Answered => BindingDecides
  <2> SUFFICES ASSUME EInv, Answered, Ended  PROVE BindingDecides
    BY DEF BindingDecides, Ended
  <2>1. /\ selected = UNION {Touching(c) : c \in Within(maxDepth - 1)}
        /\ visited = Within(maxDepth)
    BY EndedIsExact
  <2> QED
    BY <2>1 DEF Answered, BindingDecides
<1> QED
  BY <1>1, <1>2, AnsweredStep, ExactInit, ExactStep, PTL DEF Spec

-----------------------------------------------------------------------------
(* Planning                                                                  *)

Neighborhood == UNION {Touching(c) : c \in Within(maxDepth - 1)}

Walking == outcome \notin {"planned", "InvalidDefinition"}

\* An Operation planned from allNeighbors is what the snapshot gives.
Planned ==
  outcome = "planned" /\ ask.all =>
    operation = [resources |-> {start} \cup Neighborhood, relations |-> Neighborhood,
                 registryFingerprint |-> Fingerprint(0, active, profile)]

PInv == (Walking => EInv) /\ Planned

-----------------------------------------------------------------------------
(* The neighborhood is one of the inputs, wherever planning has got to.      *)
LEMMA NeighborhoodKept ==
  ASSUME UNCHANGED inputs
  PROVE  Neighborhood' = Neighborhood
<1>1. /\ \A c : Touching(c)' = Touching(c)
      /\ \A c, x : Hop(c, x)' <=> Hop(c, x)
      /\ start' = start /\ maxDepth' = maxDepth
  BY NeighborhoodIsOfInputs DEF inputs
<1> QED
  BY <1>1 DEF Neighborhood, Within, Walks

LEMMA InitPInv == PlanInit => PInv
  BY ExactInit DEF PlanInit, PInv, Planned, Walking, Init

(* The invariant of the walk does not read what planning adds.               *)
LEMMA WalkKept == EInv /\ UNCHANGED vars => EInv'
  BY ExactStep

LEMMA PlannedKept ==
  ASSUME Planned, UNCHANGED inputs, UNCHANGED <<outcome, ask, operation>>
  PROVE  Planned'
<1>1. Neighborhood' = Neighborhood
  BY NeighborhoodKept
<1>2. active' = active /\ profile' = profile /\ start' = start
  BY DEF inputs
<1> QED
  BY <1>1, <1>2 DEF Planned, Fingerprint

\* The answer of the surface is one that a walk may have, too.
LEMMA SurfaceRefusesPInv == PInv /\ SurfaceRefuses => PInv'
<1> SUFFICES ASSUME PInv, SurfaceRefuses  PROVE PInv'
  OBVIOUS
<1>1. /\ outcome = "called" /\ outcome' = "ValueError"
      /\ UNCHANGED inputs /\ UNCHANGED <<frontier, visited, selected, depth>>
  BY DEF SurfaceRefuses, Planning
<1>2. EInv
  BY <1>1 DEF PInv, Walking
<1>3. /\ \A c : Touching(c)' = Touching(c)
      /\ \A c, n : Hop(c, n)' <=> Hop(c, n)
      /\ Relations' = Relations
  BY <1>1, NeighborhoodIsOfInputs
<1>4. IInv'
  BY <1>1, <1>2, <1>3 DEF EInv, IInv, TypeOK, Unbegun, Accepted, FrontierVisited, StaysInSight,
                          NothingLeftBehind, inputs
<1>5. Exact' /\ Concluded'
  BY <1>1 DEF Exact, Concluded, Ended
<1> QED
  BY <1>1, <1>4, <1>5 DEF PInv, EInv, Planned

LEMMA RefusePInv == PInv /\ Refuse => PInv'
  BY DEF Refuse, PInv, Walking, Planned

LEMMA PlanNamedPInv == PInv /\ PlanNamed => PInv'
  BY DEF PlanNamed, PInv, Walking, Planned

LEMMA ResolvePInv == PInv /\ Resolve => PInv'
<1> SUFFICES ASSUME PInv, Resolve PROVE PInv'
  OBVIOUS
<1>1. Next /\ outcome \in {"called", "expanding"} /\ outcome' # "planned"
  BY DEF Resolve, Next, Begin, Expand, Finish
<1>2. EInv
  BY <1>1 DEF PInv, Walking
<1> QED
  BY <1>1, <1>2, ExactStep DEF PInv, Planned

LEMMA PlanResolvedPInv == PInv /\ PlanResolved => PInv'
<1> SUFFICES ASSUME PInv, PlanResolved PROVE PInv'
  OBVIOUS
<1>1. /\ outcome = "resolved" /\ outcome' = "planned" /\ UNCHANGED inputs
      /\ operation' = [resources |-> {start} \cup selected, relations |-> selected,
                       registryFingerprint |-> Fingerprint(0, active, profile)]
  BY DEF PlanResolved, Plan, ResolvedAgainst
<1>2. selected = Neighborhood
  <2>1. SelectsTheNeighborhood
    BY <1>1, ExactSelects DEF PInv, Walking
  <2> QED
    BY <1>1, <2>1 DEF SelectsTheNeighborhood, Neighborhood
<1>3. Neighborhood' = Neighborhood
  BY <1>1, NeighborhoodKept
<1>4. active' = active /\ profile' = profile /\ start' = start
  BY <1>1 DEF inputs
<1> QED
  BY <1>1, <1>2, <1>3, <1>4 DEF PInv, Walking, Planned, Fingerprint

LEMMA MovePInv ==
  ASSUME PInv, NEW ref \in Refs, NEW toActive \in BOOLEAN, NEW toProfile \in Profiles \cup {Absent},
         Move(ref, toActive, toProfile)
  PROVE  PInv'
<1>1. UNCHANGED vars /\ UNCHANGED <<ask, operation>>
  BY DEF Move
<1>2. UNCHANGED inputs /\ UNCHANGED outcome
  BY <1>1 DEF vars
<1> QED
  BY <1>1, <1>2, WalkKept, PlannedKept DEF PInv, Walking

LEMMA PInvHolds == PlanSpec => []PInv
<1>1. PInv /\ UNCHANGED allVars => PInv'
  <2> SUFFICES ASSUME PInv, UNCHANGED allVars PROVE PInv'
    OBVIOUS
  <2>1. UNCHANGED vars /\ UNCHANGED <<ask, operation>>
    BY DEF allVars, planVars
  <2>2. UNCHANGED inputs /\ UNCHANGED outcome
    BY <2>1 DEF vars
  <2> QED
    BY <2>1, <2>2, WalkKept, PlannedKept DEF PInv, Walking
<1>2. PInv /\ [PlanNext]_allVars => PInv'
  BY <1>1, SurfaceRefusesPInv, RefusePInv, PlanNamedPInv, ResolvePInv, PlanResolvedPInv, MovePInv DEF PlanNext
<1> QED
  BY InitPInv, <1>2, PTL DEF PlanSpec

(* An Operation planned from allNeighbors names the relations a walk would   *)
(* select now, or its registryFingerprint is not that of the present         *)
(* registry, for every registry and every way it moves on after the snapshot.*)
THEOREM StalenessAlwaysShows == PlanSpec => []StalenessShows
<1>1. PInv => StalenessShows
  <2> SUFFICES ASSUME PInv, outcome = "planned", ask.all, operation.registryFingerprint = present
               PROVE  /\ operation.relations = UNION {Now!Touching(c) : c \in Now!Within(maxDepth - 1)}
                      /\ operation.resources = operation.relations \cup {start}
    BY DEF StalenessShows
  <2>1. /\ operation.relations = Neighborhood
        /\ operation.resources = {start} \cup Neighborhood
        /\ operation.registryFingerprint = Fingerprint(0, active, profile)
    BY DEF PInv, Planned
  <2>2. present.active = active /\ present.profile = profile
    BY <2>1 DEF Fingerprint
  <2>3. \A c : Now!Touching(c) = Touching(c)
    BY <2>2 DEF Touching, Now!Touching, Relations, Now!Relations, Neighbors, Now!Neighbors
  <2>4. \A c, x : Now!Hop(c, x) <=> Hop(c, x)
    BY <2>2, <2>3 DEF Hop, Now!Hop, Neighbors, Now!Neighbors
  <2>5. Now!Within(maxDepth - 1) = Within(maxDepth - 1)
    BY <2>4 DEF Within, Now!Within, Walks, Now!Walks
  <2> QED
    BY <2>1, <2>3, <2>5 DEF Neighborhood
<1> QED
  BY <1>1, PInvHolds, PTL
=============================================================================
