--------------------------- MODULE PlanRulesProofs ---------------------------
(***************************************************************************)
(* What the compiler's rules give the runner, for every draft the parser   *)
(* can hand over and every limit: a plan it accepts is a layered graph, no *)
(* two of its steps or children share an id, it stays within the budget,   *)
(* and the order of its stored steps extends the order of their needs.     *)
(*                                                                         *)
(* The argument: the rounds that place the steps grow (Rising), so the     *)
(* first round that reaches a set of steps holds one that needs none of    *)
(* them; the ids of units are distinct because there are as many, the ids  *)
(* of children because a foreach's are compared and a loop's are spelled   *)
(* as no author can.                                                       *)
(***************************************************************************)
EXTENDS PlanRules, FiniteSetTheorems, SequenceTheorems, TLAPS

-----------------------------------------------------------------------------
(* Numbers.                                                                 *)

\* A set of numbers that is not empty has a least one.
LEMMA LeastOne ==
  ASSUME NEW S \in SUBSET Nat, S # {}
  PROVE  \E m \in S : \A n \in S : m <= n
<1>1. IsWellFoundedOn(OpToRel(<, Nat), Nat)
  BY NatLessThanWellFounded
<1>2. PICK m \in S : \A y \in S : ~(<<y, m>> \in OpToRel(<, Nat))
  BY <1>1, WFMin
<1>3. \A n \in S : ~(n < m)
  BY <1>2 DEF OpToRel
<1> QED
  BY <1>3

\* The item and the stage of the p-th child are within bounds, and p is determined by them.
LEMMA ItemAndStage ==
  ASSUME NEW n \in Nat, NEW c \in Nat, NEW p \in 1 .. c * n
  PROVE  /\ n > 0 /\ c > 0
         /\ ((p - 1) \div n) + 1 \in 1 .. c
         /\ ((p - 1) % n) + 1 \in 1 .. n
         /\ p = n * ((p - 1) \div n) + ((p - 1) % n) + 1
<1>1. n > 0 /\ c > 0
  OBVIOUS
<1> DEFINE q == (p - 1) \div n
           r == (p - 1) % n
<1>2. q \in Nat /\ r \in 0 .. n - 1 /\ p - 1 = n * q + r
  BY <1>1
<1> HIDE DEF q, r
<1>3. q < c
  <2>1. SUFFICES ASSUME q >= c PROVE FALSE
    BY <1>2
  <2>2. n * q >= n * c
    BY <2>1, <1>1, <1>2
  <2>3. n * c = c * n /\ n * q \in Nat
    BY <1>2
  <2> QED
    BY <2>2, <2>3, <1>2
<1> QED
  BY <1>1, <1>2, <1>3 DEF q, r

-----------------------------------------------------------------------------
(* Units and ids.                                                           *)

\* A draft has finitely many units, each a step and one of at most MaxRepeat copies.
LEMMA UnitsFinite ==
  ASSUME NEW d, Parsed(d), Accepts(d)
  PROVE  /\ \A u \in Units(d) : /\ u = <<u[1], u[2]>>
                                /\ u[1] \in DOMAIN d.steps /\ u[2] \in 1 .. Times(d.steps[u[1]])
                                /\ u[2] \in 1 .. MaxRepeat
         /\ \A i \in DOMAIN d.steps : \A n \in 1 .. Times(d.steps[i]) : <<i, n>> \in Units(d)
         /\ IsFiniteSet(Units(d)) /\ Cardinality(Units(d)) \in Nat
<1>1. \A i \in DOMAIN d.steps : Times(d.steps[i]) \in Nat /\ Times(d.steps[i]) <= MaxRepeat
  <2>1. TAKE i \in DOMAIN d.steps
  <2>2. d.steps[i].count \in Nat /\ Shape(d.steps[i])
    BY DEF Parsed, Accepts
  <2>3. d.steps[i].flow = "repeat" => d.steps[i].count \in 1 .. MaxRepeat
    BY <2>2 DEF Shape, StepShape, WaitShape, EventShape, ChildShape, LoopShape, Loops,
                ForeachShape, RepeatShape
  <2> QED
    BY <2>2, <2>3, LimitsAssumption DEF Times
<1>2. \A u \in Units(d) : \E i \in DOMAIN d.steps : \E n \in 1 .. Times(d.steps[i]) : u = <<i, n>>
  BY DEF Units
<1>3. \A u \in Units(d) : /\ u = <<u[1], u[2]>>
                          /\ u[1] \in DOMAIN d.steps /\ u[2] \in 1 .. Times(d.steps[u[1]])
                          /\ u[2] \in 1 .. MaxRepeat
  BY <1>1, <1>2, LimitsAssumption
<1>4. \A i \in DOMAIN d.steps : \A n \in 1 .. Times(d.steps[i]) : <<i, n>> \in Units(d)
  BY DEF Units
<1>5. IsFiniteSet(DOMAIN d.steps) /\ IsFiniteSet(1 .. MaxRepeat)
  <2>1. Len(d.steps) \in Int /\ MaxRepeat \in Int /\ DOMAIN d.steps = 1 .. Len(d.steps)
    BY LimitsAssumption DEF Parsed
  <2> QED
    BY <2>1, FS_Interval
<1>6. IsFiniteSet((DOMAIN d.steps) \X (1 .. MaxRepeat))
  BY <1>5, FS_Product
<1>7. Units(d) \in SUBSET ((DOMAIN d.steps) \X (1 .. MaxRepeat))
  BY <1>3
<1>8. IsFiniteSet(Units(d))
  BY <1>6, <1>7, FS_Subset
<1> QED
  BY <1>3, <1>4, <1>8, FS_CardinalityType

\* As many ids as units: the id of a unit is its own, and Unit finds it again.
LEMMA UnitIdsDiffer ==
  ASSUME NEW d, Parsed(d), Accepts(d)
  PROVE  /\ \A u, v \in Units(d) : UnitId(d, u) = UnitId(d, v) => u = v
         /\ \A u \in Units(d) : UnitId(d, u) \in Ids(d) /\ Unit(d, UnitId(d, u)) = u
         /\ \A k \in Ids(d) : Unit(d, k) \in Units(d) /\ UnitId(d, Unit(d, k)) = k
         /\ IsFiniteSet(Ids(d)) /\ Cardinality(Ids(d)) = Cardinality(Units(d))
<1> DEFINE f == [u \in Units(d) |-> UnitId(d, u)]
<1>1. f \in Surjection(Units(d), Ids(d))
  BY DEF Surjection, Ids
<1>2. IsFiniteSet(Units(d))
  BY UnitsFinite
<1>3. IsFiniteSet(Ids(d)) /\ Cardinality(Ids(d)) = Cardinality(Units(d))
  BY <1>1, <1>2, FS_Surjection DEF Accepts, DistinctIds
<1>4. f \in Injection(Units(d), Ids(d))
  BY <1>1, <1>2, <1>3, FS_SurjSameCardinalityImpliesInj
<1>5. \A u, v \in Units(d) : UnitId(d, u) = UnitId(d, v) => u = v
  BY <1>4 DEF Injection, IsInjective
<1>6. \A k \in Ids(d) : \E u \in Units(d) : UnitId(d, u) = k
  BY DEF Ids
<1>7. \A k \in Ids(d) : Unit(d, k) \in Units(d) /\ UnitId(d, Unit(d, k)) = k
  BY <1>6 DEF Unit
<1>8. \A u \in Units(d) : UnitId(d, u) \in Ids(d)
  BY DEF Ids
<1> QED
  BY <1>3, <1>5, <1>7, <1>8

-----------------------------------------------------------------------------
(* Layers.                                                                  *)

\* The rounds exist: what is placed after n rounds are the steps whose needs were before.
LEMMA PlacedRounds ==
  ASSUME NEW d, Parsed(d), Accepts(d)
  PROVE  LET N == Cardinality(Units(d))
             P == Placed(d)
         IN  /\ P \in [0 .. N -> SUBSET Ids(d)]
             /\ P[0] = {}
             /\ \A n \in 1 .. N : P[n] = {k \in Ids(d) : Needs(d, k) \subseteq P[n - 1]}
             /\ P[N] = Ids(d)
             /\ \A n \in 1 .. N : Cardinality(P[n] \ P[n - 1]) <= MaxParallel
<1> DEFINE N == Cardinality(Units(d))
           Round(S) == {k \in Ids(d) : Needs(d, k) \subseteq S}
           Rounds(m, f) == f = [n \in 0 .. m |-> IF n = 0 THEN {} ELSE Round(f[n - 1])]
<1>n. N \in Nat
  BY UnitsFinite
<1>1. \E f : Rounds(N, f)
  <2> DEFINE Exist(m) == \E f : Rounds(m, f)
             Missing == {m \in 0 .. N : ~Exist(m)}
  <2> HIDE DEF Exist, Round
  <2>1. SUFFICES ASSUME Missing # {} PROVE FALSE
    BY <1>n DEF Exist
  <2>2. PICK m \in Missing : \A n \in Missing : m <= n
    <3>1. Missing \in SUBSET Nat
      BY <1>n
    <3> HIDE DEF Missing
    <3> QED BY <2>1, <3>1, LeastOne
  <2>3. m # 0
    <3>1. Rounds(0, [n \in 0 .. 0 |-> {}])
      OBVIOUS
    <3>2. Exist(0)
      BY <3>1 DEF Exist
    <3> QED BY <3>2
  <2>4. m - 1 \in 0 .. N /\ Exist(m - 1)
    BY <2>2, <2>3, <1>n
  <2>5. PICK f : Rounds(m - 1, f)
    BY <2>4 DEF Exist
  <2> DEFINE g == [n \in 0 .. m |-> IF n < m THEN f[n] ELSE Round(f[m - 1])]
  <2>6. \A n \in 0 .. m - 1 : f[n] = IF n = 0 THEN {} ELSE Round(f[n - 1])
    BY <2>5
  <2>7. \A n \in 0 .. m : g[n] = IF n = 0 THEN {} ELSE Round(g[n - 1])
    BY <2>6, <2>3, <1>n
  <2>8. Rounds(m, g)
    BY <2>7
  <2>9. Exist(m)
    BY <2>8 DEF Exist
  <2> QED
    BY <2>9
<1>2. Rounds(N, Placed(d))
  <2>1. Placed(d) = CHOOSE f : Rounds(N, f)
    BY DEF Placed
  <2> QED
    BY <1>1, <2>1
<1>3. \A n \in 0 .. N : Placed(d)[n] = IF n = 0 THEN {} ELSE Round(Placed(d)[n - 1])
  BY <1>2
<1>4. DOMAIN Placed(d) = 0 .. N
  BY <1>2
<1>5. \A n \in 0 .. N : Placed(d)[n] \in SUBSET Ids(d)
  BY <1>3
<1>6. Placed(d) \in [0 .. N -> SUBSET Ids(d)]
  BY <1>2, <1>5
<1>7. Ordered(d)
  BY DEF Accepts
<1>8. /\ Placed(d)[N] = Ids(d)
      /\ \A n \in 1 .. N : Cardinality(Placed(d)[n] \ Placed(d)[n - 1]) <= MaxParallel
  BY <1>7 DEF Ordered
<1> QED
  BY <1>3, <1>6, <1>8, <1>n

\* What is placed stays placed.
LEMMA PlacedRises ==
  ASSUME NEW d, Parsed(d), Accepts(d),
         NEW m \in 0 .. Cardinality(Units(d)), NEW n \in 0 .. Cardinality(Units(d)), m <= n
  PROVE  Placed(d)[m] \subseteq Placed(d)[n]
<1> DEFINE N == Cardinality(Units(d))
           P == Placed(d)
<1>n. N \in Nat
  BY UnitsFinite
<1>p. /\ P[0] = {} /\ P \in [0 .. N -> SUBSET Ids(d)]
      /\ \A i \in 1 .. N : P[i] = {k \in Ids(d) : Needs(d, k) \subseteq P[i - 1]}
  BY PlacedRounds
<1> HIDE DEF N, P
<1>1. \A i \in 1 .. N : P[i - 1] \subseteq P[i]
  <2> DEFINE Shrinks == {i \in 1 .. N : ~(P[i - 1] \subseteq P[i])}
  <2>1. SUFFICES ASSUME Shrinks # {} PROVE FALSE
    OBVIOUS
  <2>2. Shrinks \in SUBSET Nat
    BY <1>n
  <2>3. PICK i \in Shrinks : \A j \in Shrinks : i <= j
    <3> HIDE DEF Shrinks
    <3> QED BY <2>1, <2>2, LeastOne
  <2>4. i # 1
    BY <1>p, <2>3
  <2>5. i - 1 \in 1 .. N /\ i - 1 \notin Shrinks /\ i \in 1 .. N
    BY <2>3, <2>4, <1>n
  <2>6. P[i - 2] \subseteq P[i - 1]
    BY <2>5
  <2>7. P[i - 1] = {k \in Ids(d) : Needs(d, k) \subseteq P[i - 2]}
    <3>1. (i - 1) - 1 = i - 2
      BY <2>5
    <3> QED BY <2>5, <1>p, <3>1
  <2>8. P[i] = {k \in Ids(d) : Needs(d, k) \subseteq P[i - 1]}
    BY <2>5, <1>p
  <2>9. P[i - 1] \subseteq P[i]
    BY <2>6, <2>7, <2>8
  <2> QED
    BY <2>9, <2>3
<1>2. \A i \in m .. N : P[m] \subseteq P[i]
  <2> DEFINE Loses == {i \in m .. N : ~(P[m] \subseteq P[i])}
  <2>1. SUFFICES ASSUME Loses # {} PROVE FALSE
    OBVIOUS
  <2>2. Loses \in SUBSET Nat
    BY <1>n DEF N
  <2>3. PICK i \in Loses : \A j \in Loses : i <= j
    <3> HIDE DEF Loses
    <3> QED BY <2>1, <2>2, LeastOne
  <2>4. i # m
    BY <2>3
  <2>5. i - 1 \in m .. N /\ i - 1 \notin Loses /\ i \in 1 .. N
    BY <2>3, <2>4, <1>n DEF N
  <2>6. P[m] \subseteq P[i - 1] /\ P[i - 1] \subseteq P[i]
    BY <2>5, <1>1
  <2> QED
    BY <2>6, <2>3
<1> QED
  BY <1>2, <1>n DEF N, P

\* The first round that places one of some steps.
LEMMA FirstRound ==
  ASSUME NEW d, Parsed(d), Accepts(d), NEW S \in SUBSET Ids(d), S # {}
  PROVE  \E n \in 1 .. Cardinality(Units(d)) :
            /\ Placed(d)[n] \cap S # {}
            /\ \A m \in 0 .. n - 1 : Placed(d)[m] \cap S = {}
<1> DEFINE N == Cardinality(Units(d))
           P == Placed(d)
           Reach == {n \in 0 .. N : P[n] \cap S # {}}
<1>n. N \in Nat
  BY UnitsFinite
<1>1. P[N] = Ids(d) /\ P[0] = {}
  BY PlacedRounds
<1> HIDE DEF N, P
<1>2. Reach # {} /\ Reach \in SUBSET Nat /\ 0 \notin Reach
  BY <1>1, <1>n
<1>3. PICK n \in Reach : \A m \in Reach : n <= m
  <2> HIDE DEF Reach
  <2> QED BY <1>2, LeastOne
<1>4. n \in 1 .. N /\ P[n] \cap S # {}
  BY <1>2, <1>3, <1>n
<1>5. \A m \in 0 .. n - 1 : m \in 0 .. N /\ m \notin Reach
  BY <1>3, <1>4, <1>n
<1> QED
  BY <1>4, <1>5 DEF N, P

\* The needs of an accepted plan have no cycle: of any steps, one needs none of the others.
LEMMA AcceptedAcyclic ==
  ASSUME NEW d, Parsed(d), Accepts(d)
  PROVE  Acyclic(d)
<1>1. SUFFICES ASSUME NEW S \in (SUBSET Ids(d)) \ {{}}
               PROVE  \E k \in S : Needs(d, k) \cap S = {}
  BY DEF Acyclic
<1> DEFINE N == Cardinality(Units(d))
           P == Placed(d)
<1>2. PICK n \in 1 .. N : P[n] \cap S # {} /\ \A m \in 0 .. n - 1 : P[m] \cap S = {}
  <2>1. S \in SUBSET Ids(d) /\ S # {}
    BY <1>1
  <2> QED BY <2>1, FirstRound
<1>n. N \in Nat
  BY UnitsFinite
<1>3. P[n] = {k \in Ids(d) : Needs(d, k) \subseteq P[n - 1]}
  BY PlacedRounds
<1>4. P[n - 1] \cap S = {}
  BY <1>2, <1>n
<1> HIDE DEF N, P
<1> QED
  BY <1>2, <1>3, <1>4

-----------------------------------------------------------------------------
(* The order of the stored steps.                                           *)

Earlier(d, k) == {j \in Ids(d) : Before(d, Placed(d), j, k)}

\* The steps a step needs are stored before it.
LEMMA NeedsAreEarlier ==
  ASSUME NEW d, Parsed(d), Accepts(d), NEW k \in Ids(d)
  PROVE  Needs(d, k) \subseteq Earlier(d, k) /\ Needs(d, k) \subseteq Ids(d) \ {k}
<1> DEFINE N == Cardinality(Units(d))
           P == Placed(d)
<1>n. N \in Nat
  BY UnitsFinite
<1>1. Needs(d, k) \subseteq Ids(d) \ {k}
  BY UnitIdsDiffer DEF Needs, Accepts, ClosedNeeds
<1>2. PICK n \in 1 .. N : P[n] \cap {k} # {} /\ \A m \in 0 .. n - 1 : P[m] \cap {k} = {}
  <2>1. {k} \in SUBSET Ids(d) /\ {k} # {}
    OBVIOUS
  <2> QED BY <2>1, FirstRound
<1>3. P[n] = {j \in Ids(d) : Needs(d, j) \subseteq P[n - 1]} /\ DOMAIN P = 0 .. N
  BY PlacedRounds
<1> HIDE DEF N, P
<1>4. n - 1 \in 0 .. N /\ k \notin P[n - 1] /\ Needs(d, k) \subseteq P[n - 1]
  BY <1>2, <1>3, <1>n
<1>5. \A j \in Needs(d, k) : Before(d, P, j, k)
  BY <1>3, <1>4 DEF Before
<1> QED
  BY <1>1, <1>5 DEF Earlier, P

\* Of two steps one is stored before the other.
LEMMA EarlierIsTotal ==
  ASSUME NEW d, Parsed(d), Accepts(d), NEW j \in Ids(d), NEW k \in Ids(d), j # k
  PROVE  j \in Earlier(d, k) \/ k \in Earlier(d, j)
<1> DEFINE P == Placed(d)
<1>1. CASE \E n \in DOMAIN P : ~(j \in P[n] <=> k \in P[n])
  BY <1>1 DEF Earlier, Before
<1>2. CASE \A n \in DOMAIN P : j \in P[n] <=> k \in P[n]
  <2> DEFINE u == Unit(d, j)
             v == Unit(d, k)
  <2>1. u \in Units(d) /\ v \in Units(d) /\ u # v
    BY UnitIdsDiffer
  <2> HIDE DEF u, v
  <2>2. /\ u = <<u[1], u[2]>> /\ v = <<v[1], v[2]>>
        /\ u[1] \in DOMAIN d.steps /\ v[1] \in DOMAIN d.steps
        /\ u[2] \in 1 .. MaxRepeat /\ v[2] \in 1 .. MaxRepeat
    BY <2>1, UnitsFinite
  <2>3. u[1] \in Nat /\ v[1] \in Nat /\ u[2] \in Nat /\ v[2] \in Nat
    BY <2>2 DEF Parsed
  <2>4. u[1] # v[1] \/ u[2] # v[2]
    BY <2>1, <2>2
  <2>5. WrittenBefore(u, v) \/ WrittenBefore(v, u)
    BY <2>3, <2>4 DEF WrittenBefore
  <2> QED
    BY <1>2, <2>5 DEF Earlier, Before, u, v
<1> QED
  BY <1>1, <1>2

\* Of any steps, one is stored before all the others.
LEMMA EarliestOfAll ==
  ASSUME NEW d, Parsed(d), Accepts(d), NEW S \in SUBSET Ids(d), S # {}
  PROVE  \E k \in S : Earlier(d, k) \cap S = {}
<1> DEFINE N == Cardinality(Units(d))
           P == Placed(d)
           I(k) == Unit(d, k)[1]
           C(k) == Unit(d, k)[2]
<1>n. N \in Nat /\ DOMAIN P = 0 .. N
  BY UnitsFinite, PlacedRounds
<1>1. \A k \in S : I(k) \in Nat /\ C(k) \in Nat
  <2> SUFFICES ASSUME NEW k \in S PROVE I(k) \in Nat /\ C(k) \in Nat
    OBVIOUS
  <2>1. Unit(d, k) \in Units(d)
    BY UnitIdsDiffer
  <2>2. I(k) \in DOMAIN d.steps /\ C(k) \in 1 .. MaxRepeat
    BY <2>1, UnitsFinite
  <2>3. MaxRepeat \in Nat
    BY LimitsAssumption
  <2> QED
    BY <2>2, <2>3 DEF Parsed
<1>2. PICK n \in 1 .. N : P[n] \cap S # {} /\ \A m \in 0 .. n - 1 : P[m] \cap S = {}
  BY FirstRound
<1>3. \A m \in n .. N : P[n] \subseteq P[m]
  BY <1>n, PlacedRises
<1> DEFINE First == P[n] \cap S
           Is == {I(k) : k \in First}
<1>4. PICK i \in Is : \A x \in Is : i <= x
  <2>1. Is \in SUBSET Nat /\ Is # {}
    BY <1>1, <1>2
  <2> HIDE DEF Is
  <2> QED BY <2>1, LeastOne
<1> DEFINE Cs == {C(k) : k \in {j \in First : I(j) = i}}
<1>5. PICK c \in Cs : \A x \in Cs : c <= x
  <2>1. Cs \in SUBSET Nat /\ Cs # {}
    BY <1>1, <1>4
  <2> HIDE DEF Cs
  <2> QED BY <2>1, LeastOne
<1>6. PICK k \in First : I(k) = i /\ C(k) = c
  BY <1>5
<1> HIDE DEF N, P, I, C
<1>7. \A j \in S : ~Before(d, P, j, k)
  <2> SUFFICES ASSUME NEW j \in S, Before(d, P, j, k) PROVE FALSE
    OBVIOUS
  <2>1. CASE \E m \in DOMAIN P : j \in P[m] /\ k \notin P[m]
    <3>1. PICK m \in 0 .. N : j \in P[m] /\ k \notin P[m]
      BY <2>1, <1>n
    <3>2. m < n
      BY <3>1, <1>3, <1>6, <1>n
    <3>3. m \in 0 .. n - 1
      BY <3>1, <3>2
    <3> QED
      BY <3>1, <3>3, <1>2
  <2>2. CASE /\ \A m \in DOMAIN P : j \in P[m] <=> k \in P[m]
             /\ WrittenBefore(Unit(d, j), Unit(d, k))
    <3>1. j \in First
      BY <2>2, <1>6, <1>n
    <3>2. I(j) < i \/ (I(j) = i /\ C(j) < c)
      BY <2>2, <1>6 DEF WrittenBefore, I, C
    <3>3. I(j) \in Is /\ (I(j) = i => C(j) \in Cs)
      BY <3>1
    <3>4. I(j) \in Nat /\ C(j) \in Nat /\ i \in Nat /\ c \in Nat
      BY <1>1, <1>6
    <3> QED
      BY <3>2, <3>3, <3>4, <1>4, <1>5
  <2> QED
    BY <2>1, <2>2 DEF Before
<1> QED
  BY <1>6, <1>7 DEF Earlier, P

-----------------------------------------------------------------------------
(* The ids of children, and the budget.                                     *)

\* What has children: a foreach, or a loop with one template; at most MaxRepeat times them.
LEMMA ControllersFit ==
  ASSUME NEW d, Parsed(d), Accepts(d), NEW i \in DOMAIN d.steps,
         d.steps[i].flow = "foreach" \/ Loops(d.steps[i])
  PROVE  /\ d.steps[i].count \in 1 .. MaxRepeat
         /\ DOMAIN d.steps[i].kids = 1 .. Len(d.steps[i].kids)
         /\ Len(d.steps[i].kids) \in 1 .. MaxStages
         /\ Loops(d.steps[i]) => Len(d.steps[i].kids) = 1 /\ d.steps[i].flow # "foreach"
         /\ <<i, 1>> \in Units(d) /\ UnitId(d, <<i, 1>>) = d.steps[i].id
<1> DEFINE s == d.steps[i]
<1>1. Shape(s)
  BY DEF Accepts
<1>2. s.flow = "foreach" \/ s.flow = "while" \/ s.flow = "until"
  BY DEF Loops
<1>3. DOMAIN s.kids = 1 .. Len(s.kids) /\ Len(s.kids) \in Nat
  BY DEF Parsed
<1>4. MaxStages \in Nat /\ MaxStages > 0 /\ MaxRepeat \in Nat
  BY LimitsAssumption
<1>5. ForeachShape(s) \/ LoopShape(s)
  BY <1>1, <1>2 DEF Shape, StepShape, WaitShape, EventShape, ChildShape, RepeatShape
<1>6. s.count \in 1 .. MaxRepeat /\ Len(s.kids) \in 1 .. MaxStages
  <2>1. /\ s.count \in 1 .. MaxRepeat
        /\ OneStage(s) \/ ManyStages(s) \/ Len(s.kids) = 1
    BY <1>5 DEF ForeachShape, LoopShape
  <2>2. Len(s.kids) = 1 \/ Len(s.kids) \in 2 .. MaxStages
    BY <2>1 DEF OneStage, ManyStages
  <2>3. \A n : n = 1 \/ n \in 2 .. MaxStages => n \in 1 .. MaxStages
    BY <1>4
  <2> QED
    BY <2>1, <2>2, <2>3
<1>7. Loops(s) => Len(s.kids) = 1 /\ s.flow # "foreach"
  BY <1>5 DEF Loops, LoopShape, ForeachShape
<1>8. Times(s) = 1
  BY <1>2 DEF Times
<1>9. <<i, 1>> \in Units(d)
  BY <1>8, UnitsFinite
<1>10. UnitId(d, <<i, 1>>) = s.id
  BY <1>2 DEF UnitId, Source
<1> QED
  BY <1>3, <1>6, <1>7, <1>9, <1>10

\* A stage emits, reads or runs a Task.
LEMMA StagesMayBe ==
  ASSUME NEW d, Parsed(d), Accepts(d), NEW i \in DOMAIN d.steps,
         d.steps[i].flow = "foreach" \/ Loops(d.steps[i])
  PROVE  \A j \in DOMAIN d.steps[i].kids : d.steps[i].kids[j].uses \in StageUses
<1> DEFINE s == d.steps[i]
<1>1. Shape(s)
  BY DEF Accepts
<1>2. DOMAIN s.kids = 1 .. Len(s.kids)
  BY DEF Parsed
<1>3. ForeachShape(s) \/ LoopShape(s)
  BY <1>1 DEF Loops, Shape, StepShape, WaitShape, EventShape, ChildShape, RepeatShape
<1>4. CASE LoopShape(s)
  <2>1. Len(s.kids) = 1 /\ s.kids[1].uses \in StageUses
    BY <1>4 DEF LoopShape, StageUses
  <2>2. DOMAIN s.kids = {1}
    BY <1>2, <2>1
  <2> QED BY <2>1, <2>2
<1>5. CASE ForeachShape(s)
  <2>1. OneStage(s) \/ ManyStages(s)
    BY <1>5 DEF ForeachShape
  <2>2. CASE OneStage(s)
    <3>1. Len(s.kids) = 1 /\ s.kids[1].uses \in StageUses
      BY <2>2 DEF OneStage
    <3>2. DOMAIN s.kids = {1}
      BY <1>2, <3>1
    <3> QED BY <3>1, <3>2
  <2>3. CASE ManyStages(s)
    BY <2>3 DEF ManyStages
  <2> QED BY <2>1, <2>2, <2>3
<1> QED
  BY <1>3, <1>4, <1>5

\* Only a foreach, and a loop whose body reads, have children of their own.
LEMMA KidsAreOfControllers ==
  ASSUME NEW d, Parsed(d), Accepts(d), NEW i \in DOMAIN d.steps, NEW p \in Kids(d.steps[i])
  PROVE  /\ d.steps[i].flow = "foreach" \/ Loops(d.steps[i])
         /\ d.steps[i].flow # "foreach" => d.steps[i].kids[1].uses = "mcp.read"
         /\ p = <<p[1], p[2]>>
         /\ p[1] \in 1 .. d.steps[i].count /\ p[1] \in 1 .. 8 /\ p[2] \in DOMAIN d.steps[i].kids
<1>1. /\ d.steps[i].flow = "foreach" \/ Loops(d.steps[i])
      /\ d.steps[i].flow # "foreach" => d.steps[i].kids[1].uses = "mcp.read"
      /\ p \in (1 .. d.steps[i].count) \X DOMAIN d.steps[i].kids
  BY DEF Kids
<1>2. d.steps[i].count \in 1 .. MaxRepeat /\ MaxRepeat \in Nat /\ MaxRepeat <= 8
  BY <1>1, ControllersFit, LimitsAssumption
<1> QED
  BY <1>1, <1>2

\* A foreach spells the id of a child with an author's tokens, a loop with one no author has.
LEMMA ForeachKidId ==
  ASSUME NEW d, Parsed(d), Accepts(d), NEW i \in DOMAIN d.steps, d.steps[i].flow = "foreach",
         NEW p \in Kids(d.steps[i])
  PROVE  KidId(d.steps[i], p) \in Seq(Token)
<1>1. d.steps[i].id \in Seq(Token)
  BY DEF Parsed
<1>2. p[1] \in 1 .. 8 /\ p[2] \in DOMAIN d.steps[i].kids
  BY KidsAreOfControllers
<1>3. d.steps[i].kids[p[2]].id \in Seq(Token)
  BY <1>2 DEF Parsed
<1>4. Digit[p[1]] \in Token
  BY <1>2, LimitsAssumption
<1>5. Append(d.steps[i].id, Digit[p[1]]) \in Seq(Token)
  BY <1>1, <1>4
<1>6. Append(d.steps[i].id, Digit[p[1]]) \o d.steps[i].kids[p[2]].id \in Seq(Token)
  BY <1>3, <1>5
<1> QED
  BY <1>6 DEF KidId

\* The child a loop creates for a round has the reserved token in its id.
LEMMA LoopKidId ==
  ASSUME NEW d, Parsed(d), Accepts(d), NEW i \in DOMAIN d.steps, d.steps[i].flow # "foreach",
         NEW p \in Kids(d.steps[i])
  PROVE  LET s == d.steps[i]
             k == KidId(s, p)
         IN  /\ k \in Seq(Token \cup {":loop:read:"}) /\ s.id \in Seq(Token)
             /\ Len(k) = Len(s.id) + 2
             /\ k[Len(s.id) + 1] = ":loop:read:" /\ k[Len(s.id) + 2] = Digit[p[1]]
             /\ \A n \in 1 .. Len(s.id) : k[n] = s.id[n]
             /\ k \notin Seq(Token)
             /\ p[2] = 1
<1> DEFINE s == d.steps[i]
           t == <<":loop:read:", Digit[p[1]]>>
<1>1. s.id \in Seq(Token)
  BY DEF Parsed
<1>2. p[1] \in 1 .. 8 /\ p[2] = 1
  <2>1. p[1] \in 1 .. 8 /\ p[2] \in DOMAIN d.steps[i].kids /\ Loops(d.steps[i])
    BY KidsAreOfControllers
  <2>2. DOMAIN d.steps[i].kids = 1 .. Len(d.steps[i].kids) /\ Len(d.steps[i].kids) = 1
    BY <2>1, ControllersFit
  <2> QED BY <2>1, <2>2
<1> DEFINE Char == Token \cup {":loop:read:"}
<1>3. Digit[p[1]] \in Char
  BY <1>2, LimitsAssumption
<1>4. t \in Seq(Char) /\ Len(t) = 2 /\ t[1] = ":loop:read:" /\ t[2] = Digit[p[1]]
  <2>1. ":loop:read:" \in Char
    OBVIOUS
  <2> HIDE DEF Char
  <2> QED BY <1>3, <2>1
<1>5. s.id \in Seq(Char)
  <2>1. Token \subseteq Char
    OBVIOUS
  <2> QED
    BY <1>1, <2>1, SeqMonotonic
<1> DEFINE k == s.id \o t
<1>6. /\ k \in Seq(Token \cup {":loop:read:"}) /\ Len(k) = Len(s.id) + Len(t)
      /\ \A n \in 1 .. Len(s.id) + Len(t) :
            k[n] = IF n <= Len(s.id) THEN s.id[n] ELSE t[n - Len(s.id)]
  <2> HIDE DEF t, s
  <2> QED BY <1>4, <1>5, ConcatProperties
<1>l. Len(s.id) \in Nat
  BY <1>5
<1> HIDE DEF t, k
<1>7. Len(k) = Len(s.id) + 2 /\ k[Len(s.id) + 1] = ":loop:read:" /\ k[Len(s.id) + 2] = Digit[p[1]]
  <2> DEFINE L == Len(s.id)
  <2> HIDE DEF L
  <2>1. L \in Nat /\ Len(k) = L + 2
    BY <1>4, <1>6, <1>l DEF L
  <2>2. /\ L + 1 \in 1 .. L + 2 /\ ~(L + 1 <= L) /\ (L + 1) - L = 1
        /\ L + 2 \in 1 .. L + 2 /\ ~(L + 2 <= L) /\ (L + 2) - L = 2
    BY <2>1
  <2>3. \A n \in 1 .. L + 2 : k[n] = IF n <= L THEN s.id[n] ELSE t[n - L]
    BY <1>4, <1>6 DEF L
  <2>4. k[L + 1] = t[1] /\ k[L + 2] = t[2]
    BY <2>2, <2>3
  <2> QED
    BY <2>1, <2>4, <1>4 DEF L
<1>8. \A n \in 1 .. Len(s.id) : k[n] = s.id[n]
  BY <1>4, <1>6, <1>l
<1>9. k \notin Seq(Token)
  <2>1. SUFFICES ASSUME k \in Seq(Token) PROVE FALSE
    OBVIOUS
  <2>2. k[Len(s.id) + 1] \in Token
    BY <2>1, <1>7, <1>l, ElementOfSeq
  <2> QED
    BY <2>2, <1>7 DEF Token
<1>10. KidId(s, p) = k
  BY DEF KidId, k, t
<1> QED
  BY <1>1, <1>2, <1>6, <1>7, <1>8, <1>9, <1>10

\* No two children have the same id, whoever they are the children of.
LEMMA KidIdsDiffer ==
  ASSUME NEW d, Parsed(d), Accepts(d), NEW i \in DOMAIN d.steps, NEW j \in DOMAIN d.steps,
         NEW p \in Kids(d.steps[i]), NEW q \in Kids(d.steps[j]),
         KidId(d.steps[i], p) = KidId(d.steps[j], q)
  PROVE  i = j /\ p = q
<1> DEFINE s == d.steps[i]
           t == d.steps[j]
           k == KidId(s, p)
<1>1. CASE s.flow = "foreach" /\ t.flow = "foreach"
  <2>1. i \in Foreaches(d) /\ j \in Foreaches(d)
    BY <1>1 DEF Foreaches
  <2>2. <<i, p>> = <<j, q>>
    BY <2>1 DEF Accepts, DistinctIds
  <2> QED
    BY <2>2
<1>2. CASE s.flow = "foreach" /\ t.flow # "foreach"
  <2>1. k \in Seq(Token)
    BY <1>2, ForeachKidId
  <2>2. KidId(t, q) \notin Seq(Token)
    BY <1>2, LoopKidId
  <2> QED
    BY <2>1, <2>2
<1>3. CASE s.flow # "foreach" /\ t.flow = "foreach"
  <2>1. KidId(t, q) \in Seq(Token)
    BY <1>3, ForeachKidId
  <2>2. k \notin Seq(Token)
    BY <1>3, LoopKidId
  <2> QED
    BY <2>1, <2>2
<1>4. CASE s.flow # "foreach" /\ t.flow # "foreach"
  <2>1. /\ Len(k) = Len(s.id) + 2 /\ s.id \in Seq(Token)
        /\ k[Len(s.id) + 2] = Digit[p[1]]
        /\ \A n \in 1 .. Len(s.id) : k[n] = s.id[n]
        /\ p[2] = 1
    BY <1>4, LoopKidId
  <2>2. /\ Len(k) = Len(t.id) + 2 /\ t.id \in Seq(Token)
        /\ k[Len(t.id) + 2] = Digit[q[1]]
        /\ \A n \in 1 .. Len(t.id) : k[n] = t.id[n]
        /\ q[2] = 1
    BY <1>4, LoopKidId
  <2> HIDE DEF k
  <2>3. Len(s.id) = Len(t.id) /\ Len(s.id) \in Nat
    <3>1. Len(s.id) \in Nat /\ Len(t.id) \in Nat
      BY <2>1, <2>2
    <3> QED BY <3>1, <2>1, <2>2
  <2>4. s.id = t.id
    BY <2>1, <2>2, <2>3, SeqEqual
  <2>5. i = j
    <3>1. Loops(s) /\ Loops(t)
      BY <1>4, KidsAreOfControllers
    <3>2. <<i, 1>> \in Units(d) /\ UnitId(d, <<i, 1>>) = s.id
      BY <3>1, ControllersFit
    <3>3. <<j, 1>> \in Units(d) /\ UnitId(d, <<j, 1>>) = t.id
      BY <3>1, ControllersFit
    <3>4. <<i, 1>> = <<j, 1>>
      BY <2>4, <3>2, <3>3, UnitIdsDiffer
    <3> QED
      BY <3>4
  <2>6. p[1] \in 1 .. 8 /\ q[1] \in 1 .. 8 /\ p = <<p[1], p[2]>> /\ q = <<q[1], q[2]>>
    BY KidsAreOfControllers
  <2>7. Digit[p[1]] = Digit[q[1]]
    BY <2>1, <2>2, <2>3
  <2>8. p[1] = q[1]
    <3>1. \A m, n \in 1 .. 8 : Digit[m] = Digit[n] => m = n
      <4>1. SUFFICES ASSUME NEW m \in 1 .. 8, NEW n \in 1 .. 8, Digit[m] = Digit[n] PROVE m = n
        OBVIOUS
      <4>2. m \in {1, 2, 3, 4, 5, 6, 7, 8} /\ n \in {1, 2, 3, 4, 5, 6, 7, 8}
        OBVIOUS
      <4> QED
        BY <4>1, <4>2 DEF Digit
    <3> QED
      BY <3>1, <2>6, <2>7
  <2> QED
    BY <2>1, <2>2, <2>5, <2>6, <2>8
<1> QED
  BY <1>1, <1>2, <1>3, <1>4

\* The rows a plan may need are no more than the budget reserves, and every one has its id.
LEMMA BudgetCovers ==
  ASSUME NEW d, Parsed(d), Accepts(d)
  PROVE  /\ IsFiniteSet(Keys(d))
         /\ Cardinality(Keys(d)) <= MaxSteps
         /\ Cardinality(Keys(d)) = Cardinality(AllKeys(d))
<1> DEFINE U == {<<"unit", u>> : u \in Units(d)}
           K == UNION {{<<"kid", i, kid>> : kid \in Kids(d.steps[i])} : i \in DOMAIN d.steps}
           R == Reserved(d)
           Room == (DOMAIN d.steps) \X (1 .. MaxRepeat) \X (1 .. MaxStages)
<1>1. IsFiniteSet(Units(d)) /\ Cardinality(Units(d)) \in Nat
  BY UnitsFinite
<1>2. IsFiniteSet(U) /\ Cardinality(U) = Cardinality(Units(d))
  <2> DEFINE f == [u \in Units(d) |-> <<"unit", u>>]
  <2>1. f \in Bijection(Units(d), U)
    BY DEF Bijection, Injection, IsInjective, Surjection
  <2> QED
    BY <2>1, <1>1, FS_Bijection DEF ExistsBijection
<1>3. IsFiniteSet(R) /\ Cardinality(R) \in Nat
  <2>1. Len(d.steps) \in Int /\ MaxRepeat \in Int /\ MaxStages \in Int
        /\ DOMAIN d.steps = 1 .. Len(d.steps)
    BY LimitsAssumption DEF Parsed
  <2>2. IsFiniteSet(DOMAIN d.steps) /\ IsFiniteSet(1 .. MaxRepeat) /\ IsFiniteSet(1 .. MaxStages)
    BY <2>1, FS_Interval
  <2>3. IsFiniteSet((1 .. MaxRepeat) \X (1 .. MaxStages))
    BY <2>2, FS_Product
  <2> DEFINE Inner == (DOMAIN d.steps) \X ((1 .. MaxRepeat) \X (1 .. MaxStages))
             g == [r \in R |-> <<r[1], <<r[2], r[3]>>>>]
  <2>4. IsFiniteSet(Inner)
    BY <2>2, <2>3, FS_Product
  <2>5. \A r \in R : /\ r = <<r[1], r[2], r[3]>> /\ r[1] \in DOMAIN d.steps
                     /\ r[2] \in 1 .. MaxRepeat /\ r[3] \in 1 .. MaxStages
    <3>1. SUFFICES ASSUME NEW i \in DOMAIN d.steps,
                          d.steps[i].flow = "foreach" \/ Loops(d.steps[i]),
                          NEW n \in 1 .. d.steps[i].count, NEW m \in DOMAIN d.steps[i].kids
                   PROVE  n \in 1 .. MaxRepeat /\ m \in 1 .. MaxStages
      BY DEF Reserved
    <3>2. d.steps[i].count \in 1 .. MaxRepeat /\ DOMAIN d.steps[i].kids = 1 .. Len(d.steps[i].kids)
          /\ Len(d.steps[i].kids) \in 1 .. MaxStages
      BY <3>1, ControllersFit
    <3> QED
      BY <2>1, <3>2
  <2>6. g \in Injection(R, Inner)
    <3>1. g \in [R -> Inner]
      BY <2>5
    <3>2. \A a, b \in R : g[a] = g[b] => a = b
      BY <2>5
    <3> HIDE DEF g
    <3> QED
      BY <3>1, <3>2 DEF Injection, IsInjective
  <2>7. IsFiniteSet(R)
    BY <2>4, <2>6, FS_Injection
  <2> QED
    BY <2>7, FS_CardinalityType
<1>4. IsFiniteSet(K) /\ Cardinality(K) <= Cardinality(R)
  <2> DEFINE g == [x \in K |-> <<x[2], x[3][1], x[3][2]>>]
  <2>1. \A x \in K : /\ x = <<"kid", x[2], x[3]>> /\ x[3] = <<x[3][1], x[3][2]>>
                     /\ <<x[2], x[3][1], x[3][2]>> \in R
    <3>1. SUFFICES ASSUME NEW i \in DOMAIN d.steps, NEW kid \in Kids(d.steps[i])
                   PROVE  kid = <<kid[1], kid[2]>> /\ <<i, kid[1], kid[2]>> \in R
      OBVIOUS
    <3>2. /\ d.steps[i].flow = "foreach" \/ Loops(d.steps[i])
          /\ kid = <<kid[1], kid[2]>>
          /\ kid[1] \in 1 .. d.steps[i].count /\ kid[2] \in DOMAIN d.steps[i].kids
      BY KidsAreOfControllers
    <3> QED
      BY <3>2 DEF Reserved
  <2> HIDE DEF K, R
  <2>2. g \in [K -> R]
    BY <2>1
  <2>3. \A x, y \in K : g[x] = g[y] => x = y
    BY <2>1
  <2>4. g \in Injection(K, R)
    <3> HIDE DEF g
    <3> QED BY <2>2, <2>3 DEF Injection, IsInjective
  <2> QED
    BY <2>4, <1>3, FS_Injection
<1>5. /\ IsFiniteSet(AllKeys(d)) /\ Cardinality(AllKeys(d)) \in Nat
      /\ Cardinality(AllKeys(d)) <= Cardinality(U) + Cardinality(K)
  <2>1. AllKeys(d) = U \cup K
    BY DEF AllKeys
  <2>2. IsFiniteSet(U \cap K)
    BY <1>2, FS_Intersection
  <2>3. /\ Cardinality(U \cap K) \in Nat /\ Cardinality(U) \in Nat /\ Cardinality(K) \in Nat
    BY <1>2, <1>4, <2>2, FS_CardinalityType
  <2> HIDE DEF U, K
  <2>4. /\ IsFiniteSet(U \cup K)
        /\ Cardinality(U \cup K) = Cardinality(U) + Cardinality(K) - Cardinality(U \cap K)
    BY <1>2, <1>4, FS_Union
  <2> QED
    BY <2>1, <2>3, <2>4, FS_CardinalityType
<1>6. IsFiniteSet(Keys(d)) /\ Cardinality(Keys(d)) = Cardinality(AllKeys(d))
  <2> DEFINE h == [x \in AllKeys(d) |-> IF x[1] = "unit" THEN UnitId(d, x[2])
                                        ELSE KidId(d.steps[x[2]], x[3])]
  <2>1. \A x \in AllKeys(d) :
           \/ \E u \in Units(d) : x = <<"unit", u>> /\ h[x] = UnitId(d, u) /\ h[x] \in Ids(d)
           \/ \E i \in DOMAIN d.steps : \E kid \in Kids(d.steps[i]) :
                 /\ x = <<"kid", i, kid>> /\ h[x] = KidId(d.steps[i], kid) /\ h[x] \in KidIds(d)
    <3>1. SUFFICES ASSUME NEW x \in AllKeys(d)
                   PROVE  \/ \E u \in Units(d) : /\ x = <<"unit", u>> /\ h[x] = UnitId(d, u)
                                                  /\ h[x] \in Ids(d)
                          \/ \E i \in DOMAIN d.steps : \E kid \in Kids(d.steps[i]) :
                                /\ x = <<"kid", i, kid>> /\ h[x] = KidId(d.steps[i], kid)
                                /\ h[x] \in KidIds(d)
      OBVIOUS
    <3>2. CASE x \in U
      BY <3>2 DEF Ids
    <3>3. CASE x \in K
      BY <3>3 DEF KidIds
    <3> QED
      BY <3>2, <3>3 DEF AllKeys
  <2>2. \A u \in Units(d) : <<"unit", u>> \in AllKeys(d) /\ h[<<"unit", u>>] = UnitId(d, u)
    BY DEF AllKeys
  <2>3. \A i \in DOMAIN d.steps : \A kid \in Kids(d.steps[i]) :
           <<"kid", i, kid>> \in AllKeys(d) /\ h[<<"kid", i, kid>>] = KidId(d.steps[i], kid)
    BY DEF AllKeys
  <2>d. DOMAIN h = AllKeys(d) /\ h = [x \in AllKeys(d) |-> h[x]]
    OBVIOUS
  <2> HIDE DEF h
  <2>4. h \in [AllKeys(d) -> Keys(d)]
    <3>1. \A x \in AllKeys(d) : h[x] \in Keys(d)
      BY <2>1 DEF Keys
    <3> QED BY <3>1, <2>d
  <2>5. \A y \in Keys(d) : \E x \in AllKeys(d) : h[x] = y
    <3>1. SUFFICES ASSUME NEW y \in Keys(d) PROVE \E x \in AllKeys(d) : h[x] = y
      OBVIOUS
    <3>2. CASE y \in Ids(d)
      BY <3>2, <2>2 DEF Ids
    <3>3. CASE y \in KidIds(d)
      <4>1. PICK i \in DOMAIN d.steps : \E kid \in Kids(d.steps[i]) : y = KidId(d.steps[i], kid)
        BY <3>3 DEF KidIds
      <4> QED BY <4>1, <2>3
    <3> QED BY <3>2, <3>3 DEF Keys
  <2>6. \A x, y \in AllKeys(d) : h[x] = h[y] => x = y
    <3>1. SUFFICES ASSUME NEW x \in AllKeys(d), NEW y \in AllKeys(d), h[x] = h[y] PROVE x = y
      OBVIOUS
    <3>2. KidIds(d) \cap Ids(d) = {}
      BY DEF Accepts, DistinctIds
    <3>3. CASE h[x] \in Ids(d)
      <4>1. PICK u \in Units(d) : x = <<"unit", u>> /\ h[x] = UnitId(d, u)
        BY <2>1, <3>2, <3>3
      <4>2. PICK v \in Units(d) : y = <<"unit", v>> /\ h[y] = UnitId(d, v)
        BY <2>1, <3>1, <3>2, <3>3
      <4> QED BY <4>1, <4>2, <3>1, UnitIdsDiffer
    <3>4. CASE h[x] \notin Ids(d)
      <4>1. PICK i \in DOMAIN d.steps : \E kid \in Kids(d.steps[i]) :
               x = <<"kid", i, kid>> /\ h[x] = KidId(d.steps[i], kid)
        BY <2>1, <3>4
      <4>2. PICK j \in DOMAIN d.steps : \E kid \in Kids(d.steps[j]) :
               y = <<"kid", j, kid>> /\ h[y] = KidId(d.steps[j], kid)
        BY <2>1, <3>1, <3>4
      <4> QED BY <4>1, <4>2, <3>1, KidIdsDiffer
    <3> QED BY <3>3, <3>4
  <2>7. h \in Bijection(AllKeys(d), Keys(d))
    BY <2>4, <2>5, <2>6 DEF Bijection, Injection, IsInjective, Surjection
  <2> QED
    BY <2>7, <1>5, FS_Bijection DEF ExistsBijection
<1>7. Cardinality(Units(d)) + Cardinality(R) <= MaxSteps
  BY DEF Accepts, WithinBudget
<1>8. Cardinality(K) \in Nat /\ MaxSteps \in Nat
  BY <1>4, FS_CardinalityType, LimitsAssumption
<1> HIDE DEF U, K, R
<1> QED
  BY <1>1, <1>2, <1>3, <1>4, <1>5, <1>6, <1>7, <1>8

-----------------------------------------------------------------------------
(* What is stored of an accepted plan: p the plan, T its steps, K every row. *)

Flows == {"wait", "wait_event", "child", "foreach", "while", "until"}

PlanStep(T, K) ==
    [use : StepUses \cup Flows, needs : SUBSET T, joins : BOOLEAN, guarded : BOOLEAN,
     gated : BOOLEAN, undo : BOOLEAN, cites : SUBSET T, before : SUBSET T,
     count : Nat, stages : Nat, kids : Seq(K)]

StoredSteps(p, T, K) == /\ IsFiniteSet(K) /\ T \subseteq K
                        /\ p.steps \in [K -> PlanStep(T, K)]

\* The order of the steps is total and well-founded, and extends that of their needs.
OrderedSteps(p, T) ==
    /\ \A k \in T : k \notin p.steps[k].needs /\ p.steps[k].needs \subseteq p.steps[k].before
    /\ \A j, k \in T : j # k => j \in p.steps[k].before \/ k \in p.steps[j].before
    /\ \A S \in SUBSET T : S # {} => \E k \in S : p.steps[k].before \cap S = {}

\* A child belongs to one place of one controller, and calls a tool, a Task, or nobody.
OwnedKids(p, T, K) ==
    /\ \A k \in T : p.steps[k].kids # <<>> =>
          /\ p.steps[k].use \in {"foreach", "while", "until"}
          /\ p.steps[k].count > 0 /\ p.steps[k].stages > 0
          /\ Len(p.steps[k].kids) = p.steps[k].count * p.steps[k].stages
          /\ \A n \in DOMAIN p.steps[k].kids :
                /\ p.steps[k].kids[n] \in K \ T
                /\ p.steps[k].use # "foreach" => p.steps[p.steps[k].kids[n]].use = "mcp.read"
          /\ p.steps[k].use # "foreach" => p.steps[k].stages = 1
    /\ \A k \in T : p.steps[k].use = "foreach" => p.steps[k].kids # <<>>
    /\ \A k, l \in T : \A m \in DOMAIN p.steps[k].kids, n \in DOMAIN p.steps[l].kids :
          p.steps[k].kids[m] = p.steps[l].kids[n] => k = l /\ m = n
    /\ \A c \in K \ T :
          /\ \E k \in T : \E n \in DOMAIN p.steps[k].kids : p.steps[k].kids[n] = c
          /\ p.steps[c].use \in StageUses
          /\ p.steps[c].needs = {} /\ p.steps[c].cites = {} /\ p.steps[c].kids = <<>>
          /\ ~p.steps[c].joins /\ ~p.steps[c].gated /\ ~p.steps[c].undo

\* What a plan has at most one of, and what goes with what.
FewOfEach(p, T, K) ==
    /\ \A k \in T : /\ p.steps[k].gated => p.steps[k].use \in GitHub
                    /\ p.steps[k].undo => p.steps[k].use = "github.session"
                    /\ p.steps[k].joins => p.steps[k].needs # {}
                    /\ p.steps[k].cites # {} => p.steps[k].use = "bark"
    /\ \A k, l \in T :
          (\/ p.steps[k].gated /\ p.steps[l].gated
           \/ p.steps[k].use \in Providers /\ p.steps[l].use \in Providers
           \/ p.steps[k].use = "wait_event" /\ p.steps[l].use = "wait_event") => k = l
    /\ \A k \in T : p.steps[k].use = "litterbox" =>
          T = {k} /\ K = {k} /\ p.steps[k].needs = {} /\ ~p.steps[k].guarded /\ p.saga = {}

\* Everything a Saga does outside can be undone.
SagaSteps(p, T, K) == p.saga # {} =>
    /\ K = T
    /\ \A k \in T : \/ p.steps[k].use \in {"result.emit", "wait", "wait_event"}
                    \/ p.steps[k].use \in GitHub /\ p.steps[k].undo

\* The steps fall into layers no wider than the runner's slice.
LayersOf(p, T, N, L) ==
    /\ L[0] = {} /\ L[N] = T
    /\ \A n \in 1 .. N : /\ L[n] = {k \in T : p.steps[k].needs \subseteq L[n - 1]}
                        /\ L[n - 1] \subseteq L[n]
                        /\ Cardinality(L[n] \ L[n - 1]) <= MaxParallel

LayeredSteps(p, T) == \E N \in Nat : \E L \in [0 .. N -> SUBSET T] : LayersOf(p, T, N, L)

PlanFits(p, T, K) ==
    /\ StoredSteps(p, T, K) /\ OrderedSteps(p, T) /\ OwnedKids(p, T, K)
    /\ FewOfEach(p, T, K) /\ SagaSteps(p, T, K) /\ LayeredSteps(p, T)

Stored(d) == [saga |-> d.saga, steps |-> Compiled(d)]

KidsInOrder(s) ==
    IF Kids(s) = {} THEN <<>>
    ELSE [p \in 1 .. s.count * Len(s.kids) |->
            KidId(s, <<((p - 1) \div Len(s.kids)) + 1, ((p - 1) % Len(s.kids)) + 1>>)]

\* What is stored of a step: the fields of its unit.
LEMMA CompiledStep ==
  ASSUME NEW d, Parsed(d), Accepts(d), NEW k \in Ids(d)
  PROVE  LET s == Step(d, k)
             n == Len(s.kids)
             stored == Compiled(d)[k]
         IN  /\ stored = [use |-> stored.use, needs |-> stored.needs, joins |-> stored.joins,
                          guarded |-> stored.guarded, gated |-> stored.gated,
                          undo |-> stored.undo, cites |-> stored.cites,
                          before |-> stored.before, count |-> stored.count,
                          stages |-> stored.stages, kids |-> stored.kids]
             /\ stored.use = IF s.flow \in {"step", "repeat"} THEN s.uses ELSE s.flow
             /\ stored.needs = Needs(d, k) /\ stored.joins = s.joins
             /\ stored.guarded = s.guarded /\ stored.gated = s.approval
             /\ stored.undo = s.undo /\ stored.cites = s.cites
             /\ stored.before = Earlier(d, k) /\ stored.count = s.count /\ stored.stages = n
             /\ stored.kids = KidsInOrder(s)
<1> DEFINE s == Step(d, k)
           n == Len(s.kids)
<1>1. k \in Keys(d)
  BY DEF Keys
<1>2. Compiled(d)[k] = [use |-> IF s.flow \in {"step", "repeat"} THEN s.uses ELSE s.flow,
          needs |-> Needs(d, k), joins |-> s.joins, guarded |-> s.guarded,
          gated |-> s.approval, undo |-> s.undo, cites |-> s.cites,
          before |-> Earlier(d, k), count |-> s.count, stages |-> n, kids |-> KidsInOrder(s)]
  BY <1>1 DEF Compiled, Earlier, KidsInOrder
<1> QED
  BY <1>2

\* Of a child: its template's use, found again from its id.
LEMMA CompiledKid ==
  ASSUME NEW d, Parsed(d), Accepts(d), NEW i \in DOMAIN d.steps, NEW p \in Kids(d.steps[i])
  PROVE  /\ KidId(d.steps[i], p) \in Keys(d) \ Ids(d)
         /\ Compiled(d)[KidId(d.steps[i], p)] = KidUse(d, i, p)
<1> DEFINE c == KidId(d.steps[i], p)
           Owns(j) == \E kid \in Kids(d.steps[j]) : KidId(d.steps[j], kid) = c
           owner == CHOOSE j \in DOMAIN d.steps : Owns(j)
           place == CHOOSE kid \in Kids(d.steps[owner]) : KidId(d.steps[owner], kid) = c
<1>1. c \in KidIds(d)
  BY DEF KidIds
<1>2. c \in Keys(d) /\ c \notin Ids(d)
  BY <1>1 DEF Keys, Accepts, DistinctIds
<1>3. Owns(i)
  OBVIOUS
<1>4. owner \in DOMAIN d.steps /\ Owns(owner)
  <2> HIDE DEF Owns
  <2> QED BY <1>3
<1>5. place \in Kids(d.steps[owner]) /\ KidId(d.steps[owner], place) = c
  <2> HIDE DEF owner
  <2> QED BY <1>4
<1>6. owner = i /\ place = p
  <2> HIDE DEF owner, place
  <2> QED BY <1>4, <1>5, KidIdsDiffer
<1>7. Compiled(d)[c] = KidUse(d, owner, place)
  <2> HIDE DEF c
  <2> QED BY <1>2 DEF Compiled
<1> QED
  BY <1>2, <1>6, <1>7

\* The unit behind a stored step, its shape, and what the flow says of it.
LEMMA StepOfId ==
  ASSUME NEW d, Parsed(d), Accepts(d), NEW k \in Ids(d)
  PROVE  /\ Unit(d, k)[1] \in DOMAIN d.steps /\ Step(d, k) = d.steps[Unit(d, k)[1]]
         /\ Unit(d, k) \in Units(d)
         /\ Shape(Step(d, k))
         /\ Step(d, k).count \in Nat /\ Len(Step(d, k).kids) \in Nat
         /\ DOMAIN Step(d, k).kids = 1 .. Len(Step(d, k).kids)
         /\ Step(d, k).joins \in BOOLEAN /\ Step(d, k).guarded \in BOOLEAN
         /\ Step(d, k).approval \in BOOLEAN /\ Step(d, k).undo \in BOOLEAN
<1>1. Unit(d, k) \in Units(d)
  BY UnitIdsDiffer
<1>2. Unit(d, k)[1] \in DOMAIN d.steps
  BY <1>1, UnitsFinite
<1> DEFINE i == Unit(d, k)[1]
<1>3. Step(d, k) = d.steps[i]
  BY DEF Step, Source
<1> HIDE DEF i
<1>4. i \in DOMAIN d.steps
  BY <1>2 DEF i
<1>5. Shape(d.steps[i])
  BY <1>4 DEF Accepts
<1>6. /\ d.steps[i].count \in Nat /\ Len(d.steps[i].kids) \in Nat
      /\ DOMAIN d.steps[i].kids = 1 .. Len(d.steps[i].kids)
      /\ d.steps[i].joins \in BOOLEAN /\ d.steps[i].guarded \in BOOLEAN
      /\ d.steps[i].approval \in BOOLEAN /\ d.steps[i].undo \in BOOLEAN
  BY <1>4 DEF Parsed
<1> QED
  BY <1>1, <1>2, <1>3, <1>5, <1>6 DEF i

\* A step whose flow is none of its own is a step or a repeat of one.
LEMMA FlowOfStep ==
  ASSUME NEW s, Shape(s)
  PROVE  /\ s.flow \in {"step", "repeat"} => s.uses \in StepUses
         /\ s.flow \notin {"step", "repeat"} => s.flow \in Flows
         /\ s.flow # "step" => ~s.joins /\ ~s.approval /\ ~s.undo /\ s.cites = {}
         /\ s.flow = "step" => (s.joins => s.needs # {})
         /\ s.flow = "repeat" => s.uses \notin Providers
BY DEF Shape, StepShape, WaitShape, EventShape, ChildShape, LoopShape, Loops, ForeachShape,
       RepeatShape, NoExtras, Flows, StepUses

\* The children of a stored controller are those of its step, one per item and stage.
LEMMA StoredKids ==
  ASSUME NEW d, Parsed(d), Accepts(d), NEW k \in Ids(d)
  PROVE  LET s == Step(d, k)
             n == Len(s.kids)
             kids == Compiled(d)[k].kids
         IN  /\ kids \in Seq(Keys(d) \ Ids(d))
             /\ kids # <<>> => /\ s.flow = "foreach" \/ Loops(s)
                               /\ s.count > 0 /\ n > 0 /\ Len(kids) = s.count * n
                               /\ s.flow # "foreach" => n = 1 /\ s.kids[1].uses = "mcp.read"
             /\ s.flow = "foreach" => kids # <<>>
             /\ \A m \in DOMAIN kids :
                   LET at == <<((m - 1) \div n) + 1, ((m - 1) % n) + 1>>
                   IN  at \in Kids(s) /\ kids[m] = KidId(s, at) /\ m \in 1 .. s.count * n
             /\ \A at \in Kids(s) : \E m \in DOMAIN kids : kids[m] = KidId(s, at)
<1> DEFINE i == Unit(d, k)[1]
           s == Step(d, k)
           n == Len(s.kids)
           kids == Compiled(d)[k].kids
           At(m) == <<((m - 1) \div n) + 1, ((m - 1) % n) + 1>>
<1>0. i \in DOMAIN d.steps /\ s = d.steps[i]
  BY StepOfId
<1>1. kids = IF Kids(s) = {} THEN <<>> ELSE [m \in 1 .. s.count * n |-> KidId(s, At(m))]
  <2>1. kids = KidsInOrder(s)
    BY CompiledStep
  <2> QED
    BY <2>1 DEF KidsInOrder
<1> HIDE DEF i, s, kids
<1>2. CASE Kids(s) = {}
  <2>1. kids = <<>>
    BY <1>1, <1>2
  <2>2. s.flow # "foreach"
    <3>1. SUFFICES ASSUME s.flow = "foreach" PROVE FALSE
      OBVIOUS
    <3>2. s.count \in 1 .. MaxRepeat /\ DOMAIN s.kids = 1 .. Len(s.kids)
          /\ Len(s.kids) \in 1 .. MaxStages
      BY <3>1, <1>0, ControllersFit
    <3>3. <<1, 1>> \in (1 .. s.count) \X DOMAIN s.kids
      BY <3>2, LimitsAssumption
    <3> QED
      BY <3>1, <3>3, <1>2 DEF Kids
  <2> QED
    BY <2>1, <2>2, <1>2 DEF s, kids
<1>3. CASE Kids(s) # {}
  <2>1. PICK p \in Kids(s) : TRUE
    BY <1>3
  <2>2. /\ s.flow = "foreach" \/ Loops(s)
        /\ s.flow # "foreach" => s.kids[1].uses = "mcp.read"
    BY <2>1, <1>0, KidsAreOfControllers
  <2>3. /\ s.count \in 1 .. MaxRepeat /\ DOMAIN s.kids = 1 .. n /\ n \in 1 .. MaxStages
        /\ Loops(s) => n = 1
    BY <2>2, <1>0, ControllersFit
  <2>4. s.count \in Nat /\ s.count > 0 /\ n \in Nat /\ n > 0 /\ s.count * n \in Nat
        /\ s.count * n > 0
    <3> DEFINE x == s.count
               y == n
    <3>1. x \in Nat /\ x > 0 /\ y \in Nat /\ y > 0
      BY <2>3, LimitsAssumption
    <3> HIDE DEF x, y, n
    <3>2. x * y \in Nat /\ x * y > 0
      BY <3>1
    <3> QED BY <3>1, <3>2 DEF x, y
  <2> HIDE DEF n
  <2>5. kids = [m \in 1 .. s.count * n |-> KidId(s, At(m))]
    BY <1>1, <1>3
  <2>6. DOMAIN kids = 1 .. s.count * n /\ Len(kids) = s.count * n /\ kids # <<>>
    BY <2>4, <2>5
  <2>7. Kids(s) = (1 .. s.count) \X (1 .. n)
    BY <2>2, <2>3 DEF Kids
  <2>8. \A m \in DOMAIN kids : At(m) \in Kids(s) /\ kids[m] = KidId(s, At(m))
    BY <2>4, <2>5, <2>6, <2>7, ItemAndStage
  <2>9. \A m \in DOMAIN kids : kids[m] \in Keys(d) \ Ids(d)
    BY <2>8, <1>0, CompiledKid
  <2>10. kids \in Seq(Keys(d) \ Ids(d))
    <3>1. kids = [m \in 1 .. s.count * n |-> kids[m]]
      BY <2>5, <2>6
    <3> QED
      BY <3>1, <2>4, <2>6, <2>9, IsASeq
  <2>11. \A at \in Kids(s) : \E m \in DOMAIN kids : kids[m] = KidId(s, at)
    <3>1. SUFFICES ASSUME NEW a \in 1 .. s.count, NEW b \in 1 .. n
                   PROVE  \E m \in DOMAIN kids : kids[m] = KidId(s, <<a, b>>)
      BY <2>7
    <3> DEFINE m == n * (a - 1) + b
    <3>2. m \in 1 .. s.count * n /\ (m - 1) \div n = a - 1 /\ (m - 1) % n = b - 1
      <4>1. n * (a - 1) \in Nat /\ n * (a - 1) <= n * (s.count - 1)
        BY <2>4
      <4>2. n * (s.count - 1) = s.count * n - n
        BY <2>4
      <4>3. m \in 1 .. s.count * n
        BY <4>1, <4>2, <2>4
      <4>4. m - 1 = n * (a - 1) + (b - 1) /\ b - 1 \in 0 .. n - 1 /\ a - 1 \in Nat
        BY <2>4
      <4>5. (m - 1) \div n = a - 1 /\ (m - 1) % n = b - 1
        <5> DEFINE q == (m - 1) \div n
                   r == (m - 1) % n
        <5>1. q \in Int /\ r \in 0 .. n - 1 /\ m - 1 = n * q + r
          BY <2>4, <4>3
        <5> HIDE DEF q, r, m
        <5>2. n * (q - (a - 1)) = (b - 1) - r
          BY <5>1, <4>4, <2>4
        <5>3. (b - 1) - r < n /\ (b - 1) - r > 0 - n
          BY <5>1, <4>4, <2>4
        <5> DEFINE z == q - (a - 1)
        <5>4. z \in Int /\ n * z < n /\ n * z > 0 - n
          BY <5>1, <5>2, <5>3, <4>4
        <5> HIDE DEF z
        <5>5. z = 0
          <6>1. CASE z >= 1
            <7>1. n * z >= n
              BY <6>1, <5>4, <2>4
            <7> QED BY <7>1, <5>4, <2>4
          <6>2. CASE z <= 0 - 1
            <7>1. n * z <= 0 - n
              BY <6>2, <5>4, <2>4
            <7> QED BY <7>1, <5>4, <2>4
          <6> QED BY <6>1, <6>2, <5>4
        <5>6. q = a - 1
          BY <5>1, <5>5, <4>4 DEF z
        <5>7. n * (q - (a - 1)) = 0
          BY <5>5, <2>4 DEF z
        <5>8. r = b - 1
          BY <5>1, <5>2, <5>7, <4>4
        <5> QED
          BY <5>6, <5>8 DEF q, r
      <4> QED
        BY <4>3, <4>5
    <3>3. At(m) = <<a, b>>
      BY <3>2
    <3> QED
      BY <3>2, <3>3, <2>5, <2>6
  <2> QED
    BY <2>2, <2>3, <2>4, <2>6, <2>7, <2>8, <2>10, <2>11 DEF s, kids, n
<1> QED
  BY <1>2, <1>3

\* What a stored step needs, cites and comes after are steps of the plan.
LEMMA AcceptedStored ==
  ASSUME NEW d, Parsed(d), Accepts(d)
  PROVE  StoredSteps(Stored(d), Ids(d), Keys(d))
<1> DEFINE T == Ids(d)
           K == Keys(d)
           C == Compiled(d)
<1>1. IsFiniteSet(K) /\ T \subseteq K
  BY BudgetCovers DEF Keys
<1>2. \A k \in T : C[k] \in PlanStep(T, K)
  <2>1. SUFFICES ASSUME NEW k \in T PROVE C[k] \in PlanStep(T, K)
    OBVIOUS
  <2> DEFINE s == Step(d, k)
             c == Compiled(d)[k]
  <2>2. /\ c = [use |-> c.use, needs |-> c.needs, joins |-> c.joins, guarded |-> c.guarded,
                gated |-> c.gated, undo |-> c.undo, cites |-> c.cites, before |-> c.before,
                count |-> c.count, stages |-> c.stages, kids |-> c.kids]
        /\ c.use = IF s.flow \in {"step", "repeat"} THEN s.uses ELSE s.flow
        /\ c.needs = Needs(d, k) /\ c.joins = s.joins /\ c.guarded = s.guarded
        /\ c.gated = s.approval /\ c.undo = s.undo /\ c.cites = s.cites
        /\ c.before = Earlier(d, k) /\ c.count = s.count /\ c.stages = Len(s.kids)
    BY CompiledStep
  <2>3. /\ Shape(s) /\ s.count \in Nat /\ Len(s.kids) \in Nat
        /\ s.joins \in BOOLEAN /\ s.guarded \in BOOLEAN
        /\ s.approval \in BOOLEAN /\ s.undo \in BOOLEAN
    BY StepOfId
  <2>4. c.use \in StepUses \cup Flows
    BY <2>2, <2>3, FlowOfStep
  <2>5. c.needs \subseteq T /\ c.before \subseteq T
    BY <2>2, NeedsAreEarlier DEF Earlier
  <2>6. c.cites \subseteq T
    <3>1. Unit(d, k)[1] \in DOMAIN d.steps /\ s = d.steps[Unit(d, k)[1]]
      BY StepOfId
    <3>2. s.cites \subseteq s.needs
      <4> HIDE DEF s
      <4> QED BY <3>1 DEF Accepts, TrustedCitations
    <3>3. s.needs \subseteq Needs(d, k)
      BY DEF Needs, UnitNeeds, Step
    <3> QED BY <2>2, <2>5, <3>2, <3>3
  <2>7. c.kids \in Seq(K \ T)
    BY StoredKids
  <2>8. c.kids \in Seq(K)
    <3>1. K \ T \subseteq K
      OBVIOUS
    <3> QED BY <2>7, <3>1, SeqMonotonic
  <2> HIDE DEF s, c, T, K
  <2> QED
    BY <2>2, <2>3, <2>4, <2>5, <2>6, <2>8 DEF PlanStep, c
<1>3. \A c \in K \ T : C[c] \in PlanStep(T, K)
  <2>1. SUFFICES ASSUME NEW i \in DOMAIN d.steps, NEW p \in Kids(d.steps[i])
                 PROVE  C[KidId(d.steps[i], p)] \in PlanStep(T, K)
    BY DEF Keys, KidIds
  <2>2. C[KidId(d.steps[i], p)] = KidUse(d, i, p)
    BY CompiledKid
  <2>3. p[2] \in DOMAIN d.steps[i].kids
    BY KidsAreOfControllers
  <2> DEFINE t == d.steps[i].kids[p[2]]
  <2>4. t.uses \in StageUses /\ t.guarded \in BOOLEAN
    <3>1. t.guarded \in BOOLEAN
      BY <2>3 DEF Parsed
    <3> QED
      BY <3>1, <2>3, KidsAreOfControllers, StagesMayBe
  <2>5. <<>> \in Seq(K)
    BY EmptySeq
  <2> HIDE DEF t
  <2>6. t.uses \in StepUses
    BY <2>4 DEF StageUses, StepUses, Mcp, GitHub
  <2> QED
    BY <2>2, <2>4, <2>5, <2>6 DEF KidUse, PlanStep, t
<1>4. C \in [K -> PlanStep(T, K)]
  <2>1. C = [k \in K |-> C[k]]
    BY DEF Compiled
  <2> HIDE DEF C
  <2> QED BY <1>1, <1>2, <1>3, <2>1
<1> QED
  BY <1>1, <1>4 DEF StoredSteps, Stored

\* The order in which an accepted plan is stored is total, well-founded and extends its needs.
LEMMA AcceptedOrdered ==
  ASSUME NEW d, Parsed(d), Accepts(d)
  PROVE  OrderedSteps(Stored(d), Ids(d))
<1>1. \A k \in Ids(d) : Compiled(d)[k].needs = Needs(d, k) /\ Compiled(d)[k].before = Earlier(d, k)
  BY CompiledStep
<1> QED
  BY <1>1, NeedsAreEarlier, EarlierIsTotal, EarliestOfAll DEF OrderedSteps, Stored

\* An accepted plan is stored in layers that one slice of the runner holds.
LEMMA AcceptedLayers ==
  ASSUME NEW d, Parsed(d), Accepts(d)
  PROVE  LayeredSteps(Stored(d), Ids(d))
<1> DEFINE N == Cardinality(Units(d))
           P == Placed(d)
<1>1. N \in Nat
  BY UnitsFinite
<1>2. /\ P \in [0 .. N -> SUBSET Ids(d)] /\ P[0] = {} /\ P[N] = Ids(d)
      /\ \A n \in 1 .. N : /\ P[n] = {k \in Ids(d) : Needs(d, k) \subseteq P[n - 1]}
                          /\ Cardinality(P[n] \ P[n - 1]) <= MaxParallel
  BY PlacedRounds
<1>3. \A n \in 1 .. N : P[n - 1] \subseteq P[n]
  <2>1. \A n \in 1 .. N : n - 1 \in 0 .. N /\ n \in 0 .. N /\ n - 1 <= n
    BY <1>1
  <2> QED
    BY <2>1, PlacedRises
<1>4. \A k \in Ids(d) : Stored(d).steps[k].needs = Needs(d, k)
  BY CompiledStep DEF Stored
<1>5. \A S : {k \in Ids(d) : Stored(d).steps[k].needs \subseteq S}
               = {k \in Ids(d) : Needs(d, k) \subseteq S}
  BY <1>4
<1> HIDE DEF N, P
<1>6. \A n \in 1 .. N : P[n] = {k \in Ids(d) : Stored(d).steps[k].needs \subseteq P[n - 1]}
  <2> TAKE n \in 1 .. N
  <2>1. P[n] = {k \in Ids(d) : Needs(d, k) \subseteq P[n - 1]}
    BY <1>2
  <2> QED
    BY <2>1, <1>5
<1>7. LayersOf(Stored(d), Ids(d), N, P)
  BY <1>2, <1>3, <1>6 DEF LayersOf
<1>8. P \in [0 .. N -> SUBSET Ids(d)]
  BY <1>2
<1> QED
  BY <1>1, <1>7, <1>8 DEF LayeredSteps

\* A set with at most one element.
LEMMA OneAtMost ==
  ASSUME NEW S, IsFiniteSet(S), Cardinality(S) <= 1, NEW x \in S, NEW y \in S
  PROVE  x = y
<1>1. SUFFICES ASSUME x # y PROVE FALSE
  OBVIOUS
<1>2. IsFiniteSet({x}) /\ Cardinality({x}) = 1
  BY FS_Singleton
<1>3. Cardinality({x} \cup {y}) = 2
  BY <1>1, <1>2, FS_AddElement
<1>4. {x} \cup {y} \in SUBSET S
  OBVIOUS
<1>5. Cardinality({x} \cup {y}) <= Cardinality(S) /\ Cardinality(S) \in Nat
  BY <1>4, FS_Subset, FS_CardinalityType
<1> QED
  BY <1>3, <1>5

\* Every child row of an accepted plan belongs to one place of one controller.
LEMMA AcceptedOwned ==
  ASSUME NEW d, Parsed(d), Accepts(d)
  PROVE  OwnedKids(Stored(d), Ids(d), Keys(d))
<1> DEFINE C == Compiled(d)
           T == Ids(d)
           K == Keys(d)
<1>1. ASSUME NEW k \in T, C[k].kids # <<>>
      PROVE  /\ C[k].use \in {"foreach", "while", "until"}
             /\ C[k].count > 0 /\ C[k].stages > 0
             /\ Len(C[k].kids) = C[k].count * C[k].stages
             /\ \A n \in DOMAIN C[k].kids :
                   /\ C[k].kids[n] \in K \ T
                   /\ C[k].use # "foreach" => C[C[k].kids[n]].use = "mcp.read"
             /\ C[k].use # "foreach" => C[k].stages = 1
  <2> DEFINE s == Step(d, k)
             i == Unit(d, k)[1]
  <2>1. /\ C[k].use = IF s.flow \in {"step", "repeat"} THEN s.uses ELSE s.flow
        /\ C[k].count = s.count /\ C[k].stages = Len(s.kids)
    BY CompiledStep
  <2>2. /\ s.flow = "foreach" \/ Loops(s)
        /\ s.count > 0 /\ Len(s.kids) > 0 /\ Len(C[k].kids) = s.count * Len(s.kids)
        /\ s.flow # "foreach" => Len(s.kids) = 1 /\ s.kids[1].uses = "mcp.read"
    BY <1>1, StoredKids
  <2>3. C[k].use = s.flow /\ s.flow \in {"foreach", "while", "until"}
    BY <2>1, <2>2 DEF Loops
  <2>4. i \in DOMAIN d.steps /\ s = d.steps[i] /\ DOMAIN s.kids = 1 .. Len(s.kids)
    BY StepOfId
  <2>5. ASSUME NEW n \in DOMAIN C[k].kids
        PROVE  /\ C[k].kids[n] \in K \ T
               /\ s.flow # "foreach" => C[C[k].kids[n]].use = "mcp.read"
    <3> DEFINE at == <<((n - 1) \div Len(s.kids)) + 1, ((n - 1) % Len(s.kids)) + 1>>
    <3>1. at \in Kids(s) /\ C[k].kids[n] = KidId(s, at)
      BY <2>5, StoredKids
    <3> HIDE DEF at, s, i
    <3>2. at \in Kids(d.steps[i])
      BY <2>4, <3>1
    <3>3. /\ C[k].kids[n] \in K \ T
          /\ C[C[k].kids[n]] = KidUse(d, i, at)
      BY <2>4, <3>1, <3>2, CompiledKid
    <3>4. s.flow # "foreach" => at[2] = 1
      BY <2>2, <2>4, <3>2, KidsAreOfControllers
    <3>5. C[C[k].kids[n]].use = s.kids[at[2]].uses
      BY <2>4, <3>3 DEF KidUse
    <3> QED
      BY <2>2, <3>3, <3>4, <3>5
  <2> QED
    BY <2>1, <2>2, <2>3, <2>5
<1>2. ASSUME NEW k \in T, C[k].use = "foreach" PROVE C[k].kids # <<>>
  <2>1. C[k].use = IF Step(d, k).flow \in {"step", "repeat"} THEN Step(d, k).uses
                  ELSE Step(d, k).flow
    BY CompiledStep
  <2>2. Step(d, k).flow \in {"step", "repeat"} => Step(d, k).uses \in StepUses
    BY StepOfId, FlowOfStep
  <2>3. Step(d, k).flow = "foreach"
    BY <1>2, <2>1, <2>2 DEF StepUses, Mcp, Http, GitHub, Providers
  <2> QED
    BY <2>3, StoredKids
<1>3. ASSUME NEW k \in T, NEW l \in T, NEW m \in DOMAIN C[k].kids, NEW n \in DOMAIN C[l].kids,
             C[k].kids[m] = C[l].kids[n]
      PROVE  k = l /\ m = n
  <2> DEFINE s == Step(d, k)
             t == Step(d, l)
             i == Unit(d, k)[1]
             j == Unit(d, l)[1]
             a == <<((m - 1) \div Len(s.kids)) + 1, ((m - 1) % Len(s.kids)) + 1>>
             b == <<((n - 1) \div Len(t.kids)) + 1, ((n - 1) % Len(t.kids)) + 1>>
  <2>1. /\ a \in Kids(s) /\ C[k].kids[m] = KidId(s, a) /\ m \in 1 .. s.count * Len(s.kids)
        /\ b \in Kids(t) /\ C[l].kids[n] = KidId(t, b) /\ n \in 1 .. t.count * Len(t.kids)
    BY <1>3, StoredKids
  <2>2. /\ i \in DOMAIN d.steps /\ s = d.steps[i] /\ j \in DOMAIN d.steps /\ t = d.steps[j]
        /\ s.count \in Nat /\ Len(s.kids) \in Nat /\ t.count \in Nat /\ Len(t.kids) \in Nat
        /\ Unit(d, k) \in Units(d) /\ Unit(d, l) \in Units(d)
    BY StepOfId
  <2>3. i = j /\ a = b
    <3> HIDE DEF s, t, i, j, a, b
    <3>1. /\ a \in Kids(d.steps[i]) /\ b \in Kids(d.steps[j])
          /\ KidId(d.steps[i], a) = KidId(d.steps[j], b)
      BY <1>3, <2>1, <2>2
    <3> QED BY <2>2, <3>1, KidIdsDiffer
  <2>4. m = n
    <3>1. s = t /\ a[1] = b[1] /\ a[2] = b[2]
      <4> HIDE DEF s, t, i, j, a, b
      <4> QED BY <2>2, <2>3
    <3> DEFINE L == Len(s.kids)
    <3>2. s.count \in Nat /\ L \in Nat /\ m \in 1 .. s.count * L /\ n \in 1 .. s.count * L
      <4> HIDE DEF s, t
      <4> QED BY <2>1, <2>2, <3>1
    <3>3. /\ ((m - 1) \div L) + 1 = ((n - 1) \div L) + 1
          /\ ((m - 1) % L) + 1 = ((n - 1) % L) + 1
      BY <3>1
    <3> HIDE DEF L, s, t
    <3>4. /\ m = L * ((m - 1) \div L) + ((m - 1) % L) + 1
          /\ n = L * ((n - 1) \div L) + ((n - 1) % L) + 1
          /\ L > 0 /\ m \in Nat /\ m > 0 /\ n \in Nat /\ n > 0
      BY <3>2, ItemAndStage
    <3>5. (m - 1) \div L = (n - 1) \div L /\ (m - 1) % L = (n - 1) % L
      BY <3>2, <3>3, <3>4
    <3> QED
      BY <3>4, <3>5
  <2>5. k = l
    <3>1. Loops(s) \/ s.flow = "foreach"
      <4> HIDE DEF s, t, i, j, a, b
      <4> QED BY <2>1, <2>2, KidsAreOfControllers
    <3>2. Times(s) = 1
      BY <3>1 DEF Times, Loops
    <3>3. Unit(d, k) = <<i, 1>> /\ Unit(d, l) = <<j, 1>>
      <4>1. s = t
        BY <2>2, <2>3
      <4>2. /\ Unit(d, k) = <<i, Unit(d, k)[2]>> /\ Unit(d, k)[2] \in 1 .. Times(d.steps[i])
            /\ Unit(d, l) = <<j, Unit(d, l)[2]>> /\ Unit(d, l)[2] \in 1 .. Times(d.steps[j])
        BY <2>2, UnitsFinite
      <4> HIDE DEF i, j, s, t
      <4>t. Times(d.steps[i]) = 1 /\ Times(d.steps[j]) = 1
        BY <3>2, <4>1, <2>2
      <4>3. Unit(d, k)[2] = 1 /\ Unit(d, l)[2] = 1
        BY <4>2, <4>t
      <4> QED
        BY <4>2, <4>3
    <3>4. UnitId(d, Unit(d, k)) = k /\ UnitId(d, Unit(d, l)) = l
      BY UnitIdsDiffer
    <3> HIDE DEF i, j
    <3> QED
      BY <2>3, <3>3, <3>4
  <2> QED
    BY <2>4, <2>5
<1>4. ASSUME NEW c \in K \ T
      PROVE  /\ \E k \in T : \E n \in DOMAIN C[k].kids : C[k].kids[n] = c
             /\ C[c].use \in StageUses
             /\ C[c].needs = {} /\ C[c].cites = {} /\ C[c].kids = <<>>
             /\ ~C[c].joins /\ ~C[c].gated /\ ~C[c].undo
  <2>1. PICK i \in DOMAIN d.steps : \E p \in Kids(d.steps[i]) : KidId(d.steps[i], p) = c
    BY <1>4 DEF Keys, KidIds
  <2>2. PICK p \in Kids(d.steps[i]) : KidId(d.steps[i], p) = c
    BY <2>1
  <2>3. C[c] = KidUse(d, i, p)
    BY <2>2, CompiledKid
  <2>4. p[2] \in DOMAIN d.steps[i].kids /\ (d.steps[i].flow = "foreach" \/ Loops(d.steps[i]))
    BY KidsAreOfControllers
  <2>5. d.steps[i].kids[p[2]].uses \in StageUses
    BY <2>4, StagesMayBe
  <2>6. /\ C[c].use \in StageUses
        /\ C[c].needs = {} /\ C[c].cites = {} /\ C[c].kids = <<>>
        /\ ~C[c].joins /\ ~C[c].gated /\ ~C[c].undo
    BY <2>3, <2>5 DEF KidUse
  <2> DEFINE k == UnitId(d, <<i, 1>>)
  <2>7. <<i, 1>> \in Units(d)
    BY <2>4, ControllersFit
  <2>8. k \in T /\ Unit(d, k) = <<i, 1>>
    BY <2>7, UnitIdsDiffer
  <2>9. Step(d, k) = d.steps[i]
    BY <2>8 DEF Step, Source
  <2>10. \E n \in DOMAIN C[k].kids : C[k].kids[n] = c
    <3> HIDE DEF k
    <3>1. \E n \in DOMAIN C[k].kids : C[k].kids[n] = KidId(Step(d, k), p)
      BY <2>8, <2>9, StoredKids
    <3> QED BY <3>1, <2>2, <2>9
  <2> QED
    BY <2>6, <2>8, <2>10
<1> HIDE DEF T, K
<1>5. Stored(d).steps = C
  BY DEF Stored
<1> HIDE DEF C
<1> QED
  BY <1>1, <1>2, <1>3, <1>4, <1>5 DEF OwnedKids, T, K

\* The one-of-each rules of the compiler hold of the stored plan.
LEMMA AcceptedFew ==
  ASSUME NEW d, Parsed(d), Accepts(d)
  PROVE  FewOfEach(Stored(d), Ids(d), Keys(d))
<1> DEFINE C == Compiled(d)
           T == Ids(d)
           K == Keys(d)
           S(k) == Step(d, k)
           U(k) == Unit(d, k)
<1>1. ASSUME NEW k \in T
      PROVE  /\ C[k].use = IF S(k).flow \in {"step", "repeat"} THEN S(k).uses ELSE S(k).flow
             /\ C[k].needs = Needs(d, k) /\ C[k].joins = S(k).joins
             /\ C[k].guarded = S(k).guarded /\ C[k].gated = S(k).approval
             /\ C[k].undo = S(k).undo /\ C[k].cites = S(k).cites
             /\ S(k).needs \subseteq Needs(d, k)
             /\ U(k) \in Units(d) /\ U(k)[1] \in DOMAIN d.steps /\ S(k) = d.steps[U(k)[1]]
             /\ S(k) = Source(d, U(k)) /\ UnitId(d, U(k)) = k
             /\ S(k).flow \in {"step", "repeat"} => S(k).uses \in StepUses
             /\ S(k).flow \notin {"step", "repeat"} => S(k).flow \in Flows
             /\ S(k).flow # "step" => ~S(k).joins /\ ~S(k).approval /\ ~S(k).undo /\ S(k).cites = {}
             /\ S(k).flow = "step" => (S(k).joins => S(k).needs # {})
             /\ S(k).flow = "repeat" => S(k).uses \notin Providers
  <2> HIDE DEF T
  <2>1. k \in Ids(d)
    BY <1>1 DEF T
  <2>2. U(k) \in Units(d) /\ UnitId(d, U(k)) = k
    BY <2>1, UnitIdsDiffer
  <2>3. U(k)[1] \in DOMAIN d.steps /\ S(k) = Source(d, U(k)) /\ S(k) = d.steps[U(k)[1]]
    BY <2>2, UnitsFinite DEF Step, Source
  <2>4. /\ C[k].use = IF S(k).flow \in {"step", "repeat"} THEN S(k).uses ELSE S(k).flow
        /\ C[k].needs = Needs(d, k) /\ C[k].joins = S(k).joins
        /\ C[k].guarded = S(k).guarded /\ C[k].gated = S(k).approval
        /\ C[k].undo = S(k).undo /\ C[k].cites = S(k).cites
    BY <2>1, CompiledStep
  <2>5. S(k).needs \subseteq Needs(d, k)
    BY <2>3 DEF Needs, UnitNeeds
  <2>6. Shape(S(k))
    BY <2>3 DEF Accepts
  <2> HIDE DEF S, U, C
  <2>7. /\ S(k).flow \in {"step", "repeat"} => S(k).uses \in StepUses
        /\ S(k).flow \notin {"step", "repeat"} => S(k).flow \in Flows
        /\ S(k).flow # "step" => ~S(k).joins /\ ~S(k).approval /\ ~S(k).undo /\ S(k).cites = {}
        /\ S(k).flow = "step" => (S(k).joins => S(k).needs # {})
        /\ S(k).flow = "repeat" => S(k).uses \notin Providers
    BY <2>6 DEF Shape, StepShape, WaitShape, EventShape, ChildShape, LoopShape, Loops,
                ForeachShape, RepeatShape, NoExtras, Flows
  <2> QED
    BY <2>2, <2>3, <2>4, <2>5, <2>7
<1> HIDE DEF C, S, U
<1>2. ASSUME NEW k \in T
      PROVE  /\ C[k].gated => C[k].use \in GitHub
             /\ C[k].undo => C[k].use = "github.session"
             /\ C[k].joins => C[k].needs # {}
             /\ C[k].cites # {} => C[k].use = "bark"
  <2>1. S(k).approval => S(k).uses \in GitHub
    BY <1>1, <1>2 DEF Accepts, ApprovalFits
  <2>2. S(k).undo => S(k).uses = "github.session"
    BY <1>1, <1>2 DEF Accepts, SagaFits
  <2>3. S(k).cites # {} => S(k).uses = "bark"
    BY <1>1, <1>2 DEF Accepts, TrustedCitations
  <2> QED
    BY <1>1, <1>2, <2>1, <2>2, <2>3
<1>3. ASSUME NEW k \in T, NEW l \in T,
             \/ C[k].gated /\ C[l].gated
             \/ C[k].use \in Providers /\ C[l].use \in Providers
             \/ C[k].use = "wait_event" /\ C[l].use = "wait_event"
      PROVE  k = l
  <2> DEFINE A == {u \in Units(d) : Source(d, u).approval}
             W == {u \in Units(d) : Source(d, u).flow = "wait_event"}
             P == {u \in Units(d) : Source(d, u).flow \in {"step", "repeat"}
                                     /\ Source(d, u).uses \in Providers}
  <2>1. Cardinality(A) <= 1 /\ Cardinality(W) <= 1 /\ Cardinality(P) <= 1
    BY DEF Accepts, OneOfEach, AtMostOne, With
  <2>2. IsFiniteSet(A) /\ IsFiniteSet(W) /\ IsFiniteSet(P)
    <3>1. A \in SUBSET Units(d) /\ W \in SUBSET Units(d) /\ P \in SUBSET Units(d)
      OBVIOUS
    <3> HIDE DEF A, W, P
    <3> QED BY <3>1, UnitsFinite, FS_Subset
  <2>3. ASSUME NEW j \in T
        PROVE  /\ C[j].gated => U(j) \in A
               /\ C[j].use \in Providers => U(j) \in P
               /\ C[j].use = "wait_event" => U(j) \in W
    <3>1. /\ C[j].use \in Providers => S(j).flow \in {"step", "repeat"}
          /\ C[j].use = "wait_event" => S(j).flow = "wait_event"
      BY <1>1, <2>3 DEF Providers, Flows, StepUses, Mcp, Http, GitHub
    <3> QED
      BY <1>1, <2>3, <3>1
  <2> HIDE DEF A, W, P
  <2>4. U(k) = U(l)
    <3>1. CASE C[k].gated /\ C[l].gated
      <4>1. U(k) \in A /\ U(l) \in A
        BY <1>3, <2>3, <3>1
      <4> QED BY <2>1, <2>2, <4>1, OneAtMost
    <3>2. CASE C[k].use \in Providers /\ C[l].use \in Providers
      <4>1. U(k) \in P /\ U(l) \in P
        BY <1>3, <2>3, <3>2
      <4> QED BY <2>1, <2>2, <4>1, OneAtMost
    <3>3. CASE C[k].use = "wait_event" /\ C[l].use = "wait_event"
      <4>1. U(k) \in W /\ U(l) \in W
        BY <1>3, <2>3, <3>3
      <4> QED BY <2>1, <2>2, <4>1, OneAtMost
    <3> QED
      BY <1>3, <3>1, <3>2, <3>3
  <2> QED
    BY <1>1, <1>3, <2>4
<1>4. ASSUME NEW k \in T, C[k].use = "litterbox"
      PROVE  T = {k} /\ K = {k} /\ C[k].needs = {} /\ ~C[k].guarded /\ d.saga = {}
  <2>1. S(k).flow = "step" /\ S(k).uses = "litterbox"
    BY <1>1, <1>4 DEF Flows, Providers
  <2>2. /\ Cardinality(Units(d)) = 1 /\ d.saga = {} /\ ~S(k).guarded /\ S(k).needs = {}
    BY <1>1, <1>4, <2>1 DEF Accepts, ManualOnly
  <2>3. \A u \in Units(d) : u = U(k)
    <3>1. IsFiniteSet(Units(d)) /\ Cardinality(Units(d)) <= 1 /\ U(k) \in Units(d)
      BY <1>1, <1>4, <2>2, UnitsFinite
    <3> QED BY <3>1, OneAtMost
  <2>4. T = {k}
    <3>1. \A j \in T : U(j) = U(k) /\ UnitId(d, U(j)) = j
      BY <1>1, <2>3
    <3> QED BY <1>1, <1>4, <3>1
  <2>5. C[k].needs = {}
    <3>1. U(k)[2] \in 1 .. Times(d.steps[U(k)[1]])
      BY <1>1, <1>4, UnitsFinite
    <3>2. Times(d.steps[U(k)[1]]) = 1
      BY <1>1, <1>4, <2>1 DEF Times
    <3>3. U(k)[2] = 1
      BY <3>1, <3>2
    <3>4. UnitNeeds(d, U(k)) = S(k).needs
      BY <1>1, <1>4, <3>3 DEF UnitNeeds
    <3>5. Needs(d, k) = UnitNeeds(d, U(k))
      BY DEF Needs, U
    <3> QED
      BY <1>1, <1>4, <2>2, <3>4, <3>5
  <2>6. K = {k}
    <3>1. SUFFICES ASSUME NEW c \in K \ T PROVE FALSE
      BY <2>4 DEF Keys
    <3>2. PICK j \in T : \E n \in DOMAIN C[j].kids : C[j].kids[n] = c
      BY <3>1, AcceptedOwned DEF OwnedKids, C, Stored
    <3>3. j = k
      BY <2>4, <3>2
    <3>4. C[k].kids # <<>>
      BY <3>2, <3>3
    <3>5. C[k].use \in {"foreach", "while", "until"}
      BY <1>4, <3>4, AcceptedOwned DEF OwnedKids, C, Stored
    <3> QED
      BY <3>5, <1>4
  <2> QED
    BY <1>1, <1>4, <2>2, <2>4, <2>5, <2>6
<1> HIDE DEF T, K
<1>5. Stored(d).steps = C /\ Stored(d).saga = d.saga
  BY DEF Stored, C
<1> QED
  BY <1>2, <1>3, <1>4, <1>5 DEF FewOfEach, T, K

\* A stored Saga has no children, and all it does outside can be undone.
LEMMA AcceptedSaga ==
  ASSUME NEW d, Parsed(d), Accepts(d)
  PROVE  SagaSteps(Stored(d), Ids(d), Keys(d))
<1> SUFFICES ASSUME d.saga # {}
             PROVE  /\ Keys(d) = Ids(d)
                    /\ \A k \in Ids(d) :
                          \/ Compiled(d)[k].use \in {"result.emit", "wait", "wait_event"}
                          \/ Compiled(d)[k].use \in GitHub /\ Compiled(d)[k].undo
  BY DEF SagaSteps, Stored
<1>1. ASSUME NEW k \in Ids(d)
      PROVE  \/ Compiled(d)[k].use \in {"result.emit", "wait", "wait_event"}
             \/ Compiled(d)[k].use \in GitHub /\ Compiled(d)[k].undo
  <2> DEFINE s == Step(d, k)
  <2>1. /\ Compiled(d)[k].use = IF s.flow \in {"step", "repeat"} THEN s.uses ELSE s.flow
        /\ Compiled(d)[k].undo = s.undo
    BY CompiledStep
  <2>2. Unit(d, k) \in Units(d) /\ s = Source(d, Unit(d, k))
    BY UnitIdsDiffer DEF Step
  <2>3. /\ s.flow \in {"step", "repeat", "wait", "wait_event"}
        /\ s.flow \in {"step", "repeat"} =>
              s.uses = "result.emit" \/ (s.uses \in GitHub /\ s.undo)
    <3> HIDE DEF s
    <3> QED BY <2>2 DEF Accepts, SagaFits
  <2> QED
    BY <2>1, <2>3
<1>2. SUFFICES ASSUME NEW c \in Keys(d) \ Ids(d) PROVE FALSE
  BY <1>1 DEF Keys
<1>3. PICK j \in Ids(d) : \E n \in DOMAIN Compiled(d)[j].kids : Compiled(d)[j].kids[n] = c
  BY <1>2, AcceptedOwned DEF OwnedKids, Stored
<1>4. Compiled(d)[j].kids # <<>>
  BY <1>3
<1>5. Compiled(d)[j].use \in {"foreach", "while", "until"}
  BY <1>4, AcceptedOwned DEF OwnedKids, Stored
<1> QED
  BY <1>1, <1>5 DEF GitHub

\* Everything the runner relies on holds of a plan the compiler accepted.
THEOREM AcceptedPlansFit ==
  ASSUME NEW d, Parsed(d), Accepts(d)
  PROVE  PlanFits(Stored(d), Ids(d), Keys(d))
BY AcceptedStored, AcceptedOrdered, AcceptedOwned, AcceptedFew, AcceptedSaga, AcceptedLayers
   DEF PlanFits
=============================================================================
