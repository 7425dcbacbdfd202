------------------------- MODULE Controller_proofs -------------------------
(***************************************************************************)
(* What the validator and the compiler together deliver, for every         *)
(* manifest that survives parsing, every board and every set of machine    *)
(* numbers: the later gates find nothing the validator passed, the probes  *)
(* decide satisfiability exactly between thresholds that do not absorb     *)
(* one, a validated program is one the supervisor can stand in front of,   *)
(* and the rules rest the relay between changes.                           *)
(*                                                                         *)
(* Of rounding the proofs use only that it takes the nearest number there  *)
(* is: the midpoint of two thresholds lies strictly between them whenever  *)
(* any number does, and one added or taken away, if it is not lost, leads  *)
(* beyond the threshold.                                                   *)
(*                                                                         *)
(* The compiler and the interpreter are folds, over the capabilities of a  *)
(* manifest and over the rules of a program.  That the recursive function  *)
(* of a fold exists is shown once (FoldDefined), by the least cardinality  *)
(* at which it might not; the type of a fold (FoldIn, FoldStays) follows.  *)
(*                                                                         *)
(* The invariant adds to the types what each stage has established: from   *)
(* "compiled" on the program is the compilation of the manifest, and what  *)
(* no caller wrote was valid when it was compiled.                         *)
(***************************************************************************)
EXTENDS Controller, FiniteSetTheorems, WellFoundedInduction, NaturalsInduction, TLAPS

-----------------------------------------------------------------------------
(* Folds. *)

LEMMA LeastExists ==
  ASSUME NEW T \in SUBSET Nat, T # {} PROVE \E n \in T : \A m \in T : n <= m
<1> DEFINE Less == {p \in Nat \X Nat : p[1] < p[2]}
<1>1. IsWellFoundedOn(Less, Nat)
  BY NatLessThanWellFounded DEF OpToRel
<1>2. PICK n \in T : \A m \in T : <<m, n>> \notin Less
  <2> HIDE DEF Less
  <2> QED BY <1>1, WFMin
<1>3. \A m \in T : ~(m < n)
  BY <1>2
<1> QED BY <1>3

\* g is what a fold over the subsets of S takes each of them to.
Folding(g, S, base, step, pick) ==
  \A s \in SUBSET S : g[s] = IF s = {} THEN base ELSE step[<<pick[s], g[s \ {pick[s]}]>>]

LEMMA FoldDefined ==
  ASSUME NEW S, IsFiniteSet(S), NEW V, NEW base \in V, NEW step \in [S \X V -> V],
         NEW pick, \A s \in (SUBSET S) \ {{}} : pick[s] \in s
  PROVE  \E g \in [SUBSET S -> V] : Folding(g, S, base, step, pick)
<1> DEFINE Upto(n) == {s \in SUBSET S : Cardinality(s) <= n}
           Solves(g, n) == \A s \in Upto(n) :
             g[s] = IF s = {} THEN base ELSE step[<<pick[s], g[s \ {pick[s]}]>>]
           Bad == {n \in Nat : ~ \E g \in [Upto(n) -> V] : Solves(g, n)}
<1>1. \A s \in SUBSET S : IsFiniteSet(s) /\ Cardinality(s) \in Nat
                          /\ Cardinality(s) <= Cardinality(S)
  BY FS_Subset, FS_CardinalityType
<1>2. \A s \in (SUBSET S) \ {{}} : s \ {pick[s]} \in SUBSET S
        /\ Cardinality(s \ {pick[s]}) = Cardinality(s) - 1
  BY <1>1, FS_RemoveElement
<1>3. \A s \in SUBSET S : Cardinality(s) = 0 <=> s = {}
  BY <1>1, FS_EmptySet
<1>4. ASSUME Bad # {} PROVE FALSE
  <2>1. PICK n \in Bad : \A m \in Bad : n <= m
    <3> HIDE DEF Bad
    <3>1. Bad \subseteq Nat
      BY DEF Bad
    <3> QED BY <1>4, <3>1, LeastExists
  <2>2. n \in Nat /\ \A m \in Nat : m < n => m \notin Bad
    <3>1. n \in Nat
      BY <2>1
    <3> HIDE DEF Bad
    <3> QED BY <2>1, <3>1
  <2>3. CASE n = 0
    <3>1. Upto(n) = {{}}
      BY <1>1, <1>3, <2>3
    <3>2. [s \in Upto(n) |-> base] \in [Upto(n) -> V]
      OBVIOUS
    <3>3. Solves([s \in Upto(n) |-> base], n)
      BY <3>1
    <3> HIDE DEF Solves, Upto
    <3> QED BY <2>1, <3>2, <3>3
  <2>4. CASE n # 0
    <3>0. n \in Nat /\ n - 1 \in Nat /\ n - 1 < n
      BY <2>2, <2>4
    <3>1. PICK g \in [Upto(n - 1) -> V] : Solves(g, n - 1)
      <4> HIDE DEF Upto, Solves
      <4> QED BY <2>2, <3>0
    <3> DEFINE h == [s \in Upto(n) |->
                       IF s = {} THEN base ELSE step[<<pick[s], g[s \ {pick[s]}]>>]]
    <3>2. \A s \in Upto(n) : s # {} => s \ {pick[s]} \in Upto(n - 1) /\ pick[s] \in S
      BY <1>1, <1>2, <3>0
    <3>3. h \in [Upto(n) -> V]
      <4>1. ASSUME NEW s \in Upto(n), s # {}
            PROVE  step[<<pick[s], g[s \ {pick[s]}]>>] \in V
        <5> HIDE DEF Upto
        <5> QED BY <3>2, <4>1
      <4> HIDE DEF Upto
      <4> QED BY <4>1
    <3>4. \A s \in Upto(n - 1) : s \in Upto(n) /\ h[s] = g[s]
      <4>1. \A s \in Upto(n - 1) : s \in Upto(n)
        BY <1>1, <3>0
      <4> QED BY <3>1, <4>1
    <3>5. Solves(h, n)
      <4> SUFFICES ASSUME NEW s \in Upto(n)
                   PROVE  h[s] = IF s = {} THEN base ELSE step[<<pick[s], h[s \ {pick[s]}]>>]
        OBVIOUS
      <4> QED BY <3>2, <3>4
    <3> HIDE DEF Solves, Upto, h
    <3> QED BY <2>1, <3>3, <3>5
  <2> QED BY <2>3, <2>4
<1>5. PICK g \in [Upto(Cardinality(S)) -> V] : Solves(g, Cardinality(S))
  <2>1. Cardinality(S) \in Nat
    BY <1>1
  <2> HIDE DEF Solves, Upto
  <2> QED BY <1>4, <2>1
<1>6. Upto(Cardinality(S)) = SUBSET S
  BY <1>1
<1> QED BY <1>5, <1>6 DEF Folding

LEMMA FoldIn ==
  ASSUME NEW S, IsFiniteSet(S), NEW V, NEW iter, iter[{}] \in V,
         \A s \in (SUBSET S) \ {{}} : \E x \in s : iter[s \ {x}] \in V => iter[s] \in V
  PROVE  \A s \in SUBSET S : iter[s] \in V
<1> DEFINE Bad == {n \in Nat : \E s \in SUBSET S : Cardinality(s) = n /\ iter[s] \notin V}
<1>1. \A s \in SUBSET S : IsFiniteSet(s) /\ Cardinality(s) \in Nat
  BY FS_Subset, FS_CardinalityType
<1>2. ASSUME Bad # {} PROVE FALSE
  <2>1. PICK n \in Bad : \A m \in Bad : n <= m
    <3> HIDE DEF Bad
    <3>1. Bad \subseteq Nat
      BY DEF Bad
    <3> QED BY <1>2, <3>1, LeastExists
  <2>2. n \in Nat /\ \A m \in Nat : m < n => m \notin Bad
    <3>1. n \in Nat
      BY <2>1
    <3> HIDE DEF Bad
    <3> QED BY <2>1, <3>1
  <2>3. PICK s \in SUBSET S : Cardinality(s) = n /\ iter[s] \notin V
    BY <2>1
  <2>4. s # {}
    BY <2>3
  <2>5. PICK x \in s : iter[s \ {x}] \in V => iter[s] \in V
    BY <2>4
  <2>6. s \ {x} \in SUBSET S /\ Cardinality(s \ {x}) = n - 1 /\ n - 1 \in Nat /\ n - 1 < n
    BY <1>1, <2>2, <2>3, <2>4, FS_RemoveElement, FS_EmptySet
  <2> QED BY <2>2, <2>3, <2>5, <2>6
<1> QED BY <1>1, <1>2

\* What a set of capabilities costs is a number.
LEMMA CostIsNatural == \A capabilities : CostOf(capabilities) \in Nat
<1> TAKE capabilities
<1> DEFINE S == capabilities \cap Capability
           One(s) == CHOOSE x \in s : TRUE
           Sums(f) == f = [s \in SUBSET S |->
                             IF s = {} THEN 0 ELSE Cost[One(s)] + f[s \ {One(s)}]]
           iter == CHOOSE f : Sums(f)
<1>1. CostOf(capabilities) = iter[S]
  BY DEF CostOf, MapThenSumSet, MapThenFoldSet
<1>2. IsFiniteSet(S)
  <2>1. IsFiniteSet(Capability)
    <3>1. Capability = {"read_temperature", "read_distance", "fan_on", "fan_off",
                        "emit_heartbeat", "emit_context_event", "emit_critical_event",
                        "enter_safe_idle"}
      BY DEF Capability, Cost
    <3> DEFINE name == <<"read_temperature", "read_distance", "fan_on", "fan_off",
                         "emit_heartbeat", "emit_context_event", "emit_critical_event",
                         "enter_safe_idle">>
    <3>2. name \in Surjection(1 .. 8, Capability)
      BY <3>1 DEF Surjection
    <3>3. IsFiniteSet(1 .. 8)
      <4> HIDE DEF name
      <4>1. 1 \in Int /\ 8 \in Int
        OBVIOUS
      <4> QED BY <4>1, FS_Interval
    <3> HIDE DEF name
    <3> QED BY <3>2, <3>3, FS_Surjection
  <2> QED BY <2>1, FS_Subset
<1>3. \A c \in Capability : Cost[c] \in Nat
  BY DEF Capability, Cost
<1>4. \A s \in (SUBSET S) \ {{}} : One(s) \in s
  OBVIOUS
<1>5. \E f : Sums(f)
  <2> DEFINE step == [p \in S \X Nat |-> Cost[p[1]] + p[2]]
             pick == [s \in (SUBSET S) \ {{}} |-> One(s)]
  <2>1. step \in [S \X Nat -> Nat]
    BY <1>3
  <2>2. \A s \in (SUBSET S) \ {{}} : pick[s] \in s
    BY <1>4
  <2>3. PICK g \in [SUBSET S -> Nat] : Folding(g, S, 0, step, pick)
    <3> HIDE DEF step, pick, S
    <3>1. 0 \in Nat
      OBVIOUS
    <3> QED BY <1>2, <2>1, <2>2, <3>1, FoldDefined
  <2>4. \A s \in (SUBSET S) \ {{}} : g[s] = Cost[One(s)] + g[s \ {One(s)}]
    BY <2>3, <1>4 DEF Folding
  <2>5. Sums(g)
    BY <2>3, <2>4 DEF Folding
  <2> QED BY <2>5
<1>6. Sums(iter)
  <2> HIDE DEF Sums
  <2> QED BY <1>5
<1>7. iter[{}] \in Nat
  <2> HIDE DEF iter
  <2> QED BY <1>6
<1>8. \A s \in (SUBSET S) \ {{}} : \E x \in s : iter[s \ {x}] \in Nat => iter[s] \in Nat
  <2> HIDE DEF iter
  <2>1. TAKE s \in (SUBSET S) \ {{}}
  <2>2. iter[s] = Cost[One(s)] + iter[s \ {One(s)}]
    BY <1>6
  <2>3. One(s) \in s /\ Cost[One(s)] \in Nat
    BY <1>3, <1>4
  <2> HIDE DEF One
  <2> QED BY <2>2, <2>3
<1> HIDE DEF iter, S
<1>9. \A s \in SUBSET S : iter[s] \in Nat
  BY <1>2, <1>7, <1>8, FoldIn
<1> QED BY <1>1, <1>9

\* The greatest of a set of indices is one of them.
LEMMA MaxOfIndices ==
  ASSUME NEW n \in Nat, NEW S \in SUBSET (1 .. n), S # {} PROVE Max(S) \in S
<1> DEFINE T == {k \in Nat : \E x \in S : k = n - x}
<1>1. T \in SUBSET Nat /\ T # {}
  <2>1. PICK x \in S : TRUE
    OBVIOUS
  <2>2. n - x \in T
    BY <2>1
  <2> QED BY <2>2
<1>2. PICK k \in T : \A m \in T : k <= m
  <2> HIDE DEF T
  <2> QED BY <1>1, LeastExists
<1>3. PICK x \in S : k = n - x
  BY <1>2
<1>4. \A y \in S : x >= y
  <2> TAKE y \in S
  <2>1. n - y \in T
    OBVIOUS
  <2> QED BY <1>2, <1>3, <2>1
<1> QED BY <1>3, <1>4 DEF Max

\* What every rule keeps, a tick keeps.
LEMMA FoldStays ==
  ASSUME NEW n \in Nat, DOMAIN program.rules = 1 .. n,
         NEW V, NEW c \in V, NEW reading,
         \A s \in V, i \in 1 .. n : Try(s, program.rules[i], reading) \in V
  PROVE  RunRules(c, reading) \in V
<1> DEFINE rules == program.rules
           S == 1 .. n
           Runs(f) == f = [s \in SUBSET S |->
                             IF s = {} THEN c
                             ELSE Try(f[s \ {Max(s)}], rules[Max(s)], reading)]
           iter == CHOOSE f : Runs(f)
<1>1. RunRules(c, reading) = iter[S]
  BY DEF RunRules, FoldLeft, MapThenFoldSet
<1>2. IsFiniteSet(S)
  <2>1. 1 \in Int /\ n \in Int
    OBVIOUS
  <2> QED BY <2>1, FS_Interval
<1>3. \A s \in (SUBSET S) \ {{}} : Max(s) \in s
  BY MaxOfIndices
<1>4. \E f : Runs(f)
  <2> DEFINE step == [p \in S \X V |-> Try(p[2], rules[p[1]], reading)]
             pick == [s \in (SUBSET S) \ {{}} |-> Max(s)]
  <2>1. step \in [S \X V -> V]
    OBVIOUS
  <2>2. \A s \in (SUBSET S) \ {{}} : pick[s] \in s
    BY <1>3
  <2>3. PICK g \in [SUBSET S -> V] : Folding(g, S, c, step, pick)
    <3> HIDE DEF step, pick, S
    <3> QED BY <1>2, <2>1, <2>2, FoldDefined
  <2>4. \A s \in (SUBSET S) \ {{}} :
          g[s] = Try(g[s \ {Max(s)}], rules[Max(s)], reading)
    BY <2>3, <1>3 DEF Folding
  <2>5. Runs(g)
    BY <2>3, <2>4 DEF Folding
  <2> QED BY <2>5
<1>5. Runs(iter)
  <2> HIDE DEF Runs
  <2> QED BY <1>4
<1>6. iter[{}] \in V
  <2> HIDE DEF iter
  <2> QED BY <1>5
<1>7. \A s \in (SUBSET S) \ {{}} : \E x \in s : iter[s \ {x}] \in V => iter[s] \in V
  <2> HIDE DEF iter
  <2>1. TAKE s \in (SUBSET S) \ {{}}
  <2>2. iter[s] = Try(iter[s \ {Max(s)}], rules[Max(s)], reading)
    BY <1>5
  <2>3. Max(s) \in s /\ Max(s) \in 1 .. n
    BY <1>3
  <2> QED BY <2>2, <2>3
<1> HIDE DEF iter, S
<1>8. \A s \in SUBSET S : iter[s] \in V
  BY <1>2, <1>6, <1>7, FoldIn
<1> QED BY <1>1, <1>8

-----------------------------------------------------------------------------
(* Comparisons. *)

LEMMA PairMin == \A a, b \in Int : Min({a, b}) = IF a <= b THEN a ELSE b
<1> SUFFICES ASSUME NEW a \in Int, NEW b \in Int
             PROVE  Min({a, b}) = IF a <= b THEN a ELSE b
  OBVIOUS
<1>1. CASE a <= b
  BY <1>1 DEF Min
<1>2. CASE ~(a <= b)
  BY <1>2 DEF Min
<1> QED BY <1>1, <1>2

LEMMA PairMax == \A a, b \in Int : Max({a, b}) = IF a >= b THEN a ELSE b
<1> SUFFICES ASSUME NEW a \in Int, NEW b \in Int
             PROVE  Max({a, b}) = IF a >= b THEN a ELSE b
  OBVIOUS
<1>1. CASE a >= b
  BY <1>1 DEF Max
<1>2. CASE ~(a >= b)
  BY <1>2 DEF Max
<1> QED BY <1>1, <1>2

\* y lies where x lies, as far as a comparison with a can tell.
SameSide(x, y, a) == (x < a <=> y < a) /\ (x = a <=> y = a)

\* Rounding takes the nearest number there is.
LEMMA NearestIsNearest ==
  ASSUME NEW n \in Int, NEW c \in Float
  PROVE  /\ NearestToHalf(n) \in Float
         /\ \A z \in Float : Distance(2 * NearestToHalf(n), n) <= Distance(2 * z, n)
<1> DEFINE T == {Distance(2 * z, n) : z \in Float}
<1>1. Float \subseteq Int
  BY ManifestAssumption
<1>2. \A z \in Float : Distance(2 * z, n) \in Nat
  BY <1>1 DEF Distance
<1>3. T \in SUBSET Nat /\ T # {}
  BY <1>2
<1>4. PICK k \in T : \A m \in T : k <= m
  <2> HIDE DEF T
  <2> QED BY <1>3, LeastExists
<1>5. PICK y \in Float : k = Distance(2 * y, n)
  BY <1>4
<1>6. \A z \in Float : Distance(2 * y, n) <= Distance(2 * z, n)
  BY <1>4, <1>5
<1> QED BY <1>6 DEF NearestToHalf

\* What is added to a number leads beyond it or is lost.
LEMMA AddGoesUp ==
  ASSUME NEW x \in Float, NEW d \in Nat \ {0}
  PROVE  Add(x, d) \in Float /\ (Add(x, d) # x => Add(x, d) > x)
<1>1. x \in Int /\ d \in Int /\ d > 0 /\ Float \subseteq Int
  BY ManifestAssumption
<1> DEFINE n == 2 * (x + d)
           y == Add(x, d)
<1>2. n \in Int
  BY <1>1
<1>3. y = NearestToHalf(n)
  BY DEF Add
<1> HIDE DEF n, y
<1>4. y \in Float /\ y \in Int /\ Distance(2 * y, n) <= Distance(2 * x, n)
  BY <1>1, <1>2, <1>3, NearestIsNearest
<1>5. y # x => y > x
  BY <1>1, <1>4 DEF Distance, n
<1> QED BY <1>4, <1>5 DEF y

LEMMA AddGoesDown ==
  ASSUME NEW x \in Float, NEW d \in Nat \ {0}
  PROVE  Add(x, -d) \in Float /\ (Add(x, -d) # x => Add(x, -d) < x)
<1>1. x \in Int /\ d \in Int /\ d > 0 /\ Float \subseteq Int
  BY ManifestAssumption
<1> DEFINE n == 2 * (x + (-d))
           y == Add(x, -d)
<1>2. n \in Int
  BY <1>1
<1>3. y = NearestToHalf(n)
  BY DEF Add
<1> HIDE DEF n, y
<1>4. y \in Float /\ y \in Int /\ Distance(2 * y, n) <= Distance(2 * x, n)
  BY <1>1, <1>2, <1>3, NearestIsNearest
<1>5. y # x => y < x
  BY <1>1, <1>4 DEF Distance, n
<1> QED BY <1>4, <1>5 DEF y

\* Where there is a number between two, rounding does not leave the gap.
LEMMA MidpointIsBetween ==
  ASSUME NEW a \in Float, NEW b \in Float
  PROVE  /\ Midpoint(a, b) \in Float
         /\ \A c \in Float : a < c /\ c < b => a < Midpoint(a, b) /\ Midpoint(a, b) < b
         /\ \A c \in Float : b < c /\ c < a => b < Midpoint(a, b) /\ Midpoint(a, b) < a
<1>1. a \in Int /\ b \in Int /\ Float \subseteq Int
  BY ManifestAssumption
<1> DEFINE n == a + b
           y == Midpoint(a, b)
<1>2. n \in Int
  BY <1>1
<1>3. y = NearestToHalf(n)
  BY DEF Midpoint
<1> HIDE DEF n, y
<1>4. y \in Float /\ \A c \in Float : Distance(2 * y, n) <= Distance(2 * c, n)
  BY <1>2, <1>3, NearestIsNearest
<1>5. y \in Int
  BY <1>1, <1>4
<1>6. ASSUME NEW c \in Float, a < c, c < b PROVE a < y /\ y < b
  <2>1. c \in Int /\ Distance(2 * y, n) <= Distance(2 * c, n)
    BY <1>1, <1>4
  <2> QED BY <1>1, <1>5, <1>6, <2>1 DEF Distance, n
<1>7. ASSUME NEW c \in Float, b < c, c < a PROVE b < y /\ y < a
  <2>1. c \in Int /\ Distance(2 * y, n) <= Distance(2 * c, n)
    BY <1>1, <1>4
  <2> QED BY <1>1, <1>5, <1>7, <2>1 DEF Distance, n
<1> QED BY <1>4, <1>6, <1>7 DEF y

\* A probe is a number.
LEMMA ProbesAreNumbers ==
  ASSUME NEW a \in Float, NEW b \in Float PROVE Probes(a, b) \subseteq Float
<1>1. a \in Int /\ b \in Int /\ EPSILON \in Nat \ {0} /\ ONE \in Nat \ {0}
  BY ManifestAssumption
<1>2. Min({a, b}) \in Float /\ Max({a, b}) \in Float
  BY <1>1, PairMin, PairMax
<1> QED BY <1>1, <1>2, AddGoesUp, AddGoesDown, MidpointIsBetween DEF Probes

\* There is a probe on every side of two thresholds that do not absorb one.
LEMMA ProbeBeside ==
  ASSUME NEW a \in Float, NEW b \in Float, ~Absorbs(a), ~Absorbs(b), NEW x \in Float
  PROVE  \E y \in Probes(a, b) : y \in Int /\ SameSide(x, y, a) /\ SameSide(x, y, b)
<1>1. a \in Int /\ b \in Int /\ x \in Int /\ Float \subseteq Int /\ ONE \in Nat \ {0}
  BY ManifestAssumption
<1> DEFINE low == IF a <= b THEN a ELSE b
           high == IF a >= b THEN a ELSE b
           below == Add(low, -ONE)
           above == Add(high, ONE)
           middle == Midpoint(a, b)
<1>2. low \in {a, b} /\ low <= a /\ low <= b /\ high \in {a, b} /\ high >= a /\ high >= b
  BY <1>1
<1>3. a \in Probes(a, b) /\ b \in Probes(a, b) /\ below \in Probes(a, b)
      /\ above \in Probes(a, b) /\ middle \in Probes(a, b)
  BY <1>1, PairMin, PairMax DEF Probes
<1>4. below \in Int /\ below < low
  <2> HIDE DEF low
  <2>1. low \in Float /\ ~Absorbs(low)
    BY <1>2
  <2> QED BY <1>1, <2>1, AddGoesDown DEF Absorbs
<1>5. above \in Int /\ above > high
  <2> HIDE DEF high
  <2>1. high \in Float /\ ~Absorbs(high)
    BY <1>2
  <2> QED BY <1>1, <2>1, AddGoesUp DEF Absorbs
<1>6. /\ middle \in Int
      /\ a < x /\ x < b => a < middle /\ middle < b
      /\ b < x /\ x < a => b < middle /\ middle < a
  BY <1>1, MidpointIsBetween
<1> HIDE DEF low, high, below, above, middle
<1>7. low \in Int /\ high \in Int
  BY <1>1, <1>2
<1>8. CASE x = a
  BY <1>1, <1>3, <1>8 DEF SameSide
<1>9. CASE x = b
  BY <1>1, <1>3, <1>9 DEF SameSide
<1>10. CASE x < a /\ x < b
  <2>1. below < a /\ below < b
    BY <1>1, <1>2, <1>4, <1>7
  <2> QED BY <1>1, <1>3, <1>4, <1>10, <2>1 DEF SameSide
<1>11. CASE x > a /\ x > b
  <2>1. above > a /\ above > b
    BY <1>1, <1>2, <1>5, <1>7
  <2> QED BY <1>1, <1>3, <1>5, <1>11, <2>1 DEF SameSide
<1>12. CASE (a < x /\ x < b) \/ (b < x /\ x < a)
  BY <1>1, <1>3, <1>6, <1>12 DEF SameSide
<1> QED BY <1>1, <1>8, <1>9, <1>10, <1>11, <1>12

LEMMA SameSideCompares ==
  ASSUME NEW a \in Int, NEW x \in Int, NEW y \in Int, NEW p \in Operator, SameSide(x, y, a),
         Compares(x, p, a)
  PROVE  Compares(y, p, a)
<1>1. CASE p = ">="
  BY <1>1 DEF SameSide, Compares
<1>2. CASE p = "<="
  BY <1>2 DEF SameSide, Compares
<1>3. CASE p = ">"
  BY <1>3 DEF SameSide, Compares
<1>4. CASE p = "<"
  BY <1>4 DEF SameSide, Compares
<1>5. CASE p = "=="
  BY <1>5 DEF SameSide, Compares
<1>6. CASE p = "/="
  BY <1>6 DEF SameSide, Compares
<1> QED BY <1>1, <1>2, <1>3, <1>4, <1>5, <1>6 DEF Operator

\* The probes miss nothing: where two comparisons with such thresholds share a
\* number, they share one of the probes.
LEMMA ProbesSuffice ==
  ASSUME NEW a \in Float, NEW b \in Float, ~Absorbs(a), ~Absorbs(b),
         NEW p \in Operator, NEW q \in Operator,
         NEW x \in Float, Compares(x, p, a), Compares(x, q, b)
  PROVE  \E y \in Probes(a, b) : Compares(y, p, a) /\ Compares(y, q, b)
<1>1. PICK y \in Probes(a, b) : y \in Int /\ SameSide(x, y, a) /\ SameSide(x, y, b)
  BY ProbeBeside
<1>2. a \in Int /\ b \in Int /\ x \in Int
  BY ManifestAssumption
<1> QED BY <1>1, <1>2, SameSideCompares

-----------------------------------------------------------------------------
(* The compiler. *)

LEMMA Selected ==
  ASSUME NEW r
  PROVE  /\ SelectPattern(r) \in 0 .. 3
         /\ SelectPattern(r) # 0 => Covers(Patterns[SelectPattern(r)], r)
         /\ SelectPattern(r) = 0 => \A i \in DOMAIN Patterns : ~Covers(Patterns[i], r)
<1> DEFINE I == {i \in 1 .. Len(Patterns) : Covers(Patterns[i], r)}
<1>1. Len(Patterns) = 3 /\ DOMAIN Patterns = 1 .. 3
  BY DEF Patterns
<1>2. SelectPattern(r) = IF I # {} THEN Min(I) ELSE 0
  BY DEF SelectPattern, SelectInSeq
<1>3. I # {} => Min(I) \in I
  <2> SUFFICES ASSUME I # {} PROVE Min(I) \in I
    OBVIOUS
  <2>1. I \in SUBSET (1 .. 3)
    BY <1>1
  <2> HIDE DEF I
  <2>2. PICK i \in I : \A j \in I : i <= j
    BY <2>1, LeastExists
  <2> QED BY <2>2 DEF Min
<1> QED BY <1>1, <1>2, <1>3

\* What a rule of a program may be.

AnyRule == [when : [all : BOOLEAN, terms : SUBSET Condition], emit : Capability]

Rules(s) == {s[i] : i \in DOMAIN s}

LEMMA RulesConcat ==
  ASSUME NEW R, NEW s \in Seq(R), NEW t \in Seq(R)
  PROVE  s \o t \in Seq(R) /\ Rules(s \o t) = Rules(s) \cup Rules(t)
<1>1. s \o t \in Seq(R)
  OBVIOUS
<1>2. Rules(s) \subseteq Rules(s \o t)
  BY DEF Rules
<1>3. Rules(t) \subseteq Rules(s \o t)
  <2> SUFFICES ASSUME NEW i \in DOMAIN t PROVE t[i] \in Rules(s \o t)
    BY DEF Rules
  <2>1. Len(s) + i \in DOMAIN (s \o t) /\ (s \o t)[Len(s) + i] = t[i]
    OBVIOUS
  <2> QED BY <2>1 DEF Rules
<1>4. Rules(s \o t) \subseteq Rules(s) \cup Rules(t)
  <2> SUFFICES ASSUME NEW i \in DOMAIN (s \o t) PROVE (s \o t)[i] \in Rules(s) \cup Rules(t)
    BY DEF Rules
  <2>1. CASE i <= Len(s)
    BY <2>1 DEF Rules
  <2>2. CASE ~(i <= Len(s))
    <3>1. i - Len(s) \in DOMAIN t /\ (s \o t)[i] = t[i - Len(s)]
      BY <2>2
    <3> QED BY <3>1 DEF Rules
  <2> QED BY <2>1, <2>2
<1> QED BY <1>1, <1>2, <1>3, <1>4

LEMMA OneRule ==
  ASSUME NEW R, NEW rule \in R
  PROVE  <<rule>> \in Seq(R) /\ Rules(<<rule>>) = {rule}
BY DEF Rules

LEMMA OptionalRule ==
  ASSUME NEW R, NEW m, NEW c, NEW rule \in R
  PROVE  /\ Asked(m, c, rule) \in Seq(R)
         /\ Rules(Asked(m, c, rule)) = IF c \in m.requested THEN {rule} ELSE {}
BY DEF Asked, Rules

LEMMA TriggersAreTyped ==
  ASSUME NEW m \in BehaviorManifest
  PROVE  /\ m.activation \in [all : BOOLEAN, terms : SUBSET Condition] /\ m.activation.terms # {}
         /\ m.recovery \in [all : BOOLEAN, terms : SUBSET Condition] /\ m.recovery.terms # {}
         /\ Always \in [all : BOOLEAN, terms : SUBSET Condition]
BY DEF BehaviorManifest, Trigger, Always

LEMMA Heartbeats ==
  ASSUME NEW m \in BehaviorManifest
  PROVE  /\ HeartbeatRule(m) \in Seq(AnyRule)
         /\ \A rule \in Rules(HeartbeatRule(m)) :
              rule.emit = "emit_heartbeat" /\ "emit_heartbeat" \in m.requested
         /\ "emit_heartbeat" \in m.requested => Rules(HeartbeatRule(m)) # {}
<1> DEFINE rule == Rule(Always, "emit_heartbeat")
<1>1. rule \in AnyRule /\ rule.emit = "emit_heartbeat"
  BY TriggersAreTyped DEF Rule, AnyRule, Capability, Cost
<1>2. HeartbeatRule(m) = Asked(m, "emit_heartbeat", rule)
  BY DEF HeartbeatRule
<1> HIDE DEF rule
<1>3. /\ HeartbeatRule(m) \in Seq(AnyRule)
      /\ Rules(HeartbeatRule(m)) = IF "emit_heartbeat" \in m.requested THEN {rule} ELSE {}
  BY <1>1, <1>2, OptionalRule
<1> QED BY <1>1, <1>3

LEMMA Contexts ==
  ASSUME NEW m \in BehaviorManifest
  PROVE  /\ ContextRule(m) \in Seq(AnyRule)
         /\ \A rule \in Rules(ContextRule(m)) :
              rule.emit = "emit_context_event" /\ "emit_context_event" \in m.requested
<1> DEFINE rule == Rule(m.activation, "emit_context_event")
<1>1. rule \in AnyRule /\ rule.emit = "emit_context_event"
  BY TriggersAreTyped DEF Rule, AnyRule, Capability, Cost
<1>2. ContextRule(m) = Asked(m, "emit_context_event", rule)
  BY DEF ContextRule
<1> HIDE DEF rule
<1>3. /\ ContextRule(m) \in Seq(AnyRule)
      /\ Rules(ContextRule(m)) = IF "emit_context_event" \in m.requested THEN {rule} ELSE {}
  BY <1>1, <1>2, OptionalRule
<1> QED BY <1>1, <1>3

LEMMA Criticals ==
  ASSUME NEW m \in BehaviorManifest
  PROVE  /\ CriticalRule(m) \in Seq(AnyRule)
         /\ \A rule \in Rules(CriticalRule(m)) :
              rule.emit = "emit_critical_event" /\ "emit_critical_event" \in m.requested
<1> DEFINE term == [metric |-> "temperature_c", operator |-> ">=", value |-> EMERGENCY]
           when == [all |-> TRUE, terms |-> {term}]
           rule == Rule(when, "emit_critical_event")
<1>1. rule \in AnyRule /\ rule.emit = "emit_critical_event"
  <2>1. term \in Condition
    BY ManifestAssumption DEF Condition, Operator, Identifier, Metric, Produces, Sensors
  <2> HIDE DEF term
  <2>2. when \in [all : BOOLEAN, terms : SUBSET Condition]
    BY <2>1
  <2> HIDE DEF when
  <2> QED BY <2>2 DEF Rule, AnyRule, Capability, Cost
<1>2. CriticalRule(m) = IF "temperature_c" \notin m.inputs THEN <<>>
                        ELSE Asked(m, "emit_critical_event", rule)
  BY DEF CriticalRule
<1>3. <<>> \in Seq(AnyRule) /\ Rules(<<>>) = {}
  BY DEF Rules
<1> HIDE DEF rule
<1>4. /\ Asked(m, "emit_critical_event", rule) \in Seq(AnyRule)
      /\ Rules(Asked(m, "emit_critical_event", rule))
           = IF "emit_critical_event" \in m.requested THEN {rule} ELSE {}
  BY <1>1, OptionalRule
<1> QED BY <1>1, <1>2, <1>3, <1>4

\* A program that drives the fan: the cooling pattern.
Cools(rules, m) ==
  /\ {"fan_on", "fan_off"} \subseteq m.requested /\ "read_distance" \notin m.requested
  /\ \A rule \in Rules(rules) :
       /\ rule.emit \in m.requested /\ rule.emit # "enter_safe_idle"
       /\ rule.emit = "fan_on" => rule.when = m.activation
       /\ rule.emit = "fan_off" => rule.when = m.recovery
  /\ \E on, off \in Rules(rules) : on.emit = "fan_on" /\ off.emit = "fan_off"

\* One that watches or idles.
Watches(rules, m) ==
  /\ "fan_on" \notin m.requested
  /\ \A rule \in Rules(rules) : rule.emit \in m.requested \ {"fan_on", "fan_off"}

LEMMA CoolingBuilt ==
  ASSUME NEW m \in BehaviorManifest, Covers(Patterns[1], m.requested)
  PROVE  LET rules == Build(Patterns[1].id, m)
         IN  rules \in Seq(AnyRule) /\ Rules(rules) # {} /\ Cools(rules, m)
<1> DEFINE on == Rule(m.activation, "fan_on")
           off == Rule(m.recovery, "fan_off")
           s0 == <<on, off>>
           s1 == s0 \o CriticalRule(m)
           s2 == s1 \o ContextRule(m)
           s3 == s2 \o HeartbeatRule(m)
<1>1. on \in AnyRule /\ off \in AnyRule /\ on.emit = "fan_on" /\ off.emit = "fan_off"
      /\ on.when = m.activation /\ off.when = m.recovery
  BY TriggersAreTyped DEF Rule, AnyRule, Capability, Cost
<1>2. Build(Patterns[1].id, m) = s3
  BY DEF Build, Patterns
<1> HIDE DEF on, off
<1>3. s0 \in Seq(AnyRule) /\ Rules(s0) = {on, off}
  <2>1. DOMAIN s0 = 1 .. 2 /\ s0[1] = on /\ s0[2] = off /\ s0 \in Seq(AnyRule)
    BY <1>1
  <2> HIDE DEF s0
  <2> QED BY <2>1 DEF Rules
<1> HIDE DEF s0
<1>4. s1 \in Seq(AnyRule) /\ Rules(s1) = {on, off} \cup Rules(CriticalRule(m))
  BY <1>3, Criticals, RulesConcat
<1> HIDE DEF s1
<1>5. s2 \in Seq(AnyRule)
      /\ Rules(s2) = {on, off} \cup Rules(CriticalRule(m)) \cup Rules(ContextRule(m))
  BY <1>4, Contexts, RulesConcat
<1> HIDE DEF s2
<1>6. s3 \in Seq(AnyRule)
      /\ Rules(s3) = {on, off} \cup Rules(CriticalRule(m)) \cup Rules(ContextRule(m))
                       \cup Rules(HeartbeatRule(m))
  BY <1>5, Heartbeats, RulesConcat
<1> HIDE DEF s3
<1>7. {"fan_on", "fan_off"} \subseteq m.requested /\ "read_distance" \notin m.requested
  BY DEF Covers, Patterns
<1>8. \A rule \in Rules(s3) :
        \/ rule = on
        \/ rule = off
        \/ rule.emit \in m.requested
           /\ rule.emit \in {"emit_critical_event", "emit_context_event", "emit_heartbeat"}
  BY <1>6, Criticals, Contexts, Heartbeats
<1>9. Cools(s3, m)
  BY <1>1, <1>6, <1>7, <1>8 DEF Cools
<1> QED BY <1>2, <1>6, <1>9

LEMMA MonitorBuilt ==
  ASSUME NEW m \in BehaviorManifest, Covers(Patterns[2], m.requested)
  PROVE  LET rules == Build(Patterns[2].id, m)
         IN  rules \in Seq(AnyRule) /\ Rules(rules) # {} /\ Watches(rules, m)
             /\ \A rule \in Rules(rules) : rule.emit # "enter_safe_idle"
<1> DEFINE s1 == ContextRule(m) \o CriticalRule(m)
           s2 == s1 \o HeartbeatRule(m)
<1>1. Build(Patterns[2].id, m) = s2
  BY DEF Build, Patterns
<1>2. s1 \in Seq(AnyRule) /\ Rules(s1) = Rules(ContextRule(m)) \cup Rules(CriticalRule(m))
  BY Contexts, Criticals, RulesConcat
<1> HIDE DEF s1
<1>3. s2 \in Seq(AnyRule)
      /\ Rules(s2) = Rules(ContextRule(m)) \cup Rules(CriticalRule(m))
                       \cup Rules(HeartbeatRule(m))
  BY <1>2, Heartbeats, RulesConcat
<1> HIDE DEF s2
<1>4. "fan_on" \notin m.requested /\ "emit_heartbeat" \in m.requested
  BY DEF Covers, Patterns
<1>5. \A rule \in Rules(s2) :
        rule.emit \in m.requested
        /\ rule.emit \in {"emit_critical_event", "emit_context_event", "emit_heartbeat"}
  BY <1>3, Criticals, Contexts, Heartbeats
<1>6. Rules(s2) # {}
  BY <1>3, <1>4, Heartbeats
<1> QED BY <1>1, <1>3, <1>4, <1>5, <1>6 DEF Watches

LEMMA IdleBuilt ==
  ASSUME NEW m \in BehaviorManifest, Covers(Patterns[3], m.requested)
  PROVE  LET rules == Build(Patterns[3].id, m)
         IN  rules \in Seq(AnyRule) /\ Rules(rules) # {} /\ Watches(rules, m)
<1> DEFINE idle == Rule(Always, "enter_safe_idle")
           s0 == <<idle>>
           s1 == s0 \o HeartbeatRule(m)
<1>1. Build(Patterns[3].id, m) = s1
  BY DEF Build, Patterns
<1>2. idle \in AnyRule /\ idle.emit = "enter_safe_idle"
  BY TriggersAreTyped DEF Rule, AnyRule, Capability, Cost
<1> HIDE DEF idle
<1>3. s0 \in Seq(AnyRule) /\ Rules(s0) = {idle}
  BY <1>2, OneRule
<1> HIDE DEF s0
<1>4. s1 \in Seq(AnyRule) /\ Rules(s1) = {idle} \cup Rules(HeartbeatRule(m))
  BY <1>3, Heartbeats, RulesConcat
<1> HIDE DEF s1
<1>5. "fan_on" \notin m.requested /\ "enter_safe_idle" \in m.requested
  BY DEF Covers, Patterns
<1>6. \A rule \in Rules(s1) :
        rule.emit \in m.requested /\ rule.emit \in {"enter_safe_idle", "emit_heartbeat"}
  BY <1>2, <1>4, <1>5, Heartbeats
<1> QED BY <1>1, <1>4, <1>5, <1>6 DEF Watches

\* What the compiler builds from a pattern that covers the request.
LEMMA Built ==
  ASSUME NEW m \in BehaviorManifest, SelectPattern(m.requested) # 0
  PROVE  LET rules == ControllerOf(m).rules
         IN  /\ rules \in Seq(AnyRule)
             /\ Rules(rules) # {}
             /\ Cools(rules, m) \/ Watches(rules, m)
<1>1. ControllerOf(m).rules = Build(Patterns[SelectPattern(m.requested)].id, m)
  BY DEF ControllerOf
<1>2. SelectPattern(m.requested) \in {1, 2, 3}
      /\ Covers(Patterns[SelectPattern(m.requested)], m.requested)
  BY Selected
<1>3. CASE SelectPattern(m.requested) = 1
  BY <1>1, <1>2, <1>3, CoolingBuilt
<1>4. CASE SelectPattern(m.requested) = 2
  BY <1>1, <1>2, <1>4, MonitorBuilt
<1>5. CASE SelectPattern(m.requested) = 3
  BY <1>1, <1>2, <1>5, IdleBuilt
<1> QED BY <1>2, <1>3, <1>4, <1>5

\* Rounding up loses nothing.
LEMMA RoundedUp ==
  ASSUME NEW a \in Nat, NEW b \in Nat \ {0}
  PROVE  CeilDiv(a, b) \in Nat /\ CeilDiv(a, b) * b >= a
<1> DEFINE x == a + b - 1
           q == x \div b
<1>1. x \in Nat
  OBVIOUS
<1>2. q \in Nat /\ x < (q + 1) * b
  <2> HIDE DEF x
  <2> QED BY <1>1
<1>3. CeilDiv(a, b) = q
  BY DEF CeilDiv
<1> HIDE DEF q
<1>4. (q + 1) * b = q * b + b /\ q * b \in Nat
  BY <1>2
<1> QED BY <1>2, <1>3, <1>4

\* The compiled hold, in periods of the manifest, is the registry's hold.
LEMMA HoldIsKept ==
  ASSUME NEW m \in BehaviorManifest
  PROVE  /\ MinHoldTicks(m) \in Nat
         /\ "fan_on" \in m.requested => MinHoldTicks(m) * m.period >= HoldTime["fan_on"]
<1> DEFINE holds == {HoldTime[c] : c \in m.requested \cap Actuators}
<1>1. Actuators = {"fan_on", "fan_off"} /\ HoldTime["fan_on"] = 50 /\ HoldTime["fan_off"] = 50
  BY DEF Actuators, Commands, HoldTime
<1>2. holds = {} \/ holds = {50}
  BY <1>1
<1>3. "fan_on" \in m.requested => holds # {}
  BY <1>1
<1>4. MinHoldTicks(m) = IF holds = {} THEN 0 ELSE Max({1, CeilDiv(Max(holds), m.period)})
  BY DEF MinHoldTicks
<1> HIDE DEF holds
<1>5. m.period \in Nat \ {0}
  BY DEF BehaviorManifest
<1>6. CASE holds = {}
  BY <1>3, <1>4, <1>6
<1>7. CASE holds = {50}
  <2>1. Max({50}) = 50
    BY DEF Max
  <2> DEFINE q == CeilDiv(50, m.period)
  <2>2. q \in Nat /\ q * m.period >= 50
    BY <1>5, RoundedUp
  <2> HIDE DEF q
  <2>3. MinHoldTicks(m) = IF 1 >= q THEN 1 ELSE q
    BY <1>4, <1>7, <2>1, <2>2, PairMax DEF q
  <2>4. CASE q <= 1
    <3>1. q = 0 \/ q = 1
      BY <2>2, <2>4
    <3>2. q = 1
      BY <1>5, <2>2, <3>1
    <3> QED BY <1>1, <2>2, <2>3, <3>2
  <2> QED BY <1>1, <2>2, <2>3, <2>4
<1> QED BY <1>2, <1>6, <1>7

LEMMA EmptyProgram == NoController.rules = <<>> /\ Rules(<<>>) = {}
BY DEF NoController, Rules

\* What compiles is the manifest's own program.
LEMMA CompiledIsBuilt ==
  ASSUME NEW m \in BehaviorManifest, NEW board, Compile(m, board) # NoController
  PROVE  Compile(m, board) = ControllerOf(m) /\ SelectPattern(m.requested) # 0
BY DEF Compile, Incoherent

\* What is valid and has a pattern compiles.
LEMMA ValidCompiles ==
  ASSUME NEW m \in BehaviorManifest, NEW board, Valid(m, board), SelectPattern(m.requested) # 0
  PROVE  Compile(m, board) # NoController
<1> DEFINE p == ControllerOf(m)
<1>1. ~Incoherent(m) /\ FallbackNeeds[m.fallback] \subseteq m.requested
  BY DEF Valid, Identity, FallbackReachable, Incoherent
<1>2. p.rules \in Seq(AnyRule) /\ Rules(p.rules) # {}
      /\ \A rule \in Rules(p.rules) : rule.emit \in m.requested
  BY Built DEF Cools, Watches
<1>3. p.sensors = m.requested \cap Sensors /\ p.fallback = FallbackNeeds[m.fallback]
  BY DEF ControllerOf
<1> HIDE DEF p
<1>4. Uses(p) \subseteq m.requested
  BY <1>1, <1>2, <1>3 DEF Uses, Rules
<1>5. \A pin \in PinsUsed(p) : Permitted(pin, board)
  BY <1>4 DEF PinsUsed, Valid, PinPermissions
<1>6. p.rules # <<>>
  BY <1>2, EmptyProgram
<1>7. Compile(m, board) = p
  BY <1>1, <1>5, <1>6 DEF Compile, p
<1> QED BY <1>6, <1>7, EmptyProgram

LEMMA ValidIsAffordable ==
  ASSUME NEW m \in BehaviorManifest, NEW board, Valid(m, board)
  PROVE  ~(ControllerOf(m).cost > ControllerOf(m).budget)
<1>1. CostOf(m.requested) \in Nat /\ m.cpu \in Nat /\ CostOf(m.requested) <= m.cpu
  BY CostIsNatural DEF Valid, ResourceBudget, BehaviorManifest
<1>2. ControllerOf(m).cost = CostOf(m.requested) /\ ControllerOf(m).budget = m.cpu
  BY DEF ControllerOf
<1> QED BY <1>1, <1>2

-----------------------------------------------------------------------------
(* The proposers. *)

LEMMA TemperatureIsTrigger ==
  ASSUME NEW op \in Operator, NEW x \in Float
  PROVE  /\ Temperature(op, x) \in Trigger
         /\ \A c \in Temperature(op, x).terms : c.value = x
<1> DEFINE c == [metric |-> "temperature_c", operator |-> op, value |-> x]
<1>1. c \in Condition /\ c.value = x
  BY DEF Condition, Identifier, Metric, Produces, Sensors
<1>2. Temperature(op, x) = [all |-> TRUE, terms |-> {c}]
  BY DEF Temperature
<1> HIDE DEF c
<1> QED BY <1>1, <1>2 DEF Trigger

\* Values that may be compared with.
Levelled(m) == \A c \in m.activation.terms \cup m.recovery.terms : c.value \in Level

LEMMA LevelsAreNumbers ==
  Threshold \subseteq Float /\ RECOVERY \in Float /\ OVERLAP \in Float /\ USELESS \in Float
BY ControllerAssumption DEF Level

LEMMA ProposalIsLevelled == ASSUME NEW m \in Proposal PROVE m \in BehaviorManifest /\ Levelled(m)
<1>1. m \in BehaviorManifest
  BY ControllerAssumption
<1>2. Levelled(m)
  BY DEF Levelled, Level
<1> QED BY <1>1, <1>2

LEMMA SoundIsManifest ==
  ASSUME NEW x \in Threshold
  PROVE  Sound(x) \in BehaviorManifest /\ Levelled(Sound(x))
<1>1. Temperature(">=", x) \in Trigger /\ Temperature("<", RECOVERY) \in Trigger
      /\ (\A c \in Temperature(">=", x).terms : c.value = x)
      /\ (\A c \in Temperature("<", RECOVERY).terms : c.value = RECOVERY)
  BY LevelsAreNumbers, TemperatureIsTrigger DEF Operator
<1>2. Headroom(COOLING) \in Nat \ {0}
  BY CostIsNatural DEF Headroom
<1>3. Sound(x) \in BehaviorManifest
  <2>1. COOLING \in (SUBSET Identifier) \ {{}} /\ {"temperature_c"} \in SUBSET Identifier
        /\ {"fan"} \in SUBSET Identifier /\ "enter_safe_idle" \in DOMAIN FallbackNeeds
    BY DEF COOLING, Identifier, Capability, Cost, Metric, Produces, Sensors, FallbackNeeds
  <2> QED BY <1>1, <1>2, <2>1, ManifestAssumption, ControllerAssumption
          DEF Sound, BehaviorManifest
<1>4. Levelled(Sound(x))
  BY <1>1 DEF Levelled, Level, Sound
<1> QED BY <1>3, <1>4

LEMMA MonitoringIsManifest ==
  ASSUME NEW m \in BehaviorManifest, Levelled(m)
  PROVE  Monitoring(m) \in BehaviorManifest /\ Levelled(Monitoring(m))
<1>1. Headroom(MONITOR) \in Nat \ {0}
  BY CostIsNatural DEF Headroom
<1>2. MONITOR \in (SUBSET Identifier) \ {{}} /\ {} \in SUBSET Identifier
      /\ "restore_previous_firmware" \in DOMAIN FallbackNeeds
  BY DEF MONITOR, Identifier, Capability, Cost, FallbackNeeds
<1>3. Monitoring(m) \in BehaviorManifest
  BY <1>1, <1>2 DEF Monitoring, BehaviorManifest
<1>4. Monitoring(m).activation = m.activation /\ Monitoring(m).recovery = m.recovery
  BY DEF Monitoring, BehaviorManifest
<1> QED BY <1>3, <1>4 DEF Levelled

LEMMA FlawedIsManifest ==
  ASSUME NEW m \in BehaviorManifest, Levelled(m), NEW v \in Variant
  PROVE  Flawed(m, v) \in BehaviorManifest /\ Levelled(Flawed(m, v))
<1>1. CASE v = "sound"
  BY <1>1 DEF Flawed
<1>2. CASE v = "unknown_capability"
  <2> DEFINE r == (m.requested \ {"emit_critical_event", "enter_safe_idle"})
                     \cup {"gpio_write_raw"}
  <2>1. Flawed(m, v) = [m EXCEPT !.requested = r]
    BY <1>2 DEF Flawed
  <2>2. r \in (SUBSET Identifier) \ {{}}
    BY ControllerAssumption DEF BehaviorManifest, Identifier
  <2> HIDE DEF r
  <2> QED BY <2>1, <2>2 DEF BehaviorManifest, Levelled
<1>3. CASE v = "overlong_lease"
  <2>1. Flawed(m, v) = [m EXCEPT !.lease = 4 * MAX_LEASE]
    BY <1>3 DEF Flawed
  <2>2. 4 * MAX_LEASE \in Nat \ {0}
    BY ManifestAssumption
  <2> QED BY <2>1, <2>2 DEF BehaviorManifest, Levelled
<1>4. CASE v = "overlapping_conditions"
  <2> DEFINE t == Temperature(">", OVERLAP)
  <2>1. Flawed(m, v) = [m EXCEPT !.recovery = t]
    BY <1>4 DEF Flawed
  <2>2. t \in Trigger /\ \A c \in t.terms : c.value \in Level
    BY LevelsAreNumbers, TemperatureIsTrigger DEF Operator, Level
  <2> HIDE DEF t
  <2> QED BY <2>1, <2>2 DEF BehaviorManifest, Levelled
<1>5. CASE v = "undeclared_actuator"
  <2>1. Flawed(m, v) = [m EXCEPT !.outputs = {}]
    BY <1>5 DEF Flawed
  <2> QED BY <2>1 DEF BehaviorManifest, Levelled
<1>6. CASE v = "unsupported_combination"
  <2> DEFINE r == {"read_temperature", "read_distance", "fan_on", "fan_off", "emit_heartbeat"}
  <2>1. Flawed(m, v) = [m EXCEPT !.requested = r, !.inputs = Metric,
                                 !.fallback = "restore_previous_firmware"]
    BY <1>6 DEF Flawed
  <2>2. r \in (SUBSET Identifier) \ {{}} /\ Metric \in SUBSET Identifier
        /\ "restore_previous_firmware" \in DOMAIN FallbackNeeds
    BY DEF Identifier, Capability, Cost, FallbackNeeds
  <2> HIDE DEF r
  <2>3. Flawed(m, v) \in BehaviorManifest
    BY <2>1, <2>2 DEF BehaviorManifest
  <2>4. Flawed(m, v).activation = m.activation /\ Flawed(m, v).recovery = m.recovery
    BY <2>1 DEF BehaviorManifest
  <2> QED BY <2>3, <2>4 DEF Levelled
<1>7. CASE v = "threshold_too_high"
  <2> DEFINE t == Temperature(">=", USELESS)
  <2>1. Flawed(m, v) = [m EXCEPT !.activation = t]
    BY <1>7 DEF Flawed
  <2>2. t \in Trigger /\ \A c \in t.terms : c.value \in Level
    BY LevelsAreNumbers, TemperatureIsTrigger DEF Operator, Level
  <2> HIDE DEF t
  <2> QED BY <2>1, <2>2 DEF BehaviorManifest, Levelled
<1>8. CASE v = "no_cooling"
  <2>1. Flawed(m, v) = Monitoring(m)
    BY <1>8 DEF Flawed
  <2> QED BY <2>1, MonitoringIsManifest
<1> QED BY <1>1, <1>2, <1>3, <1>4, <1>5, <1>6, <1>7, <1>8 DEF Variant

LEMMA StubIsManifest ==
  ASSUME NEW task, task.by \in Variant, task.threshold \in Threshold
  PROVE  Stub(task) \in BehaviorManifest /\ Levelled(Stub(task))
<1> DEFINE m == IF task.heat THEN Sound(task.threshold) ELSE Monitoring(Sound(task.threshold))
<1>1. m \in BehaviorManifest /\ Levelled(m)
  BY SoundIsManifest, MonitoringIsManifest
<1>2. Stub(task) = Flawed(m, task.by)
  BY DEF Stub
<1> HIDE DEF m
<1> QED BY <1>1, <1>2, FlawedIsManifest

-----------------------------------------------------------------------------
(* The invariant. *)

Interpreter == [commanded : {"on", "off"}, moved : BOOLEAN, since : Nat, age : Nat,
                yielded : BOOLEAN, out : {ctl.out}]

Bare == {"asking", "none", "proposed", "valid", "refused"}
Running == {"compiled", "running", "faulted", "ended"}

Typed ==
  /\ TypeOK
  /\ ctl \in Interpreter
  /\ stage = "asking" => attempt < MAX_RETRIES
  /\ stage = "asking" /\ asked.by # "llm" => asked.threshold \in Threshold

\* What is known of a manifest and of the program built from it at each stage.
Staged ==
  /\ manifest # NoManifest => Levelled(manifest)
  /\ stage \in Bare \cup {"compiled", "unbuildable"} => ctl = Idle
  /\ stage \in Bare \cup {"unbuildable"} => program = NoController
  /\ stage \in Running =>
       program = ControllerOf(manifest) /\ SelectPattern(manifest.requested) # 0
  /\ stage = "unbuildable" => Compile(manifest, asked.board) = NoController

Judged ==
  /\ asked.by # "caller" /\ stage \in Running \cup {"valid", "unbuildable"}
       => Valid(manifest, asked.board)
  /\ asked.by # "caller" => stage # "faulted"
  /\ stage \in Bare => asked.by # "caller"

IInv == Typed /\ Staged /\ Judged

LEMMA ProgramTyped ==
  ASSUME NEW m \in BehaviorManifest
  PROVE  /\ ControllerOf(m).hold \in Nat /\ ControllerOf(m).cost \in Nat
         /\ ControllerOf(m).lease \in Nat \ {0}
         /\ ControllerOf(m).hold = MinHoldTicks(m)
BY HoldIsKept, CostIsNatural DEF ControllerOf, BehaviorManifest

LEMMA BareTyped ==
  NoController.hold \in Nat /\ NoController.cost \in Nat /\ NoController.lease = 0
BY DEF NoController

LEMMA IdleTyped ==
  /\ Idle.commanded \in {"on", "off"} /\ Idle.moved \in BOOLEAN /\ Idle.yielded \in BOOLEAN
  /\ Idle.since \in Nat /\ Idle.age = 0
  /\ Idle \in [commanded : {"on", "off"}, moved : BOOLEAN, since : Nat, age : Nat,
               yielded : BOOLEAN, out : {Idle.out}]
BY DEF Idle

LEMMA InitIInv == Init => IInv
<1> SUFFICES ASSUME Init PROVE IInv
  OBVIOUS
<1>1. /\ asked \in [by : Variant \cup {"llm", "caller"}, board : Board, heat : BOOLEAN,
                    threshold : Threshold \cup {RECOVERY}]
      /\ asked.by \in Variant \cup {"llm"} /\ (asked.by # "llm" => asked.threshold \in Threshold)
      /\ attempt = 0 /\ manifest = NoManifest /\ stage = "asking" /\ program = NoController
      /\ ctl = Idle
  BY DEF Init
<1>2. Typed
  <2>1. ctl.age * TICK < program.lease + TICK
    BY <1>1, IdleTyped, BareTyped, ControllerAssumption
  <2>2. attempt \in 0 .. MAX_RETRIES /\ attempt < MAX_RETRIES
    BY <1>1, ControllerAssumption
  <2>3. ctl \in Interpreter
    BY <1>1, IdleTyped DEF Interpreter
  <2> QED BY <1>1, <2>1, <2>2, <2>3, IdleTyped, BareTyped DEF Typed, TypeOK, Stage
<1>3. Staged
  BY <1>1 DEF Staged, Running, Bare
<1>4. Judged
  BY <1>1 DEF Judged, Running, Bare, Variant
<1> QED BY <1>2, <1>3, <1>4 DEF IInv

\* The interpreter is idle and there is no program before the compiler.
LEMMA BareState ==
  ASSUME IInv, stage \in Bare
  PROVE  ctl = Idle /\ program = NoController /\ asked.by # "caller"
BY DEF IInv, Staged, Judged

\* A proposal the validator has not seen.
LEMMA ProposeKeeps ==
  ASSUME IInv, stage = "asking", NEW m \in BehaviorManifest, Levelled(m), Propose(m),
         attempt' \in 0 .. MAX_RETRIES
  PROVE  IInv'
<1>1. manifest' = m /\ stage' = "proposed" /\ UNCHANGED <<asked, program, ctl>>
      /\ m # NoManifest
  BY ControllerAssumption DEF Propose
<1>2. Typed'
  BY <1>1 DEF IInv, Typed, TypeOK, Interpreter, Stage
<1>3. Staged'
  BY <1>1, BareState DEF Staged, Running, Bare, Levelled
<1>4. Judged'
  BY <1>1, BareState DEF Judged, Running, Bare
<1> QED BY <1>2, <1>3, <1>4 DEF IInv

LEMMA SpendKeeps ==
  ASSUME IInv, stage = "asking", asked.by = "llm", attempt' = attempt + 1, Spend
  PROVE  IInv'
<1>1. /\ stage' = (IF attempt + 1 = MAX_RETRIES THEN "none" ELSE "asking")
      /\ UNCHANGED <<asked, manifest, program, ctl>>
  BY DEF Spend
<1>2. attempt \in 0 .. MAX_RETRIES /\ attempt < MAX_RETRIES
  BY DEF IInv, Typed, TypeOK
<1>3. attempt' \in 0 .. MAX_RETRIES /\ (stage' = "asking" => attempt' < MAX_RETRIES)
  BY <1>1, <1>2, ControllerAssumption
<1>4. Typed'
  BY <1>1, <1>3 DEF IInv, Typed, TypeOK, Interpreter, Stage
<1>5. Staged'
  BY <1>1, BareState DEF IInv, Staged, Running, Bare, Levelled
<1>6. Judged'
  BY <1>1, BareState DEF Judged, Running, Bare
<1> QED BY <1>4, <1>5, <1>6 DEF IInv

LEMMA StubProposesKeeps == ASSUME IInv, StubProposes PROVE IInv'
<1>1. stage = "asking" /\ asked.by \in Variant /\ Propose(Stub(asked)) /\ attempt' = attempt
  BY DEF StubProposes
<1>2. asked.threshold \in Threshold
  BY <1>1 DEF IInv, Typed, Variant
<1>3. Stub(asked) \in BehaviorManifest /\ Levelled(Stub(asked))
  BY <1>1, <1>2, StubIsManifest
<1>4. attempt' \in 0 .. MAX_RETRIES
  BY <1>1 DEF IInv, Typed, TypeOK
<1> QED BY <1>1, <1>3, <1>4, ProposeKeeps

LEMMA ReplyKeeps == ASSUME IInv, Reply PROVE IInv'
<1>1. stage = "asking" /\ asked.by = "llm" /\ attempt' = attempt + 1
  BY DEF Reply
<1>2. attempt' \in 0 .. MAX_RETRIES
  BY <1>1, ControllerAssumption DEF IInv, Typed, TypeOK
<1>3. CASE Spend
  BY <1>1, <1>3, SpendKeeps
<1>4. CASE \E m \in Proposal : Propose(m)
  BY <1>1, <1>2, <1>4, ProposalIsLevelled, ProposeKeeps
<1> QED BY <1>3, <1>4 DEF Reply

LEMMA ValidateKeeps == ASSUME IInv, Validate PROVE IInv'
<1>1. /\ stage = "proposed"
      /\ stage' = (IF Valid(manifest, asked.board) THEN "valid" ELSE "refused")
      /\ UNCHANGED <<asked, attempt, manifest, program, ctl>>
  BY DEF Validate
<1>2. Typed'
  BY <1>1 DEF IInv, Typed, TypeOK, Interpreter, Stage
<1>3. Staged'
  BY <1>1, BareState DEF IInv, Staged, Running, Bare, Levelled
<1>4. Judged'
  <2>1. stage' = "valid" => Valid(manifest, asked.board)'
    BY <1>1
  <2> QED BY <1>1, <2>1, BareState DEF Judged, Running, Bare
<1> QED BY <1>2, <1>3, <1>4 DEF IInv

\* Whoever asks for it, what comes out is the manifest's program or none.
LEMMA CompileKeeps ==
  ASSUME IInv, stage \in Bare, NEW m \in BehaviorManifest, Levelled(m), manifest' = m,
         program' = Compile(m, asked.board),
         stage' = (IF program' = NoController THEN "unbuildable" ELSE "compiled"),
         asked' \in [by : Variant \cup {"llm", "caller"}, board : Board, heat : BOOLEAN,
                     threshold : Threshold \cup {RECOVERY}],
         asked'.board = asked.board,
         asked'.by # "caller" => Valid(m, asked.board),
         UNCHANGED <<attempt, ctl>>
  PROVE  IInv'
<1>1. ctl' = Idle /\ m # NoManifest
  BY BareState, ControllerAssumption
<1>2. CASE program' = NoController
  <2>1. stage' = "unbuildable"
    BY <1>2
  <2>2. (ctl.age * TICK < program.lease + TICK)'
    BY <1>1, <1>2, IdleTyped, BareTyped, ControllerAssumption
  <2>3. Typed'
    BY <1>1, <1>2, <2>1, <2>2, BareTyped, IdleTyped
       DEF IInv, Typed, TypeOK, Interpreter, Stage
  <2>4. Staged'
    BY <1>1, <1>2, <2>1 DEF Staged, Running, Bare, Levelled
  <2>5. Judged'
    BY <1>1, <2>1 DEF Judged, Running, Bare
  <2> QED BY <2>3, <2>4, <2>5 DEF IInv
<1>3. CASE program' # NoController
  <2>1. stage' = "compiled" /\ program' = ControllerOf(m) /\ SelectPattern(m.requested) # 0
    BY <1>3, CompiledIsBuilt
  <2>2. (ctl.age * TICK < program.lease + TICK)'
    BY <1>1, <2>1, IdleTyped, ProgramTyped, ControllerAssumption
  <2>3. Typed'
    BY <1>1, <2>1, <2>2, ProgramTyped, IdleTyped DEF IInv, Typed, TypeOK, Interpreter, Stage
  <2>4. Staged'
    BY <1>1, <2>1 DEF Staged, Running, Bare, Levelled
  <2>5. Judged'
    BY <1>1, <2>1 DEF Judged, Running, Bare
  <2> QED BY <2>3, <2>4, <2>5 DEF IInv
<1> QED BY <1>2, <1>3

LEMMA CompileManifestKeeps == ASSUME IInv, CompileManifest PROVE IInv'
<1>1. /\ stage = "valid" /\ program' = Compile(manifest, asked.board)
      /\ stage' = (IF program' = NoController THEN "unbuildable" ELSE "compiled")
      /\ UNCHANGED <<asked, attempt, manifest, ctl>>
  BY DEF CompileManifest, CompileIt
<1>2. manifest \in BehaviorManifest /\ manifest # NoManifest
  BY <1>1 DEF IInv, Typed, TypeOK
<1>3. Levelled(manifest)
  BY <1>2 DEF IInv, Staged
<1>4. stage \in Bare /\ asked.by # "caller" /\ Valid(manifest, asked.board)
  BY <1>1 DEF IInv, Judged, Bare
<1>5. asked' \in [by : Variant \cup {"llm", "caller"}, board : Board, heat : BOOLEAN,
                  threshold : Threshold \cup {RECOVERY}]
  BY <1>1 DEF IInv, Typed, TypeOK
<1> QED BY <1>1, <1>2, <1>3, <1>4, <1>5, CompileKeeps

LEMMA CompileDirectlyKeeps == ASSUME IInv, CompileDirectly PROVE IInv'
<1>1. PICK m \in Proposal :
        /\ manifest' = m /\ program' = Compile(m, asked.board)
        /\ stage' = IF program' = NoController THEN "unbuildable" ELSE "compiled"
  BY DEF CompileDirectly
<1>2. stage = "asking" /\ asked' = [asked EXCEPT !.by = "caller"] /\ UNCHANGED <<attempt, ctl>>
  BY DEF CompileDirectly
<1>3. m \in BehaviorManifest /\ Levelled(m)
  BY ProposalIsLevelled
<1>4. /\ asked' \in [by : Variant \cup {"llm", "caller"}, board : Board, heat : BOOLEAN,
                     threshold : Threshold \cup {RECOVERY}]
      /\ asked'.board = asked.board /\ asked'.by = "caller"
  BY <1>2 DEF IInv, Typed, TypeOK
<1> QED BY <1>1, <1>2, <1>3, <1>4, CompileKeeps DEF Bare

-----------------------------------------------------------------------------
(* The interpreter. *)

\* Where a program is, it is the manifest's.
LEMMA RunningProgram ==
  ASSUME IInv, stage \in Running
  PROVE  /\ manifest \in BehaviorManifest
         /\ program = ControllerOf(manifest) /\ SelectPattern(manifest.requested) # 0
         /\ program.rules \in Seq(AnyRule)
         /\ Cools(program.rules, manifest) \/ Watches(program.rules, manifest)
         /\ program.lease \in Nat \ {0} /\ program.hold \in Nat
<1>1. manifest \in BehaviorManifest
  BY DEF IInv, Typed, TypeOK, Running
<1>2. program = ControllerOf(manifest) /\ SelectPattern(manifest.requested) # 0
  BY DEF IInv, Staged
<1> QED BY <1>1, <1>2, Built, ProgramTyped

\* What is left to say of an action that leaves all but the interpreter alone.
LEMMA RunningKeeps ==
  ASSUME IInv, stage \in Running, stage' \in {"running", "faulted", "ended"},
         UNCHANGED <<asked, attempt, manifest, program>>,
         stage' = "faulted" => asked.by = "caller",
         (ctl \in Interpreter)',
         (ctl.age * TICK < program.lease + TICK)'
  PROVE  IInv'
<1>1. manifest # NoManifest
  BY DEF IInv, Typed, TypeOK, Running
<1>2. Typed'
  BY <1>1 DEF IInv, Typed, TypeOK, Interpreter, Stage
<1>3. Staged'
  BY DEF IInv, Staged, Running, Bare, Levelled
<1>4. Judged'
  BY DEF IInv, Judged, Running, Bare
<1> QED BY <1>2, <1>3, <1>4 DEF IInv

LEMMA InitializeKeeps == ASSUME IInv, Initialize PROVE IInv'
<1>1. /\ stage \in Running /\ stage' = "running"
      /\ UNCHANGED <<asked, attempt, manifest, program>>
  BY DEF Initialize, Running
<1>2. PICK fan \in {"on", "off"} : ctl' = [Idle EXCEPT !.commanded = fan]
  BY DEF Initialize
<1>3. (ctl \in Interpreter)' /\ ctl'.age = 0
  BY <1>2 DEF Idle, Interpreter
<1>4. (ctl.age * TICK < program.lease + TICK)'
  <2>1. program'.lease \in Nat
    BY <1>1, RunningProgram
  <2> QED BY <1>3, <2>1, ControllerAssumption
<1> QED BY <1>1, <1>3, <1>4, RunningKeeps

LEMMA YieldTyped ==
  ASSUME NEW c, NEW o, c \in [commanded : {"on", "off"}, moved : BOOLEAN, since : Nat,
                              age : Nat, yielded : BOOLEAN, out : {o}]
  PROVE  /\ Yield(c).age = c.age /\ Yield(c).since = c.since
         /\ Yield(c) \in [commanded : {"on", "off"}, moved : BOOLEAN, since : Nat,
                          age : Nat, yielded : BOOLEAN, out : {Yield(c).out}]
BY DEF Yield

LEMMA ShutdownKeeps == ASSUME IInv, Shutdown PROVE IInv'
<1>1. /\ stage \in Running /\ stage' = "ended" /\ ctl' = Yield(ctl)
      /\ UNCHANGED <<asked, attempt, manifest, program>>
  BY DEF Shutdown, Running
<1>2. (ctl \in Interpreter)' /\ ctl'.age = ctl.age
  BY <1>1, YieldTyped DEF IInv, Typed, Interpreter
<1>3. (ctl.age * TICK < program.lease + TICK)'
  BY <1>1, <1>2 DEF IInv, Typed, TypeOK
<1> QED BY <1>1, <1>2, <1>3, RunningKeeps

\* The longest that is counted: not less than the hold, and not nothing.
LEMMA CapIsPositive ==
  ASSUME NEW h \in Nat
  PROVE  /\ Max({h, CeilDiv(50, TICK)}) \in Nat \ {0} /\ Max({h, CeilDiv(50, TICK)}) >= h
<1> DEFINE q == CeilDiv(50, TICK)
<1>1. q \in Nat /\ q * TICK >= 50
  BY RoundedUp, ControllerAssumption
<1>2. q # 0
  BY <1>1, ControllerAssumption
<1> HIDE DEF q
<1>3. Max({h, q}) = IF h >= q THEN h ELSE q
  BY <1>1, PairMax
<1> QED BY <1>1, <1>2, <1>3 DEF q

LEMMA OlderTyped ==
  ASSUME IInv, stage \in Running
  PROVE  LET c == Older(ctl)
         IN  /\ c \in [commanded : {"on", "off"}, moved : BOOLEAN, since : Nat, age : Nat,
                       yielded : BOOLEAN, out : {<<>>}]
             /\ c.moved = ctl.moved
             /\ c.since # 0 /\ c.since <= ctl.since + 1
             /\ c.age \in {ctl.age, ctl.age + 1}
             /\ c.age = ctl.age + 1 => ctl.age * TICK < program.lease
<1> DEFINE cap == Max({program.hold, CeilDiv(50, TICK)})
<1>1. cap \in Nat \ {0}
  BY RunningProgram, CapIsPositive
<1>2. ctl \in Interpreter
  BY DEF IInv, Typed
<1> DEFINE age == IF ctl.age * TICK < program.lease THEN ctl.age + 1 ELSE ctl.age
           since == IF ctl.since < cap THEN ctl.since + 1 ELSE ctl.since
<1>3. Older(ctl) = [ctl EXCEPT !.age = age, !.since = since, !.out = <<>>]
  BY DEF Older
<1>4. age \in Nat /\ since \in Nat /\ ctl.since \in Nat /\ ctl.age \in Nat
  <2> HIDE DEF cap
  <2> QED BY <1>2 DEF Interpreter
<1> HIDE DEF cap, age, since
<1>5. /\ Older(ctl) \in [commanded : {"on", "off"}, moved : BOOLEAN, since : Nat, age : Nat,
                         yielded : BOOLEAN, out : {<<>>}]
      /\ Older(ctl).moved = ctl.moved /\ Older(ctl).since = since /\ Older(ctl).age = age
  BY <1>2, <1>3, <1>4 DEF Interpreter
<1>6. /\ Older(ctl) \in [commanded : {"on", "off"}, moved : BOOLEAN, since : Nat, age : Nat,
                         yielded : BOOLEAN, out : {<<>>}]
      /\ Older(ctl).moved = ctl.moved
      /\ Older(ctl).since = (IF ctl.since < cap THEN ctl.since + 1 ELSE ctl.since)
      /\ Older(ctl).age = (IF ctl.age * TICK < program.lease THEN ctl.age + 1 ELSE ctl.age)
      /\ ctl.since \in Nat /\ ctl.age \in Nat
  BY <1>4, <1>5 DEF age, since
<1> QED BY <1>1, <1>6

\* An interpreter at the start of a tick.
Fresh == [commanded : {"on", "off"}, moved : BOOLEAN, since : Nat, age : Nat,
          yielded : BOOLEAN, out : {<<>>}]

\* What a tick may have become after some of its rules: the fan is left alone,
\* or it has changed, by a rule that may, and not within the hold.
Ticked(c) ==
  {s \in [commanded : {"on", "off"}, moved : BOOLEAN, since : Nat, age : {c.age},
          yielded : {c.yielded}, out : Seq(Capability)] :
     \/ s.moved = c.moved /\ s.since = c.since /\ Emitted(s) \cap Actuators = {}
     \/ /\ ~c.moved \/ c.since >= program.hold
        /\ \E rule \in Rules(program.rules) : rule.emit \in Actuators}

LEMMA TryTicks ==
  ASSUME IInv, stage \in Running, NEW c \in Fresh,
         NEW reading, NEW s \in Ticked(c), NEW i \in DOMAIN program.rules
  PROVE  Try(s, program.rules[i], reading) \in Ticked(c)
<1> DEFINE cap == program.rules[i].emit
<1>1. program.rules[i] \in Rules(program.rules) /\ cap \in Capability
  <2>1. program.rules[i] \in AnyRule
    <3>1. program.rules \in Seq(AnyRule)
      BY RunningProgram
    <3> QED BY <3>1
  <2> QED BY <2>1 DEF Rules, AnyRule
<1>2. s \in [commanded : {"on", "off"}, moved : BOOLEAN, since : Nat, age : {c.age},
             yielded : {c.yielded}, out : Seq(Capability)]
  BY DEF Ticked
<1>3. program.hold \in Nat /\ c.moved \in BOOLEAN /\ c.since \in Nat
  BY RunningProgram DEF Fresh
<1>4. Try(s, program.rules[i], reading) \in {s, MaybeEmit(s, cap)}
  BY DEF Try
<1>5. MaybeEmit(s, cap) \in Ticked(c)
  <2>1. Append(s.out, cap) \in Seq(Capability)
    BY <1>1, <1>2
  <2>2. CASE cap \notin Actuators
    <3> DEFINE r == [s EXCEPT !.out = Append(s.out, cap)]
    <3>1. MaybeEmit(s, cap) = r
      BY <2>2 DEF MaybeEmit
    <3> HIDE DEF cap
    <3>2. /\ r \in [commanded : {"on", "off"}, moved : BOOLEAN, since : Nat, age : {c.age},
                   yielded : {c.yielded}, out : Seq(Capability)]
          /\ r.moved = s.moved /\ r.since = s.since /\ r.out = Append(s.out, cap)
      BY <1>2, <2>1
    <3> HIDE DEF r
    <3>3. Emitted(r) = Emitted(s) \cup {cap}
      <4>1. s.out \in Seq(Capability) /\ cap \in Capability
        BY <1>1, <1>2
      <4>2. /\ DOMAIN r.out = DOMAIN s.out \cup {Len(s.out) + 1}
            /\ r.out[Len(s.out) + 1] = cap
            /\ \A k \in DOMAIN s.out : r.out[k] = s.out[k]
        BY <3>2, <4>1
      <4> QED BY <4>2 DEF Emitted
    <3> QED BY <2>2, <3>1, <3>2, <3>3 DEF Ticked
  <2>3. CASE cap \in Actuators
    <3>1. Commands[cap] \in {"on", "off"}
      BY <2>3 DEF Actuators, Commands
    <3>2. CASE s.commanded = Commands[cap] \/ (s.moved /\ s.since < program.hold)
      BY <2>3, <3>2 DEF MaybeEmit
    <3>3. CASE ~(s.commanded = Commands[cap] \/ (s.moved /\ s.since < program.hold))
      <4> DEFINE r == [s EXCEPT !.commanded = Commands[cap], !.moved = TRUE, !.since = 0,
                                !.out = Append(s.out, cap)]
      <4>1. MaybeEmit(s, cap) = r
        BY <2>3, <3>3 DEF MaybeEmit
      <4>2. ~c.moved \/ c.since >= program.hold
        <5>1. ~s.moved \/ s.since >= program.hold
          BY <1>2, <1>3, <3>3
        <5> QED BY <5>1 DEF Ticked
      <4>3. r \in [commanded : {"on", "off"}, moved : BOOLEAN, since : Nat, age : {c.age},
                   yielded : {c.yielded}, out : Seq(Capability)]
        <5> HIDE DEF cap
        <5> QED BY <1>2, <2>1, <3>1
      <4> HIDE DEF r
      <4>4. \E rule \in Rules(program.rules) : rule.emit \in Actuators
        BY <1>1, <2>3
      <4> QED BY <4>1, <4>2, <4>3, <4>4 DEF Ticked
    <3> QED BY <3>2, <3>3
  <2> QED BY <2>2, <2>3
<1> QED BY <1>4, <1>5

LEMMA TickTicks ==
  ASSUME IInv, stage \in Running, NEW reading
  PROVE  LET c == Older(ctl)
         IN  RunRules(c, reading) \in Ticked(c)
<1>1. PICK c : c = Older(ctl)
  OBVIOUS
<1>2. PICK n : n = Len(program.rules)
  OBVIOUS
<1>3. n \in Nat /\ DOMAIN program.rules = 1 .. n
  <2>1. program.rules \in Seq(AnyRule)
    BY RunningProgram
  <2> QED BY <1>2, <2>1
<1>4. c \in Ticked(c) /\ c \in Fresh
  <2>1. c \in [commanded : {"on", "off"}, moved : BOOLEAN, since : Nat, age : Nat,
               yielded : BOOLEAN, out : {<<>>}]
    BY <1>1, OlderTyped
  <2>2. c \in [commanded : {"on", "off"}, moved : BOOLEAN, since : Nat, age : {c.age},
               yielded : {c.yielded}, out : Seq(Capability)]
    <3>1. <<>> \in Seq(Capability)
      OBVIOUS
    <3>2. c.age \in {c.age} /\ c.yielded \in {c.yielded}
      OBVIOUS
    <3> QED BY <2>1, <3>1, <3>2
  <2>3. Emitted(c) = {}
    BY <2>1 DEF Emitted
  <2> QED BY <2>1, <2>2, <2>3 DEF Ticked, Fresh
<1>5. \A s \in Ticked(c), i \in 1 .. n : Try(s, program.rules[i], reading) \in Ticked(c)
  <2> SUFFICES ASSUME NEW s \in Ticked(c), NEW i \in 1 .. n
               PROVE  Try(s, program.rules[i], reading) \in Ticked(c)
    OBVIOUS
  <2>1. i \in DOMAIN program.rules
    BY <1>3
  <2> QED BY <1>4, <2>1, TryTicks
<1>6. RunRules(c, reading) \in Ticked(c)
  BY <1>3, <1>4, <1>5, FoldStays
<1> QED BY <1>1, <1>6

LEMMA TickKeeps == ASSUME IInv, NEW reading, Step(reading) PROVE IInv'
<1>1. stage = "running" /\ stage \in Running /\ UNCHANGED <<asked, attempt, manifest, program>>
  BY DEF Step, Running
<1>2. manifest \in BehaviorManifest /\ program = ControllerOf(manifest)
      /\ program.lease \in Nat \ {0}
  BY <1>1, RunningProgram
<1>3. CASE program.cost > program.budget
  <2>1. stage' = "faulted" /\ ctl' = [ctl EXCEPT !.out = <<>>]
    BY <1>3 DEF Step
  <2>2. asked.by = "caller"
    BY <1>1, <1>2, <1>3, ValidIsAffordable DEF IInv, Judged
  <2>3. (ctl \in Interpreter)' /\ (ctl.age * TICK < program.lease + TICK)'
    BY <1>1, <2>1 DEF IInv, Typed, TypeOK, Interpreter
  <2> QED BY <1>1, <2>1, <2>2, <2>3, RunningKeeps
<1>4. CASE ~(program.cost > program.budget)
  <2>1. PICK c : c = Older(ctl)
    OBVIOUS
  <2>2. /\ stage' = stage
        /\ ctl' = IF c.age * TICK < program.lease THEN RunRules(c, reading)
                  ELSE IF c.yielded THEN c ELSE Yield(c)
    BY <1>4, <2>1 DEF Step
  <2>3. /\ c \in Fresh /\ c.age \in Nat /\ ctl.age \in Nat
        /\ c.age \in {ctl.age, ctl.age + 1}
        /\ c.age = ctl.age + 1 => ctl.age * TICK < program.lease
    BY <1>1, <2>1, OlderTyped DEF Fresh, IInv, Typed, Interpreter
  <2>4. RunRules(c, reading) \in Ticked(c)
    BY <1>1, <2>1, TickTicks
  <2>5. ctl' \in [commanded : {"on", "off"}, moved : BOOLEAN, since : Nat, age : Nat,
                  yielded : BOOLEAN, out : {ctl'.out}]
        /\ ctl'.age = c.age
    <3>1. CASE ctl' = RunRules(c, reading)
      BY <2>3, <2>4, <3>1 DEF Ticked, Fresh
    <3>2. CASE ctl' = c
      BY <2>3, <3>2 DEF Fresh
    <3>3. CASE ctl' = Yield(c)
      BY <2>3, <3>3, YieldTyped DEF Fresh
    <3> QED BY <2>2, <3>1, <3>2, <3>3
  <2>6. c.age * TICK < program.lease + TICK
    <3>1. CASE c.age = ctl.age
      BY <3>1 DEF IInv, Typed, TypeOK
    <3>2. CASE c.age = ctl.age + 1
      <4>1. (ctl.age + 1) * TICK = ctl.age * TICK + TICK /\ ctl.age * TICK \in Nat
        BY <2>3, ControllerAssumption
      <4> QED BY <1>2, <2>3, <3>2, <4>1, ControllerAssumption
    <3> QED BY <2>3, <3>1, <3>2
  <2>7. (ctl \in Interpreter)' /\ (ctl.age * TICK < program.lease + TICK)'
    BY <1>1, <2>5, <2>6 DEF Interpreter
  <2> QED BY <1>1, <2>2, <2>7, RunningKeeps
<1> QED BY <1>3, <1>4

LEMMA NextKeeps == IInv /\ [Next]_vars => IInv'
<1> SUFFICES ASSUME IInv, [Next]_vars PROVE IInv'
  OBVIOUS
<1>1. CASE UNCHANGED vars
  BY <1>1 DEF vars, IInv, Typed, TypeOK, Interpreter, Staged, Judged, Running, Bare, Levelled
<1>2. CASE StubProposes \/ Reply \/ Validate \/ CompileManifest \/ CompileDirectly
  BY <1>2, StubProposesKeeps, ReplyKeeps, ValidateKeeps, CompileManifestKeeps,
     CompileDirectlyKeeps
<1>3. CASE Initialize \/ Shutdown
  BY <1>3, InitializeKeeps, ShutdownKeeps
<1>4. CASE \E reading \in Reading : Step(reading)
  BY <1>4, TickKeeps
<1> QED BY <1>1, <1>2, <1>3, <1>4 DEF Next

LEMMA InvAlways == Spec => []IInv
BY InitIInv, NextKeeps, PTL DEF Spec

-----------------------------------------------------------------------------

\* From the proposal to the running program, everything has its type, and a
\* program never counts beyond its lease.
THEOREM ControllerTypeCorrect == Spec => []TypeOK
BY InvAlways, PTL DEF IInv, Typed

\* What the validator passed is refused by the compiler only where no pattern
\* covers the request, and never runs over its own budget (validator.py,
\* compiler.py, runtime.py step).
THEOREM LaterGatesFindNothing == Spec => []ValidatedIsRunnable
<1>1. IInv => ValidatedIsRunnable
  <2> SUFFICES ASSUME IInv, asked.by # "caller" PROVE ValidatedIsRunnable
    BY DEF ValidatedIsRunnable
  <2>1. stage # "faulted"
    BY DEF IInv, Judged
  <2>2. ASSUME stage = "unbuildable"
        PROVE  \A i \in DOMAIN Patterns : ~Covers(Patterns[i], manifest.requested)
    <3>1. manifest \in BehaviorManifest
      BY <2>2 DEF IInv, Typed, TypeOK
    <3>2. Valid(manifest, asked.board) /\ Compile(manifest, asked.board) = NoController
      BY <2>2 DEF IInv, Judged, Staged
    <3>3. SelectPattern(manifest.requested) = 0
      BY <3>1, <3>2, ValidCompiles
    <3> QED BY <3>3, Selected
  <2> QED BY <2>1, <2>2 DEF ValidatedIsRunnable
<1> QED BY <1>1, InvAlways, PTL

\* The probes, rounded, never find what no number satisfies, and miss nothing
\* between thresholds that do not absorb one (validator.py
\* _satisfiable_together), whatever the numbers and the operators.
THEOREM ProbesAreExact == Spec => []ConsistencyIsExact
<1>1. IInv => ConsistencyIsExact
  <2> SUFFICES ASSUME IInv, stage \in {"proposed", "compiled", "unbuildable"},
                      NEW l \in manifest.activation.terms, NEW r \in manifest.recovery.terms,
                      l.metric = r.metric
               PROVE  /\ SatisfiableTogether(l, r) => SharesReading(l, r)
                      /\ SharesReading(l, r) =>
                           SatisfiableTogether(l, r)
                             \/ \E x \in {l.value, r.value} : Absorbs(x)
    BY DEF ConsistencyIsExact
  <2>1. manifest \in BehaviorManifest /\ manifest # NoManifest
    BY DEF IInv, Typed, TypeOK
  <2>2. l \in Condition /\ r \in Condition
    BY <2>1 DEF BehaviorManifest, Trigger
  <2>3. l.value \in Float /\ r.value \in Float
        /\ l.operator \in Operator /\ r.operator \in Operator
    BY <2>2 DEF Condition
  <2>4. \A x : LET reading == [metric \in {l.metric} |-> x]
               IN  (Evaluate(l, reading) /\ Evaluate(r, reading)
                      <=> Compares(x, l.operator, l.value) /\ Compares(x, r.operator, r.value))
    BY DEF Evaluate
  <2>5. SharesReading(l, r)
          <=> \E x \in Float : Compares(x, l.operator, l.value)
                               /\ Compares(x, r.operator, r.value)
    BY <2>4 DEF SharesReading
  <2>6. Probes(l.value, r.value) \subseteq Float
    BY <2>3, ProbesAreNumbers
  <2>7. SatisfiableTogether(l, r) => SharesReading(l, r)
    BY <2>5, <2>6 DEF SatisfiableTogether
  <2>8. ASSUME SharesReading(l, r), ~Absorbs(l.value), ~Absorbs(r.value)
        PROVE  SatisfiableTogether(l, r)
    BY <2>3, <2>5, <2>8, ProbesSuffice DEF SatisfiableTogether
  <2> QED BY <2>7, <2>8
<1> QED BY <1>1, InvAlways, PTL

\* Where the conditions of a valid cooling manifest hold together, its sensors
\* have read nothing a thermometer can show.
LEMMA NeverBoth ==
  ASSUME NEW m \in BehaviorManifest, NEW board, Valid(m, board), "read_distance" \notin m.requested,
         \A x \in Thresholds(m) : ~Absorbs(x),
         NEW reading \in Readings, Holds(m.activation, reading), Holds(m.recovery, reading)
  PROVE  FALSE
<1>1. m.activation.terms # {} /\ m.recovery.terms # {}
      /\ m.activation.terms \subseteq Condition /\ m.recovery.terms \subseteq Condition
  BY TriggersAreTyped
<1>2. PICK l \in m.activation.terms : Evaluate(l, reading)
  BY <1>1 DEF Holds
<1>3. PICK r \in m.recovery.terms : Evaluate(r, reading)
  BY <1>1 DEF Holds
<1>4. \A c \in m.activation.terms \cup m.recovery.terms : c.metric = "temperature_c"
  <2>1. MetricsUsed(m) \subseteq {Produces[c] : c \in m.requested \cap Sensors}
    BY DEF Valid, SensorBinding
  <2>2. m.requested \cap Sensors \subseteq {"read_temperature"}
    BY DEF Sensors, Produces
  <2>3. Produces["read_temperature"] = "temperature_c"
    BY DEF Produces
  <2> QED BY <2>1, <2>2, <2>3 DEF MetricsUsed
<1>5. PICK x \in Float : reading["temperature_c"] = x
  <2>1. "temperature_c" \in Metric
    BY DEF Metric, Sensors, Produces
  <2> QED BY <2>1 DEF Readings
<1>6. Compares(x, l.operator, l.value) /\ Compares(x, r.operator, r.value)
  BY <1>2, <1>3, <1>4, <1>5 DEF Evaluate
<1>7. l.operator \in Operator /\ r.operator \in Operator
      /\ l.value \in Float /\ r.value \in Float
      /\ ~Absorbs(l.value) /\ ~Absorbs(r.value)
  BY <1>1 DEF Condition, Thresholds
<1>8. SatisfiableTogether(l, r)
  BY <1>6, <1>7, ProbesSuffice DEF SatisfiableTogether
<1> QED BY <1>4, <1>8 DEF Valid, ConditionConsistency

\* The validator and the compiler together deliver what the supervisor relies
\* on in any program (supervisor.py; validator.py _check_condition_consistency,
\* compiler.py select_pattern), whatever the reading, unless a threshold absorbs
\* one.
THEOREM ProgramsServe == Spec => []ServesTheSupervisor
<1>1. IInv => ServesTheSupervisor
  <2> SUFFICES ASSUME IInv, Validated PROVE ServesTheSupervisor
    BY DEF ServesTheSupervisor
  <2> DEFINE emitted == {program.rules[i].emit : i \in DOMAIN program.rules}
  <2>1. /\ manifest \in BehaviorManifest /\ program = ControllerOf(manifest)
        /\ Cools(program.rules, manifest) \/ Watches(program.rules, manifest)
    BY RunningProgram DEF Validated, Running
  <2>2. Valid(manifest, asked.board)
    BY DEF Validated, IInv, Judged, Running
  <2>3. Actuators = {"fan_on", "fan_off"}
    BY DEF Actuators, Commands
  <2>4. \A i \in DOMAIN program.rules : program.rules[i] \in Rules(program.rules)
    BY DEF Rules
  <2>5. ASSUME NEW reading \in Readings,
               NEW i \in {k \in DOMAIN program.rules : Fires(k, reading)},
               NEW j \in {k \in DOMAIN program.rules : Fires(k, reading)},
               \A x \in Thresholds(manifest) : ~Absorbs(x),
               {program.rules[i].emit, program.rules[j].emit} = {"fan_on", "fan_off"}
        PROVE  FALSE
    <3>1. Cools(program.rules, manifest)
      BY <2>1, <2>4, <2>5 DEF Watches
    <3>2. Holds(manifest.activation, reading) /\ Holds(manifest.recovery, reading)
      BY <2>4, <2>5, <3>1 DEF Cools, Fires
    <3>3. "read_distance" \notin manifest.requested
      BY <3>1 DEF Cools
    <3>4. \A x \in Thresholds(manifest) : ~Absorbs(x)
      BY <2>5
    <3> QED BY <2>1, <2>2, <2>5, <3>2, <3>3, <3>4, NeverBoth
  <2>6. "enter_safe_idle" \in emitted => emitted \cap Actuators = {}
    <3>1. CASE Cools(program.rules, manifest)
      BY <2>4, <3>1 DEF Cools
    <3>2. CASE Watches(program.rules, manifest)
      BY <2>3, <2>4, <3>2 DEF Watches
    <3> QED BY <2>1, <3>1, <3>2
  <2>7. "fan_on" \in program.fallback => Actuators \subseteq emitted
    <3>1. program.fallback \subseteq manifest.requested
      BY <2>1, <2>2 DEF ControllerOf, Valid, FallbackReachable
    <3>2. CASE Cools(program.rules, manifest)
      BY <2>3, <3>2 DEF Cools, Rules
    <3>3. CASE Watches(program.rules, manifest)
      BY <3>1, <3>3 DEF Watches
    <3> QED BY <2>1, <3>2, <3>3
  <2> QED BY <2>5, <2>6, <2>7 DEF ServesTheSupervisor, NeverOnAndOff
<1> QED BY <1>1, InvAlways, PTL

\* Ticks enough for the hold, in time enough.
LEMMA HoldInTime ==
  ASSUME NEW q \in Nat, NEW b \in Nat \ {0}, NEW t \in Nat, NEW k \in Nat,
         q * b >= 50, t >= b, k >= q
  PROVE  k * t >= 50
<1>1. k * t >= q * t
  OBVIOUS
<1>2. q * t >= q * b
  OBVIOUS
<1> QED BY <1>1, <1>2

\* A set of no element or of one, as a sequence.
LEMMA SetToSeqOfFew ==
  ASSUME NEW S, S = {} \/ \E x : S = {x}
  PROVE  SetToSeq(S) \in [1 .. Cardinality(S) -> S]
<1> DEFINE Orders(f) == f \in [1 .. Cardinality(S) -> S] /\ IsInjective(f)
<1>1. \E f : Orders(f)
  <2>1. CASE S = {}
    <3>1. Cardinality(S) = 0
      BY <2>1, FS_EmptySet
    <3>2. Orders([i \in 1 .. 0 |-> i])
      BY <2>1, <3>1 DEF IsInjective
    <3> QED BY <3>2
  <2>2. ASSUME NEW x, S = {x} PROVE \E f : Orders(f)
    <3>1. Cardinality(S) = 1
      BY <2>2, FS_Singleton
    <3>2. Orders([i \in 1 .. 1 |-> x])
      BY <2>2, <3>1 DEF IsInjective
    <3> QED BY <3>2
  <2> QED BY <2>1, <2>2
<1> QED BY <1>1 DEF SetToSeq

\* Handing over emits the fallback, which may be to drive the fan on.
LEMMA YieldHandsOver ==
  ASSUME IInv, stage \in Running, NEW c \in Interpreter \cup Fresh, ctl' = Yield(c),
         ChangesAgain
  PROVE  HandsOver
<1> DEFINE fallback == program.fallback
<1>1. fallback \in {{"enter_safe_idle"}, {"fan_on"}, {}}
  BY RunningProgram DEF ControllerOf, FallbackNeeds, BehaviorManifest
<1>2. ctl'.yielded = TRUE /\ ctl'.out = SetToSeq(fallback)
  BY DEF Yield, Interpreter, Fresh
<1> HIDE DEF fallback
<1>3. SetToSeq(fallback) \in [1 .. Cardinality(fallback) -> fallback]
  BY <1>1, SetToSeqOfFew
<1>4. Emitted(ctl') \subseteq fallback
  BY <1>2, <1>3 DEF Emitted
<1>5. fallback \cap Actuators # {}
  BY <1>4 DEF ChangesAgain
<1>6. "enter_safe_idle" \notin Actuators
  BY DEF Actuators, Commands
<1>7. fallback = {"fan_on"}
  BY <1>1, <1>5, <1>6
<1> QED BY <1>2, <1>4, <1>7 DEF HandsOver

\* Nothing but a tick and a hand-over emits anything.
LEMMA SilentNeverChanges == ASSUME ctl'.out = <<>>, ChangesAgain PROVE FALSE
BY DEF ChangesAgain, Emitted

LEMMA ChangesInTime ==
  ASSUME IInv, Next, ChangesAgain, manifest.period <= TICK
  PROVE  Rested \/ HandsOver
<1>1. ctl.age \in Nat /\ ctl.since \in Nat /\ ctl \in Interpreter
  BY DEF IInv, Typed, Interpreter
<1>2. CASE Initialize
  <2>1. ctl'.out = <<>>
    BY <1>2 DEF Initialize, Idle
  <2> QED BY <2>1, SilentNeverChanges
<1>3. CASE Shutdown
  <2>1. stage \in Running /\ ctl' = Yield(ctl)
    BY <1>3 DEF Shutdown, Running
  <2> QED BY <1>1, <2>1, YieldHandsOver
<1>4. ASSUME NEW reading, Step(reading)
      PROVE  Rested \/ HandsOver
  <2>1. stage \in Running
    BY <1>4 DEF Step, Running
  <2>2. PICK c : c = Older(ctl)
    OBVIOUS
  <2>3. c \in Fresh /\ c.moved = ctl.moved /\ c.since \in Nat /\ c.since <= ctl.since + 1
    BY <2>1, <2>2, OlderTyped DEF Fresh
  <2>4. CASE program.cost > program.budget
    <3>1. ctl'.out = <<>>
      BY <1>1, <1>4, <2>4 DEF Step, Interpreter
    <3> QED BY <3>1, SilentNeverChanges
  <2>5. CASE ctl' = c
    <3>1. ctl'.out = <<>>
      BY <2>3, <2>5 DEF Fresh
    <3> QED BY <3>1, SilentNeverChanges
  <2>6. CASE ctl' = Yield(c)
    BY <2>1, <2>3, <2>6, YieldHandsOver
  <2>7. CASE ctl' = RunRules(c, reading)
    <3>1. ctl' \in Ticked(c)
      BY <2>1, <2>2, <2>7, TickTicks
    <3>2. c.moved /\ Emitted(ctl') \cap Actuators # {}
      BY <2>3 DEF ChangesAgain
    <3>3. c.since >= program.hold /\ \E rule \in Rules(program.rules) : rule.emit \in Actuators
      BY <3>1, <3>2 DEF Ticked
    <3>4. manifest \in BehaviorManifest /\ program = ControllerOf(manifest)
          /\ "fan_on" \in manifest.requested
      <4>1. Actuators = {"fan_on", "fan_off"}
        BY DEF Actuators, Commands
      <4> QED BY <2>1, <3>3, <4>1, RunningProgram DEF Cools, Watches
    <3>5. program.hold \in Nat /\ program.hold * manifest.period >= 50
          /\ manifest.period \in Nat \ {0} /\ HoldTime["fan_on"] = 50
      BY <3>4, HoldIsKept, ProgramTyped DEF BehaviorManifest, HoldTime
    <3>6. ctl.since + 1 \in Nat /\ ctl.since + 1 >= program.hold
      BY <1>1, <2>3, <3>3, <3>5
    <3> QED BY <3>5, <3>6, HoldInTime, ControllerAssumption DEF Rested
  <2>8. ~(program.cost > program.budget)
          => ctl' \in {c, Yield(c), RunRules(c, reading)}
    BY <1>4, <2>2 DEF Step
  <2> QED BY <2>4, <2>5, <2>6, <2>7, <2>8
<1>5. CASE StubProposes \/ Reply \/ Validate \/ CompileManifest \/ CompileDirectly
  <2>1. ctl' = ctl /\ stage \in Bare
    BY <1>5 DEF StubProposes, Reply, Propose, Spend, Validate, CompileManifest, CompileIt,
                CompileDirectly, Bare
  <2>2. ctl'.out = <<>>
    BY <2>1, BareState DEF Idle
  <2> QED BY <2>2, SilentNeverChanges
<1> QED BY <1>2, <1>3, <1>4, <1>5 DEF Next

\* Within one run, where the device is stepped no more slowly than the
\* manifest's period, the rules do not change the fan within the registry's hold
\* of their last change, and what hands over changes it only to on (compiler.py
\* _min_hold_ticks, runtime.py _maybe_emit, shutdown), whatever period and tick.
THEOREM TheRelayRests == Spec => RelayRests
<1>1. IInv /\ [Next]_vars
        => [ChangesAgain /\ manifest.period <= TICK => Rested \/ HandsOver]_vars
  BY ChangesInTime
<1> QED BY <1>1, InvAlways, PTL DEF Spec, RelayRests
=============================================================================
