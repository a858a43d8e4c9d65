----------------------------- MODULE DataLemmas -----------------------------
(***************************************************************************)
(* Facts about numbers and finite sets that the proofs of several          *)
(* components rest on: least and largest elements, induction over the      *)
(* subsets of a finite set, sums (MapThenSumSet), whole division, images.  *)
(*                                                                         *)
(* Induction is by a least counterexample: a set takes the place of the    *)
(* property, so that every fact is one of first-order logic.               *)
(***************************************************************************)
EXTENDS Integers, FiniteSets, FiniteSetsExt, FiniteSetTheorems,
        WellFoundedInduction, TLAPS

(* Every set of natural numbers has a least one.                           *)
LEMMA LeastNatural ==
  ASSUME NEW T, T \subseteq Nat, T # {}
  PROVE  \E x \in T : \A y \in T : x <= y
<1>1. PICK x \in T : \A y \in T : ~ (<<y, x>> \in OpToRel(<, Nat))
  BY NatLessThanWellFounded, WFMin
<1>2. \A y \in T : ~ (y < x)
  BY <1>1 DEF OpToRel
<1> QED
  BY <1>2

(* A set that holds 0 and with each number the next one holds them all.    *)
LEMMA AllNaturals ==
  ASSUME NEW T, 0 \in T, \A n \in Nat : n \in T => n + 1 \in T, NEW m \in Nat
  PROVE  m \in T
<1> SUFFICES ASSUME m \notin T PROVE FALSE
  OBVIOUS
<1> DEFINE B == {n \in Nat : n \notin T}
<1>1. PICK k \in B : \A y \in B : k <= y
  <2>1. B # {} /\ B \subseteq Nat
    OBVIOUS
  <2> HIDE DEF B
  <2> QED
    BY <2>1, LeastNatural
<1>2. k \in Nat /\ k # 0 /\ k - 1 \in Nat
  OBVIOUS
<1>3. k - 1 \in T
  BY <1>1, <1>2
<1>4. (k - 1) + 1 \in T
  BY <1>2, <1>3
<1> QED
  BY <1>2, <1>4

(* Every subset of a finite set is in D if each is that is empty or whose  *)
(* members can all be taken out.                                           *)
LEMMA SubsetInduction ==
  ASSUME NEW S, IsFiniteSet(S), NEW D, {} \in D,
         \A s \in SUBSET S : s # {} /\ (\A x \in s : s \ {x} \in D) => s \in D
  PROVE  \A s \in SUBSET S : s \in D
<1> SUFFICES ASSUME NEW z \in SUBSET S, z \notin D PROVE FALSE
  OBVIOUS
<1> DEFINE B == {s \in SUBSET S : s \notin D}
           N == {Cardinality(s) : s \in B}
<1>1. \A s \in B : IsFiniteSet(s) /\ Cardinality(s) \in Nat
  BY FS_Subset, FS_CardinalityType
<1>2. PICK n \in N : \A m \in N : n <= m
  <2>1. N # {} /\ N \subseteq Nat
    BY <1>1
  <2> HIDE DEF N
  <2> QED
    BY <2>1, LeastNatural
<1>3. PICK s \in B : n = Cardinality(s)
  OBVIOUS
<1>4. PICK x \in s : s \ {x} \notin D
  <2>1. s # {}
    OBVIOUS
  <2> QED
    BY <2>1
<1>5. s \ {x} \in B
  <2>1. s \ {x} \in SUBSET S
    OBVIOUS
  <2> QED
    BY <1>4, <2>1
<1>6. Cardinality(s \ {x}) = Cardinality(s) - 1
  BY <1>1, FS_RemoveElement
<1>7. Cardinality(s) <= Cardinality(s \ {x})
  BY <1>2, <1>3, <1>5
<1> QED
  BY <1>1, <1>6, <1>7

(* The larger of two numbers (Max).                                        *)
LEMMA MaxOfTwo ==
  ASSUME NEW a \in Nat, NEW b \in Nat
  PROVE  Max({a, b}) = IF a >= b THEN a ELSE b
<1> DEFINE m == IF a >= b THEN a ELSE b
<1>1. m \in {a, b} /\ \A y \in {a, b} : m >= y
  OBVIOUS
<1>2. \A x \in {a, b} : (\A y \in {a, b} : x >= y) => x = m
  OBVIOUS
<1>3. Max({a, b}) \in {a, b} /\ \A y \in {a, b} : Max({a, b}) >= y
  <2> HIDE DEF m
  <2> QED
    BY <1>1 DEF Max
<1> QED
  BY <1>2, <1>3

(* A bounded set of numbers has a largest one, and only one (Max).         *)
LEMMA MaxIsLargest ==
  ASSUME NEW n \in Nat, NEW S, S \subseteq 1 .. n, S # {}
  PROVE  Max(S) \in S /\ \A y \in S : Max(S) >= y
<1> DEFINE T == {n - x : x \in S}
<1>1. T \subseteq Nat /\ T # {}
  <2>1. \A x \in S : n - x \in Nat
    OBVIOUS
  <2> QED
    BY <2>1
<1>2. PICK t \in T : \A y \in T : t <= y
  <2> HIDE DEF T
  <2> QED
    BY <1>1, LeastNatural
<1>3. PICK m \in S : t = n - m
  OBVIOUS
<1>4. \A y \in S : m >= y
  <2> TAKE y \in S
  <2>1. n - m <= n - y
    BY <1>2, <1>3
  <2> QED
    BY <2>1
<1> QED
  BY <1>4 DEF Max

LEMMA MaxOfFinite ==
  ASSUME NEW S, IsFiniteSet(S), S \subseteq Nat, S # {}
  PROVE  Max(S) \in S /\ \A y \in S : Max(S) >= y
<1> DEFINE Top(s, m) == m \in s /\ \A y \in s : m >= y
           D == {s \in SUBSET S : s = {} \/ \E m \in s : Top(s, m)}
<1>1. {} \in D
  OBVIOUS
<1>2. ASSUME NEW s \in SUBSET S, s # {}, \A x \in s : s \ {x} \in D
      PROVE  s \in D
  <2>1. PICK x \in s : TRUE
    BY <1>2
  <2>2. \A y \in s : y \in Nat
    OBVIOUS
  <2>3. CASE s \ {x} = {}
    <3>1. Top(s, x)
      BY <2>1, <2>2, <2>3
    <3> QED
      BY <2>1, <3>1
  <2>4. CASE s \ {x} # {}
    <3>1. PICK m \in s \ {x} : Top(s \ {x}, m)
      BY <1>2, <2>1, <2>4
    <3>2. CASE m >= x
      <4>1. Top(s, m)
        BY <2>2, <3>1, <3>2
      <4> QED
        BY <3>1, <4>1
    <3>3. CASE x >= m
      <4>1. Top(s, x)
        BY <2>1, <2>2, <3>1, <3>3
      <4> QED
        BY <2>1, <4>1
    <3> QED
      BY <2>1, <2>2, <3>1, <3>2, <3>3
  <2> QED
    BY <2>3, <2>4
<1>3. \A s \in SUBSET S : s \in D
  <2> HIDE DEF D
  <2> QED
    BY <1>1, <1>2, SubsetInduction
<1>4. \E m \in S : Top(S, m)
  BY <1>3
<1> QED
  BY <1>4 DEF Max

-----------------------------------------------------------------------------
(* The sum of a function over a set, and the element the library takes     *)
(* from a set first (MapThenSumSet).                                       *)
Total(f, S) == MapThenSumSet(LAMBDA x : f[x], S)
AnyOf(s) == CHOOSE x \in s : TRUE
Rest(s) == s \ {AnyOf(s)}
SumsTo(h, f, S) ==
  h = [s \in SUBSET S |-> IF s = {} THEN 0 ELSE f[AnyOf(s)] + h[Rest(s)]]

LEMMA TotalIsASum ==
  ASSUME NEW f, NEW S
  PROVE  Total(f, S) = (CHOOSE h : SumsTo(h, f, S))[S]
BY DEF Total, MapThenSumSet, MapThenFoldSet, SumsTo, AnyOf, Rest

LEMMA RestIsLess ==
  ASSUME NEW S, NEW s \in SUBSET S, s # {}
  PROVE  AnyOf(s) \in s /\ Rest(s) \in SUBSET S /\ Rest(s) \subseteq s
BY DEF AnyOf, Rest

(* There is a table of the sums of all subsets: by the number of elements. *)
LEMMA SumsExist ==
  ASSUME NEW S, IsFiniteSet(S), NEW f, \A x \in S : f[x] \in Int
  PROVE  \E h \in [SUBSET S -> Int] : SumsTo(h, f, S)
<1> DEFINE Right(g, s) == g[s] = IF s = {} THEN 0 ELSE f[AnyOf(s)] + g[Rest(s)]
           Upto(g, n) == \A s \in SUBSET S : Cardinality(s) <= n => Right(g, s)
           T == {n \in Nat : \E g \in [SUBSET S -> Int] : Upto(g, n)}
<1>1. \A s \in SUBSET S : IsFiniteSet(s) /\ Cardinality(s) \in Nat
  BY FS_Subset, FS_CardinalityType
<1>2. 0 \in T
  <2> DEFINE g == [s \in SUBSET S |-> 0]
  <2>1. ASSUME NEW s \in SUBSET S, Cardinality(s) <= 0 PROVE Right(g, s)
    <3>1. Cardinality(s) = 0
      BY <1>1, <2>1
    <3>2. s = {}
      BY <1>1, <3>1, FS_EmptySet
    <3> QED
      BY <3>2
  <2>2. g \in [SUBSET S -> Int] /\ Upto(g, 0)
    BY <2>1
  <2> QED
    BY <2>2
<1>3. ASSUME NEW n \in Nat, n \in T PROVE n + 1 \in T
  <2>1. PICK g \in [SUBSET S -> Int] : Upto(g, n)
    BY <1>3
  <2> DEFINE k == [s \in SUBSET S |->
                     IF Cardinality(s) = n + 1 THEN f[AnyOf(s)] + g[Rest(s)] ELSE g[s]]
  <2>2. ASSUME NEW s \in SUBSET S, Cardinality(s) = n + 1
        PROVE  /\ s # {} /\ AnyOf(s) \in S /\ Rest(s) \in SUBSET S
               /\ Cardinality(Rest(s)) = n
    <3>1. s # {}
      <4>1. Cardinality({}) = 0
        BY FS_EmptySet
      <4>2. Cardinality(s) # 0
        BY <2>2
      <4> HIDE <2>2
      <4> QED
        BY <4>1, <4>2
    <3>2. AnyOf(s) \in s /\ Rest(s) \in SUBSET S
      BY <3>1, RestIsLess
    <3>3. Cardinality(s \ {AnyOf(s)}) = Cardinality(s) - 1
      BY <1>1, <3>2, FS_RemoveElement
    <3> QED
      BY <2>2, <3>1, <3>2, <3>3 DEF Rest
  <2>3. k \in [SUBSET S -> Int]
    <3>1. ASSUME NEW s \in SUBSET S, Cardinality(s) = n + 1
          PROVE  f[AnyOf(s)] + g[Rest(s)] \in Int
      BY <2>2, <3>1
    <3> QED
      BY <3>1
  <2>4. ASSUME NEW s \in SUBSET S, Cardinality(s) <= n + 1 PROVE Right(k, s)
    <3>1. CASE Cardinality(s) = n + 1
      <4>1. k[s] = f[AnyOf(s)] + g[Rest(s)]
        BY <3>1
      <4>2. k[Rest(s)] = g[Rest(s)]
        BY <2>2, <3>1
      <4> QED
        BY <2>2, <3>1, <4>1, <4>2
    <3>2. CASE Cardinality(s) # n + 1
      <4>1. Cardinality(s) <= n
        BY <1>1, <2>4, <3>2
      <4>2. k[s] = g[s] /\ Right(g, s)
        BY <2>1, <3>2, <4>1
      <4>3. CASE s # {}
        <5>1. Rest(s) \in SUBSET S /\ AnyOf(s) \in s
          BY <4>3, RestIsLess
        <5>2. Cardinality(s \ {AnyOf(s)}) = Cardinality(s) - 1
          BY <1>1, <5>1, FS_RemoveElement
        <5>3. Cardinality(Rest(s)) # n + 1
          BY <1>1, <4>1, <5>2 DEF Rest
        <5>4. k[Rest(s)] = g[Rest(s)]
          BY <5>1, <5>3
        <5> QED
          BY <4>2, <4>3, <5>4
      <4> QED
        BY <4>2, <4>3
    <3> QED
      BY <3>1, <3>2
  <2>5. Upto(k, n + 1)
    BY <2>4
  <2> HIDE DEF k
  <2> HIDE DEF Upto
  <2>6. n + 1 \in Nat /\ \E j \in [SUBSET S -> Int] : Upto(j, n + 1)
    BY <2>3, <2>5
  <2> QED
    BY <2>6
<1>4. Cardinality(S) \in T
  <2>1. Cardinality(S) \in Nat
    BY FS_CardinalityType
  <2> HIDE DEF T
  <2> QED
    BY <1>2, <1>3, <2>1, AllNaturals
<1>5. PICK h \in [SUBSET S -> Int] : Upto(h, Cardinality(S))
  BY <1>4
<1>6. \A s \in SUBSET S : Right(h, s)
  <2>1. \A s \in SUBSET S : Cardinality(s) <= Cardinality(S)
    BY FS_Subset
  <2> QED
    BY <1>5, <2>1
<1>7. SumsTo(h, f, S)
  BY <1>6 DEF SumsTo
<1> QED
  BY <1>7

(* The table of a set holds the sum of each of its subsets.                *)
LEMMA SumsAgree ==
  ASSUME NEW S, IsFiniteSet(S), NEW f, NEW h, SumsTo(h, f, S),
         NEW T \in SUBSET S, NEW k, SumsTo(k, f, T)
  PROVE  h[T] = k[T]
<1> DEFINE D == {s \in SUBSET T : h[s] = k[s]}
<1>1. IsFiniteSet(T)
  BY FS_Subset
<1>2. {} \in D
  BY DEF SumsTo
<1>3. ASSUME NEW s \in SUBSET T, s # {}, \A x \in s : s \ {x} \in D
      PROVE  s \in D
  <2>1. AnyOf(s) \in s /\ Rest(s) \in SUBSET T /\ Rest(s) \in SUBSET S
    BY <1>3, RestIsLess
  <2>2. h[Rest(s)] = k[Rest(s)]
    BY <1>3, <2>1 DEF Rest
  <2>3. h[s] = f[AnyOf(s)] + h[Rest(s)]
    BY <1>3 DEF SumsTo
  <2>4. k[s] = f[AnyOf(s)] + k[Rest(s)]
    BY <1>3 DEF SumsTo
  <2> QED
    BY <2>2, <2>3, <2>4
<1>4. \A s \in SUBSET T : s \in D
  <2> HIDE DEF D
  <2> QED
    BY <1>1, <1>2, <1>3, SubsetInduction
<1> QED
  BY <1>4

LEMMA TotalSteps ==
  ASSUME NEW S, IsFiniteSet(S), NEW f, \A x \in S : f[x] \in Int
  PROVE  /\ Total(f, S) \in Int
         /\ S = {} => Total(f, S) = 0
         /\ S # {} => Total(f, S) = f[AnyOf(S)] + Total(f, Rest(S))
<1> DEFINE h == CHOOSE g : SumsTo(g, f, S)
<1>1. SumsTo(h, f, S) /\ Total(f, S) = h[S]
  <2>1. \E g : SumsTo(g, f, S)
    BY SumsExist
  <2> QED
    BY <2>1, TotalIsASum
<1>2. PICK g \in [SUBSET S -> Int] : SumsTo(g, f, S)
  BY SumsExist
<1> HIDE DEF h
<1>3. h[S] = g[S] /\ S \in SUBSET S
  BY <1>1, <1>2, SumsAgree
<1>4. Total(f, S) \in Int
  BY <1>1, <1>2, <1>3
<1>5. ASSUME S # {} PROVE Total(f, S) = f[AnyOf(S)] + Total(f, Rest(S))
  <2> DEFINE k == CHOOSE g_1 : SumsTo(g_1, f, Rest(S))
  <2>1. Rest(S) \in SUBSET S
    BY <1>5, RestIsLess
  <2>2. IsFiniteSet(Rest(S)) /\ \A x \in Rest(S) : f[x] \in Int
    BY <2>1, FS_Subset
  <2>3. \E g_1 : SumsTo(g_1, f, Rest(S))
    BY <2>2, SumsExist
  <2>4. SumsTo(k, f, Rest(S)) /\ Total(f, Rest(S)) = k[Rest(S)]
    BY <2>3, TotalIsASum
  <2> HIDE DEF k
  <2>5. h[Rest(S)] = k[Rest(S)]
    BY <1>1, <2>1, <2>4, SumsAgree
  <2>6. h[S] = f[AnyOf(S)] + h[Rest(S)]
    BY <1>1, <1>5 DEF SumsTo
  <2> QED
    BY <1>1, <2>4, <2>5, <2>6
<1>6. S = {} => h[S] = 0
  BY <1>1 DEF SumsTo
<1> QED
  BY <1>1, <1>4, <1>5, <1>6

(* Whichever element is taken out, the rest and it make up the sum.        *)
LEMMA TotalRemove ==
  ASSUME NEW S, IsFiniteSet(S), NEW f, \A x \in S : f[x] \in Int, NEW z \in S
  PROVE  Total(f, S) = f[z] + Total(f, S \ {z})
<1> DEFINE Splits(s) == \A x \in s : Total(f, s) = f[x] + Total(f, s \ {x})
           D == {s \in SUBSET S : Splits(s)}
<1>0. \A s \in SUBSET S : IsFiniteSet(s) /\ (\A x \in s : f[x] \in Int)
  BY FS_Subset
<1>1. {} \in D
  OBVIOUS
<1>2. ASSUME NEW s \in SUBSET S, s # {}, \A x \in s : s \ {x} \in D
      PROVE  s \in D
  <2> SUFFICES ASSUME NEW x \in s PROVE Total(f, s) = f[x] + Total(f, s \ {x})
    OBVIOUS
  <2> DEFINE y == AnyOf(s)
             u == s \ {x}
             v == s \ {y}
             w == v \ {x}
  <2>1. y \in s /\ Total(f, s) = f[y] + Total(f, v)
    BY <1>0, <1>2, TotalSteps, RestIsLess DEF Rest
  <2>2. CASE x = y
    BY <2>1, <2>2
  <2>3. CASE x # y
    <3>1. w = u \ {y}
      OBVIOUS
    <3>2. x \in v /\ y \in u /\ v \in D /\ u \in D
      BY <1>2, <2>1, <2>3
    <3>3. Total(f, v) = f[x] + Total(f, w)
      BY <3>2
    <3>4. Total(f, u) = f[y] + Total(f, w)
      BY <3>1, <3>2
    <3>5. IsFiniteSet(w) /\ w \in SUBSET S
      BY <1>0
    <3>6. Total(f, w) \in Int
      BY <1>0, <3>5, TotalSteps
    <3> HIDE DEF u, v, w, y
    <3>7. f[x] \in Int /\ f[y] \in Int
      BY <1>0, <2>1
    <3>8. Total(f, s) = f[x] + Total(f, u)
      BY <2>1, <3>3, <3>4, <3>6, <3>7
    <3> QED
      BY <3>8 DEF u
  <2> QED
    BY <2>2, <2>3
<1>3. \A s \in SUBSET S : s \in D
  <2> HIDE DEF D
  <2> QED
    BY <1>1, <1>2, SubsetInduction
<1> QED
  BY <1>3

(* Sums compare as their terms do.                                         *)
LEMMA TotalMonotone ==
  ASSUME NEW S, IsFiniteSet(S), NEW f, NEW g,
         \A x \in S : f[x] \in Int /\ g[x] \in Int /\ f[x] <= g[x]
  PROVE  Total(f, S) <= Total(g, S)
<1> DEFINE D == {s \in SUBSET S : Total(f, s) <= Total(g, s)}
<1>0. \A s \in SUBSET S : /\ IsFiniteSet(s)
                          /\ \A x \in s : f[x] \in Int /\ g[x] \in Int /\ f[x] <= g[x]
  BY FS_Subset
<1>1. {} \in D
  <2>1. Total(f, {}) = 0 /\ Total(g, {}) = 0
    BY <1>0, TotalSteps
  <2> QED
    BY <2>1
<1>2. ASSUME NEW s \in SUBSET S, s # {}, \A x \in s : s \ {x} \in D
      PROVE  s \in D
  <2>1. AnyOf(s) \in s /\ Rest(s) \in SUBSET S
    BY <1>2, RestIsLess
  <2>2. Total(f, Rest(s)) <= Total(g, Rest(s))
    BY <1>2, <2>1 DEF Rest
  <2>3. /\ Total(f, s) = f[AnyOf(s)] + Total(f, Rest(s))
        /\ Total(g, s) = g[AnyOf(s)] + Total(g, Rest(s))
    BY <1>0, <1>2, TotalSteps
  <2>4. Total(f, Rest(s)) \in Int /\ Total(g, Rest(s)) \in Int
    BY <1>0, <2>1, TotalSteps
  <2>5. f[AnyOf(s)] \in Int /\ g[AnyOf(s)] \in Int /\ f[AnyOf(s)] <= g[AnyOf(s)]
    BY <1>0, <2>1
  <2>6. Total(f, s) <= Total(g, s)
    BY <2>2, <2>3, <2>4, <2>5
  <2> QED
    BY <2>6
<1>3. \A s \in SUBSET S : s \in D
  <2> HIDE DEF D
  <2> QED
    BY <1>1, <1>2, SubsetInduction
<1> QED
  BY <1>3

LEMMA TotalSame ==
  ASSUME NEW S, IsFiniteSet(S), NEW f, NEW g,
         \A x \in S : f[x] \in Int /\ g[x] = f[x]
  PROVE  Total(g, S) = Total(f, S)
<1>1. Total(f, S) <= Total(g, S) /\ Total(g, S) <= Total(f, S)
  <2>1. \A x \in S : f[x] \in Int /\ g[x] \in Int /\ f[x] <= g[x] /\ g[x] <= f[x]
    OBVIOUS
  <2> QED
    BY <2>1, TotalMonotone
<1>2. Total(f, S) \in Int /\ Total(g, S) \in Int
  BY TotalSteps
<1> QED
  BY <1>1, <1>2

LEMMA TotalNat ==
  ASSUME NEW S, IsFiniteSet(S), NEW f, \A x \in S : f[x] \in Nat
  PROVE  Total(f, S) \in Nat
<1> DEFINE D == {s \in SUBSET S : Total(f, s) \in Nat}
<1>0. \A s \in SUBSET S : IsFiniteSet(s) /\ (\A x \in s : f[x] \in Nat /\ f[x] \in Int)
  BY FS_Subset
<1>1. {} \in D
  <2>1. Total(f, {}) = 0
    BY <1>0, TotalSteps
  <2> QED
    BY <2>1
<1>2. ASSUME NEW s \in SUBSET S, s # {}, \A x \in s : s \ {x} \in D
      PROVE  s \in D
  <2>1. AnyOf(s) \in s /\ Rest(s) \in D
    BY <1>2, RestIsLess DEF Rest
  <2>2. Total(f, s) = f[AnyOf(s)] + Total(f, Rest(s))
    BY <1>0, <1>2, TotalSteps
  <2> QED
    BY <1>0, <2>1, <2>2
<1>3. \A s \in SUBSET S : s \in D
  <2> HIDE DEF D
  <2> QED
    BY <1>1, <1>2, SubsetInduction
<1> QED
  BY <1>3

(* The sum of a set is that of a part of it and of what is left.           *)
LEMMA TotalSplit ==
  ASSUME NEW S, IsFiniteSet(S), NEW f, \A x \in S : f[x] \in Int, NEW T \in SUBSET S
  PROVE  Total(f, S) = Total(f, T) + Total(f, S \ T)
<1> DEFINE D == {t \in SUBSET T : Total(f, S) = Total(f, t) + Total(f, S \ t)}
<1>0. \A s \in SUBSET S : /\ IsFiniteSet(s) /\ Total(f, s) \in Int
                          /\ \A x \in s : f[x] \in Int
  BY FS_Subset, TotalSteps
<1>1. {} \in D
  <2>1. S \ {} = S /\ Total(f, {}) = 0 /\ Total(f, S) \in Int
    BY <1>0, TotalSteps
  <2> QED
    BY <2>1
<1>2. ASSUME NEW t \in SUBSET T, t # {}, \A x \in t : t \ {x} \in D
      PROVE  t \in D
  <2>1. PICK x \in t : TRUE
    BY <1>2
  <2> DEFINE u == t \ {x}
             v == S \ u
  <2>2. Total(f, S) = Total(f, u) + Total(f, v)
    BY <1>2
  <2>3. t \in SUBSET S /\ v \in SUBSET S /\ x \in v /\ v \ {x} = S \ t
    OBVIOUS
  <2>4. Total(f, t) = f[x] + Total(f, u)
    BY <1>0, <2>3, TotalRemove
  <2>5. Total(f, v) = f[x] + Total(f, S \ t)
    BY <1>0, <2>3, TotalRemove
  <2>6. /\ Total(f, u) \in Int /\ Total(f, v) \in Int /\ Total(f, S \ t) \in Int
        /\ Total(f, t) \in Int /\ f[x] \in Int
    BY <1>0, <2>3
  <2> HIDE DEF u, v
  <2>7. Total(f, S) = Total(f, t) + Total(f, S \ t)
    BY <2>2, <2>4, <2>5, <2>6
  <2> QED
    BY <2>7
<1>3. IsFiniteSet(T)
  BY <1>0
<1>4. \A t \in SUBSET T : t \in D
  <2> HIDE DEF D
  <2> QED
    BY <1>1, <1>2, <1>3, SubsetInduction
<1> QED
  BY <1>4

LEMMA TotalZero ==
  ASSUME NEW S, IsFiniteSet(S), NEW f, \A x \in S : f[x] = 0
  PROVE  Total(f, S) = 0
<1> DEFINE D == {s \in SUBSET S : Total(f, s) = 0}
<1>0. \A s \in SUBSET S : IsFiniteSet(s) /\ (\A x \in s : f[x] = 0 /\ f[x] \in Int)
  BY FS_Subset
<1>1. {} \in D
  BY <1>0, TotalSteps
<1>2. ASSUME NEW s \in SUBSET S, s # {}, \A x \in s : s \ {x} \in D
      PROVE  s \in D
  <2>1. AnyOf(s) \in s /\ Rest(s) \in D
    BY <1>2, RestIsLess DEF Rest
  <2>2. Total(f, s) = f[AnyOf(s)] + Total(f, Rest(s))
    BY <1>0, <1>2, TotalSteps
  <2> QED
    BY <1>0, <2>1, <2>2
<1>3. \A s \in SUBSET S : s \in D
  <2> HIDE DEF D
  <2> QED
    BY <1>1, <1>2, SubsetInduction
<1> QED
  BY <1>3

(* A part of a set sums to no more than the set, if no term is negative.   *)
LEMMA TotalPart ==
  ASSUME NEW S, IsFiniteSet(S), NEW f, \A x \in S : f[x] \in Nat, NEW T \in SUBSET S
  PROVE  Total(f, T) <= Total(f, S)
<1>1. /\ \A x \in S : f[x] \in Int
      /\ IsFiniteSet(T) /\ \A x \in T : f[x] \in Nat
      /\ IsFiniteSet(S \ T) /\ \A x \in S \ T : f[x] \in Nat
  BY FS_Subset
<1>2. Total(f, S) = Total(f, T) + Total(f, S \ T)
  BY <1>1, TotalSplit
<1>3. Total(f, T) \in Nat /\ Total(f, S \ T) \in Nat
  BY <1>1, TotalNat
<1> QED
  BY <1>2, <1>3

(* When the terms of a part change, the sum changes as that part's.        *)
LEMMA TotalChange ==
  ASSUME NEW S, IsFiniteSet(S), NEW f, NEW g, NEW T \in SUBSET S,
         \A x \in S : f[x] \in Int /\ g[x] \in Int,
         \A x \in S \ T : g[x] = f[x]
  PROVE  Total(g, S) - Total(g, T) = Total(f, S) - Total(f, T)
<1>1. IsFiniteSet(S \ T) /\ IsFiniteSet(T)
  BY FS_Subset
<1>2. Total(g, S \ T) = Total(f, S \ T)
  BY <1>1, TotalSame
<1>3. /\ Total(g, S) = Total(g, T) + Total(g, S \ T)
      /\ Total(f, S) = Total(f, T) + Total(f, S \ T)
  BY TotalSplit
<1>4. /\ Total(f, S \ T) \in Int /\ Total(f, T) \in Int
      /\ Total(g, S \ T) \in Int /\ Total(g, T) \in Int
  BY <1>1, TotalSteps
<1> QED
  BY <1>2, <1>3, <1>4

LEMMA TotalOne ==
  ASSUME NEW f, NEW x, f[x] \in Int
  PROVE  Total(f, {x}) = f[x]
<1>1. IsFiniteSet({x}) /\ \A y \in {x} : f[y] \in Int
  BY FS_Singleton
<1>2. Total(f, {x}) = f[x] + Total(f, {x} \ {x})
  BY <1>1, TotalRemove
<1>3. {x} \ {x} = {} /\ Total(f, {}) = 0
  BY FS_EmptySet, TotalSteps
<1> QED
  BY <1>2, <1>3

-----------------------------------------------------------------------------
(* The least element of a set of natural numbers.                          *)
LEMMA MinOfNaturals ==
  ASSUME NEW S, S \subseteq Nat, S # {}
  PROVE  Min(S) \in S /\ \A y \in S : Min(S) <= y
<1>1. \E m \in S : \A y \in S : m <= y
  BY LeastNatural
<1> QED
  BY <1>1 DEF Min

(* Whole division.                                                         *)
LEMMA DivIs ==
  ASSUME NEW a \in Nat, NEW d \in Nat \ {0}, NEW q \in Nat, d * q <= a, a < d * q + d
  PROVE  a \div d = q
OBVIOUS

LEMMA DivGrows ==
  ASSUME NEW a \in Nat, NEW b \in Nat, a <= b, NEW d \in Nat \ {0}
  PROVE  a \div d \in Nat /\ a \div d <= b \div d
OBVIOUS

(* A product grows with its factor, as a quotient with what is divided.    *)
LEMMA ProductGrows ==
  ASSUME NEW c \in Nat, NEW j \in Nat, NEW k \in Nat, j <= k
  PROVE  c * j \in Nat /\ c * j <= c * k
OBVIOUS

LEMMA DivWhole ==
  ASSUME NEW c \in Nat, NEW d \in Nat \ {0}
  PROVE  (c * d) \div d = c
OBVIOUS

-----------------------------------------------------------------------------
(* The image of a finite set is finite.                                    *)
LEMMA FiniteImage ==
  ASSUME NEW S, IsFiniteSet(S), NEW f, f = [x \in S |-> f[x]]
  PROVE  IsFiniteSet({f[x] : x \in S})
<1> DEFINE T == {f[x] : x \in S}
<1>1. f \in [S -> T]
  OBVIOUS
<1>2. f \in Surjection(S, T)
  BY <1>1 DEF Surjection
<1> HIDE DEF T
<1>3. IsFiniteSet(T)
  BY <1>2, FS_Surjection
<1> QED
  BY <1>3 DEF T

(* An injective function leaves the number of elements as it is.           *)
LEMMA InjectiveImage ==
  ASSUME NEW S, IsFiniteSet(S), NEW f, f = [x \in S |-> f[x]],
         \A x, y \in S : f[x] = f[y] => x = y
  PROVE  Cardinality({f[x] : x \in S}) = Cardinality(S)
<1> DEFINE T == {f[x] : x \in S}
<1>1. f \in [S -> T]
  OBVIOUS
<1>2. f \in Bijection(S, T)
  BY <1>1 DEF Bijection, Injection, Surjection, IsInjective
<1> HIDE DEF T
<1>3. Cardinality(T) = Cardinality(S)
  BY <1>2, FS_Bijection DEF ExistsBijection
<1> QED
  BY <1>3 DEF T
=============================================================================
