----------------------------- MODULE ScoringProofs -----------------------------
(***************************************************************************)
(* The theorems about Scoring: how the sums, the powers of two and the     *)
(* decay they are made of behave, the inductive invariant, and the         *)
(* properties of the score and of its audit trail.                         *)
(***************************************************************************)
EXTENDS Scoring, FiniteSetTheorems, WellFoundedInduction, TLAPS

-------------------------------------------------------------------------------
(* Sums over finite sets *)

\* A set of numbers has a smallest element.
LEMMA MinOfNumbers ==
    ASSUME NEW S \in SUBSET Nat, S # {}
    PROVE  Min(S) \in S /\ \A k \in S : Min(S) <= k
<1>1. PICK m \in S : \A k \in S : ~(<<k, m>> \in OpToRel(<, Nat))
  <2>1. S \subseteq Nat
    OBVIOUS
  <2> QED BY <2>1, NatLessThanWellFounded, WFMin, Zenon
<1>2. \A k \in S : ~(k < m)
  BY <1>1 DEF OpToRel
<1>3. \A k \in S : m <= k
  BY <1>2
<1> QED BY <1>3 DEF Min

\* Induction on the subsets of a finite set: a family of them that holds the
\* empty set and grows by single elements holds every subset.
LEMMA FiniteInduction ==
    ASSUME NEW S, IsFiniteSet(S), NEW G, {} \in G,
           \A T \in SUBSET S : \A x \in S \ T : T \in G => T \cup {x} \in G
    PROVE  S \in G
<1>1. SUFFICES ASSUME S \notin G PROVE FALSE
  OBVIOUS
<1> DEFINE bad == (SUBSET S) \ G
<1>2. PICK T \in bad : \A U \in bad : ~(<<U, T>> \in StrictSubsetOrdering(S))
  <2>1. bad \subseteq FiniteSubsetsOf(S) /\ bad # {}
    BY <1>1, FS_FiniteSubsetsOfFinite
  <2> HIDE DEF bad
  <2> QED BY <2>1, FS_StrictSubsetOrderingWellFounded, WFMin, Zenon
<1>3. PICK x : x \in T
  OBVIOUS
<1>4. T \ {x} \in G
  <2>1. T \ {x} \in SUBSET S /\ T \ {x} # T /\ T \ {x} \subseteq T /\ T \in SUBSET S
    BY <1>3
  <2>2. <<T \ {x}, T>> \in StrictSubsetOrdering(S)
    BY <2>1 DEF StrictSubsetOrdering
  <2> QED BY <2>1, <2>2, <1>2
<1>5. (T \ {x}) \cup {x} = T
  BY <1>3
<1> QED BY <1>3, <1>4, <1>5

\* The units that a function's values are made of.
Units(f, S) == {u \in S \X Nat : u[2] < f[u[1]]}


LEMMA UnitsAdd ==
    ASSUME NEW f, NEW T, NEW x, x \notin T, f[x] \in Nat, IsFiniteSet(Units(f, T))
    PROVE  /\ IsFiniteSet(Units(f, T \cup {x}))
           /\ Cardinality(Units(f, T \cup {x})) = f[x] + Cardinality(Units(f, T))
<1> DEFINE new == {x} \X (0..(f[x] - 1))
<1>1. IsFiniteSet(new) /\ Cardinality(new) = f[x]
  <2>1. PICK n : n = f[x] /\ n \in Nat
    OBVIOUS
  <2>2. IsFiniteSet(0..(f[x] - 1)) /\ Cardinality(0..(f[x] - 1)) = f[x]
    <3>1. n - 1 \in Int /\ 0 \in Int
      BY <2>1
    <3>2. /\ IsFiniteSet(0..(n - 1))
          /\ Cardinality(0..(n - 1)) = IF 0 > n - 1 THEN 0 ELSE (n - 1) - 0 + 1
      BY <3>1, FS_Interval
    <3> QED BY <2>1, <3>2
  <2>3. IsFiniteSet({x}) /\ Cardinality({x}) = 1
    BY FS_Singleton
  <2>4. IsFiniteSet(new) /\ Cardinality(new) = 1 * Cardinality(0..(f[x] - 1))
    BY <2>2, <2>3, FS_Product
  <2> QED BY <2>1, <2>2, <2>4
<1>2. Units(f, T \cup {x}) = Units(f, T) \cup new
  <2>1. f[x] \in Nat
    OBVIOUS
  <2>2. \A n \in Nat : n < f[x] <=> n \in 0..(f[x] - 1)
    BY <2>1
  <2>3. 0..(f[x] - 1) \subseteq Nat
    OBVIOUS
  <2> QED BY <2>2, <2>3 DEF Units
<1>3. Units(f, T) \cap new = {}
  BY DEF Units
<1> HIDE DEF new
<1>4. Cardinality(Units(f, T) \cap new) = 0
  BY <1>3, FS_EmptySet
<1>5. Cardinality(Units(f, T)) \in Nat
  BY FS_CardinalityType
<1>6. /\ IsFiniteSet(Units(f, T) \cup new)
      /\ Cardinality(Units(f, T) \cup new)
            = Cardinality(Units(f, T)) + Cardinality(new) - Cardinality(Units(f, T) \cap new)
  BY <1>1, FS_Union
<1>7. PICK m, n \in Nat : m = Cardinality(Units(f, T)) /\ n = Cardinality(new)
  BY <1>1, <1>5
<1>8. Cardinality(Units(f, T) \cup new) = m + n - 0
  BY <1>4, <1>6, <1>7
<1>9. m + n - 0 = n + m
  OBVIOUS
<1> QED BY <1>1, <1>2, <1>6, <1>7, <1>8, <1>9

LEMMA NoUnits ==
    ASSUME NEW f
    PROVE  IsFiniteSet(Units(f, {})) /\ Cardinality(Units(f, {})) = 0
<1>1. Units(f, {}) = {}
  BY DEF Units
<1> QED BY <1>1, FS_EmptySet

LEMMA UnitsFinite ==
    ASSUME NEW S, IsFiniteSet(S), NEW f, \A y \in S : f[y] \in Nat
    PROVE  IsFiniteSet(Units(f, S)) /\ Cardinality(Units(f, S)) \in Nat
<1> DEFINE G == {T \in SUBSET S : IsFiniteSet(Units(f, T))}
<1>1. {} \in G
  BY NoUnits
<1>2. \A T \in SUBSET S : \A x \in S \ T : T \in G => T \cup {x} \in G
  BY UnitsAdd
<1> HIDE DEF G
<1>3. S \in G
  BY <1>1, <1>2, FiniteInduction
<1> QED BY <1>3, FS_CardinalityType DEF G

\* A sum is the number of its units.
LEMMA SumAsCount ==
    ASSUME NEW S, IsFiniteSet(S), NEW f, \A y \in S : f[y] \in Nat
    PROVE  SumFunctionOnSet(f, S) = Cardinality(Units(f, S))
<1> DEFINE first(T) == CHOOSE x \in T : TRUE
           count == [T \in SUBSET S |-> Cardinality(Units(f, T))]
           Rec(g) == g = [T \in SUBSET S |->
                             IF T = {} THEN 0 ELSE f[first(T)] + g[T \ {first(T)}]]
           it == CHOOSE g : Rec(g)
<1>1. SumFunctionOnSet(f, S) = it[S]
  BY DEF SumFunctionOnSet, FoldFunctionOnSet, MapThenFoldSet
<1>2. Rec(count)
  <2>1. ASSUME NEW T \in SUBSET S, T # {}
        PROVE  count[T] = f[first(T)] + count[T \ {first(T)}]
    <3>1. first(T) \in T
      BY <2>1
    <3> DEFINE x == first(T)
               R == T \ {x}
    <3>2. x \in S /\ x \notin R /\ R \in SUBSET S /\ R \cup {x} = T
      BY <3>1
    <3>7. f[x] \in Nat
      BY <3>2
    <3> HIDE DEF x, R
    <3>3. IsFiniteSet(R) /\ \A y \in R : f[y] \in Nat
      BY <3>2, FS_Subset
    <3>4. IsFiniteSet(Units(f, R))
      BY <3>3, UnitsFinite
    <3>5. Cardinality(Units(f, R \cup {x})) = f[x] + Cardinality(Units(f, R))
      BY <3>2, <3>4, <3>7, UnitsAdd
    <3>6. count[T] = Cardinality(Units(f, T)) /\ count[R] = Cardinality(Units(f, R))
      BY <3>2
    <3> QED BY <3>2, <3>5, <3>6 DEF x, R
  <2>2. count[{}] = 0
    BY NoUnits
  <2> HIDE DEF first
  <2>3. \A T \in SUBSET S :
           count[T] = IF T = {} THEN 0 ELSE f[first(T)] + count[T \ {first(T)}]
    BY <2>1, <2>2
  <2> QED BY <2>3
<1> HIDE DEF first, count
<1>3. Rec(it)
  BY <1>2
<1> HIDE DEF it
<1> DEFINE G == {T \in SUBSET S : it[T] = count[T]}
<1>4. \A T \in SUBSET S :
         it[T] = IF T = {} THEN 0 ELSE f[first(T)] + it[T \ {first(T)}]
  BY <1>3
<1>5. \A T \in SUBSET S :
         count[T] = IF T = {} THEN 0 ELSE f[first(T)] + count[T \ {first(T)}]
  BY <1>2
<1>6. it[S] = count[S]
  <2> DEFINE bad == {T \in SUBSET S : it[T] # count[T]}
  <2>1. SUFFICES ASSUME bad # {} PROVE FALSE
    OBVIOUS
  <2>2. PICK T \in bad : \A U \in bad : ~(<<U, T>> \in StrictSubsetOrdering(S))
    <3>1. bad \subseteq FiniteSubsetsOf(S)
      BY FS_FiniteSubsetsOfFinite
    <3> HIDE DEF bad
    <3> QED BY <2>1, <3>1, FS_StrictSubsetOrderingWellFounded, WFMin, Zenon
  <2>3. CASE T = {}
    BY <2>3, <1>4, <1>5
  <2>4. CASE T # {}
    <3>1. first(T) \in T
      BY <2>4 DEF first
    <3>2. T \ {first(T)} \in SUBSET S /\ T \ {first(T)} # T /\ T \ {first(T)} \subseteq T
      BY <3>1
    <3>3. <<T \ {first(T)}, T>> \in StrictSubsetOrdering(S)
      BY <3>2 DEF StrictSubsetOrdering
    <3>4. it[T \ {first(T)}] = count[T \ {first(T)}]
      BY <2>2, <3>2, <3>3
    <3> QED BY <2>4, <3>2, <3>4, <1>4, <1>5
  <2> QED BY <2>3, <2>4
<1>7. count[S] = Cardinality(Units(f, S))
  BY DEF count
<1> QED BY <1>1, <1>6, <1>7

LEMMA SumEmpty ==
    ASSUME NEW f
    PROVE  SumFunctionOnSet(f, {}) = 0
<1>1. IsFiniteSet({}) /\ \A y \in {} : f[y] \in Nat
  BY FS_EmptySet
<1> QED BY <1>1, SumAsCount, NoUnits

LEMMA SumAdd ==
    ASSUME NEW S, IsFiniteSet(S), NEW f, NEW x, x \notin S,
           \A y \in S \cup {x} : f[y] \in Nat
    PROVE  /\ SumFunctionOnSet(f, S) \in Nat
           /\ SumFunctionOnSet(f, S \cup {x}) = SumFunctionOnSet(f, S) + f[x]
<1>1. IsFiniteSet(S \cup {x})
  BY FS_AddElement
<1>2. IsFiniteSet(Units(f, S)) /\ Cardinality(Units(f, S)) \in Nat
  BY UnitsFinite
<1>3. S \in SUBSET (S \cup {x}) /\ x \in S \cup {x}
  OBVIOUS
<1>4. Cardinality(Units(f, S \cup {x})) = f[x] + Cardinality(Units(f, S))
  BY <1>2, UnitsAdd
<1> QED BY <1>1, <1>2, <1>4, SumAsCount

LEMMA SumType ==
    ASSUME NEW S, IsFiniteSet(S), NEW f, \A y \in S : f[y] \in Nat
    PROVE  SumFunctionOnSet(f, S) \in Nat
BY UnitsFinite, SumAsCount

\* The sum over two sets without a common element.
LEMMA SumUnion ==
    ASSUME NEW S, IsFiniteSet(S), NEW T, IsFiniteSet(T), S \cap T = {},
           NEW f, \A y \in S \cup T : f[y] \in Nat
    PROVE  SumFunctionOnSet(f, S \cup T) = SumFunctionOnSet(f, S) + SumFunctionOnSet(f, T)
<1>1. IsFiniteSet(S \cup T)
  BY FS_Union
<1>2. Units(f, S \cup T) = Units(f, S) \cup Units(f, T)
  BY DEF Units
<1>3. Units(f, S) \cap Units(f, T) = {}
  BY DEF Units
<1>4. Cardinality(Units(f, S) \cap Units(f, T)) = 0
  BY <1>3, FS_EmptySet
<1>5. IsFiniteSet(Units(f, S)) /\ IsFiniteSet(Units(f, T))
  BY UnitsFinite
<1>6. PICK m, n \in Nat : m = Cardinality(Units(f, S)) /\ n = Cardinality(Units(f, T))
  BY UnitsFinite
<1>7. Cardinality(Units(f, S) \cup Units(f, T)) = m + n - 0
  BY <1>4, <1>5, <1>6, FS_Union
<1>8. m + n - 0 = m + n
  OBVIOUS
<1>9. /\ SumFunctionOnSet(f, S) = m
      /\ SumFunctionOnSet(f, T) = n
      /\ SumFunctionOnSet(f, S \cup T) = Cardinality(Units(f, S \cup T))
  BY <1>1, <1>6, SumAsCount
<1> QED BY <1>2, <1>7, <1>8, <1>9

\* More elements, or higher values, and the sum does not fall.
LEMMA SumMonotone ==
    ASSUME NEW T, IsFiniteSet(T), NEW S \in SUBSET T, NEW f, NEW g,
           \A y \in S : f[y] \in Nat /\ f[y] <= g[y], \A y \in T : g[y] \in Nat
    PROVE  SumFunctionOnSet(f, S) <= SumFunctionOnSet(g, T)
<1>1. IsFiniteSet(S)
  BY FS_Subset
<1>2. Units(f, S) \subseteq Units(g, T)
  <2>1. ASSUME NEW y \in S, NEW n \in Nat, n < f[y] PROVE n < g[y]
    <3>1. f[y] \in Nat /\ g[y] \in Nat /\ f[y] <= g[y]
      OBVIOUS
    <3> QED BY <2>1, <3>1
  <2> QED BY <2>1 DEF Units
<1>3. Cardinality(Units(f, S)) <= Cardinality(Units(g, T))
  BY <1>2, UnitsFinite, FS_Subset
<1> QED BY <1>1, <1>3, SumAsCount

LEMMA SumSame ==
    ASSUME NEW S, IsFiniteSet(S), NEW f, NEW g,
           \A y \in S : f[y] \in Nat /\ f[y] = g[y]
    PROVE  SumFunctionOnSet(f, S) = SumFunctionOnSet(g, S)
<1>1. Units(f, S) = Units(g, S)
  BY DEF Units
<1> QED BY <1>1, SumAsCount

LEMMA SumOne ==
    ASSUME NEW f, NEW x, f[x] \in Nat
    PROVE  SumFunctionOnSet(f, {x}) = f[x]
<1>1. IsFiniteSet({}) /\ x \notin {} /\ {} \cup {x} = {x} /\ \A y \in {x} : f[y] \in Nat
  BY FS_EmptySet
<1>2. SumFunctionOnSet(f, {} \cup {x}) = SumFunctionOnSet(f, {}) + f[x]
  BY <1>1, SumAdd
<1> QED BY <1>1, <1>2, SumEmpty

\* A common factor of the values is a factor of the sum.
LEMMA SumScaled ==
    ASSUME NEW S, IsFiniteSet(S), NEW k \in Nat, NEW f, NEW g,
           \A y \in S : f[y] \in Nat /\ g[y] \in Nat /\ k * f[y] <= g[y]
    PROVE  k * SumFunctionOnSet(f, S) <= SumFunctionOnSet(g, S)
<1> DEFINE G == {T \in SUBSET S : k * SumFunctionOnSet(f, T) <= SumFunctionOnSet(g, T)}
<1>1. {} \in G
  BY SumEmpty
<1>2. ASSUME NEW T \in SUBSET S, NEW x \in S \ T, T \in G
      PROVE  T \cup {x} \in G
  <2>1. IsFiniteSet(T) /\ x \notin T
    BY FS_Subset
  <2>2. PICK m, n, p, q \in Nat : /\ m = SumFunctionOnSet(f, T) /\ n = SumFunctionOnSet(g, T)
                                  /\ p = f[x] /\ q = g[x]
    BY <2>1, SumType
  <2>3. /\ SumFunctionOnSet(f, T \cup {x}) = m + p
        /\ SumFunctionOnSet(g, T \cup {x}) = n + q
    BY <2>1, <2>2, SumAdd
  <2>4. k * m <= n /\ k * p <= q
    BY <1>2, <2>2
  <2>5. k * (m + p) = k * m + k * p /\ k * m \in Nat /\ k * p \in Nat
    OBVIOUS
  <2>6. k * (m + p) <= n + q
    BY <2>4, <2>5
  <2> QED BY <2>3, <2>6
<1> HIDE DEF G
<1>3. S \in G
  BY <1>1, <1>2, FiniteInduction
<1> QED BY <1>3 DEF G

-----------------------------------------------------------------------------
(* Powers of two *)

LEMMA PowerIsCount ==
    ASSUME NEW n \in Nat
    PROVE  /\ IsFiniteSet(SUBSET (1..n))
           /\ Cardinality(SUBSET (1..n)) = 2^n
           /\ 2^n \in Nat \ {0}
<1>1. IsFiniteSet(1..n) /\ Cardinality(1..n) = n
  <2>1. 1 \in Int /\ n \in Int
    OBVIOUS
  <2>2. IsFiniteSet(1..n) /\ Cardinality(1..n) = IF 1 > n THEN 0 ELSE n - 1 + 1
    BY <2>1, FS_Interval
  <2> QED BY <2>2
<1>2. IsFiniteSet(SUBSET (1..n)) /\ Cardinality(SUBSET (1..n)) = 2^n
  BY <1>1, FS_SUBSET
<1>3. Cardinality(SUBSET (1..n)) \in Nat
  BY <1>2, FS_CardinalityType
<1>4. SUBSET (1..n) # {}
  OBVIOUS
<1>5. Cardinality(SUBSET (1..n)) # 0
  BY <1>2, <1>4, FS_EmptySet
<1> QED BY <1>2, <1>3, <1>5

LEMMA PowerOfSum ==
    ASSUME NEW a \in Nat, NEW b \in Nat
    PROVE  2^(a + b) = 2^a * 2^b
<1> DEFINE A == 1..a
           B == (a + 1)..(a + b)
           f == [P \in (SUBSET A) \X (SUBSET B) |-> P[1] \cup P[2]]
<1>1. A \cup B = 1..(a + b) /\ A \cap B = {}
  OBVIOUS
<1>2. IsFiniteSet(B) /\ Cardinality(B) = b
  <2>1. a + 1 \in Int /\ a + b \in Int
    OBVIOUS
  <2>2. IsFiniteSet(B) /\ Cardinality(B) = IF a + 1 > a + b THEN 0 ELSE (a + b) - (a + 1) + 1
    BY <2>1, FS_Interval
  <2> QED BY <2>2
<1>3. IsFiniteSet(SUBSET B) /\ Cardinality(SUBSET B) = 2^b
  BY <1>2, FS_SUBSET
<1>4. IsFiniteSet(SUBSET A) /\ Cardinality(SUBSET A) = 2^a
  BY PowerIsCount
<1>5. /\ IsFiniteSet((SUBSET A) \X (SUBSET B))
      /\ Cardinality((SUBSET A) \X (SUBSET B)) = 2^a * 2^b
  BY <1>3, <1>4, FS_Product
<1>6. a + b \in Nat
  OBVIOUS
<1>7. Cardinality(SUBSET (1..(a + b))) = 2^(a + b)
  BY <1>6, PowerIsCount
<1> HIDE DEF A, B
<1>8. ExistsBijection((SUBSET A) \X (SUBSET B), SUBSET (A \cup B))
  <2>1. f \in [(SUBSET A) \X (SUBSET B) -> SUBSET (A \cup B)]
    OBVIOUS
  <2>2. ASSUME NEW P \in (SUBSET A) \X (SUBSET B), NEW Q \in (SUBSET A) \X (SUBSET B), f[P] = f[Q]
        PROVE  P = Q
    <3>1. P[1] = (P[1] \cup P[2]) \cap A /\ P[2] = (P[1] \cup P[2]) \cap B
      BY <1>1
    <3>2. Q[1] = (Q[1] \cup Q[2]) \cap A /\ Q[2] = (Q[1] \cup Q[2]) \cap B
      BY <1>1
    <3>3. P[1] \cup P[2] = Q[1] \cup Q[2]
      BY <2>2
    <3>4. P[1] = Q[1] /\ P[2] = Q[2]
      BY <3>1, <3>2, <3>3
    <3> QED BY <3>4
  <2>3. ASSUME NEW R \in SUBSET (A \cup B)
        PROVE  \E P \in (SUBSET A) \X (SUBSET B) : f[P] = R
    <3>1. <<R \cap A, R \cap B>> \in (SUBSET A) \X (SUBSET B)
      OBVIOUS
    <3>2. f[<<R \cap A, R \cap B>>] = (R \cap A) \cup (R \cap B)
      BY <3>1
    <3>3. (R \cap A) \cup (R \cap B) = R
      OBVIOUS
    <3> QED BY <3>1, <3>2, <3>3
  <2> HIDE DEF f
  <2>4. f \in Bijection((SUBSET A) \X (SUBSET B), SUBSET (A \cup B))
    BY <2>1, <2>2, <2>3 DEF Bijection, Injection, Surjection, IsInjective
  <2> QED BY <2>4 DEF ExistsBijection
<1>9. Cardinality(SUBSET (A \cup B)) = Cardinality((SUBSET A) \X (SUBSET B))
  BY <1>5, <1>8, FS_Bijection
<1> QED BY <1>1, <1>5, <1>7, <1>9

-------------------------------------------------------------------------------
(* The decay *)

LEMMA Quotient ==
    ASSUME NEW p \in Nat, NEW k \in Nat \ {0}
    PROVE  /\ p \div k \in Nat
           /\ k * (p \div k) <= p
           /\ p < k * (p \div k) + k
BY SMTT(30)

\* The quotient is the largest number that fits.
LEMMA QuotientIsLargest ==
    ASSUME NEW p \in Nat, NEW k \in Nat \ {0}, NEW q \in Nat, k * q <= p
    PROVE  q <= p \div k
<1>1. PICK d \in Nat : d = p \div k /\ p < k * d + k
  BY Quotient
<1>2. SUFFICES ASSUME d + 1 <= q PROVE FALSE
  BY <1>1
<1>3. k * (d + 1) <= k * q
  <2>1. PICK r \in Nat : q = (d + 1) + r
    <3>1. q - (d + 1) \in Nat /\ q = (d + 1) + (q - (d + 1))
      BY <1>2
    <3> QED BY <3>1
  <2>2. k * q = k * (d + 1) + k * r
    BY <2>1
  <2>3. k * r \in Nat /\ k * (d + 1) \in Nat
    OBVIOUS
  <2> QED BY <2>2, <2>3
<1>4. k * (d + 1) = k * d + k /\ k * d \in Nat /\ k * q \in Nat
  OBVIOUS
<1> QED BY <1>1, <1>3, <1>4

LEMMA DecayType ==
    ASSUME NEW p \in Nat, NEW t \in Int
    PROVE  Decay(p, t) \in Nat /\ Decay(p, t) <= p
<1>1. CASE p <= 0 \/ t <= 0
  BY <1>1 DEF Decay, Positive
<1>2. CASE ~(p <= 0 \/ t <= 0)
  <2>1. t \in Nat /\ Decay(p, t) = p \div 2^t
    BY <1>2 DEF Decay
  <2>2. PICK k \in Nat \ {0} : k = 2^t
    BY <2>1, PowerIsCount
  <2>3. PICK q \in Nat : q = p \div k /\ k * q <= p
    BY Quotient
  <2>4. q <= k * q
    <3>1. PICK j \in Nat : k = j + 1
      <4>1. k - 1 \in Nat /\ k = (k - 1) + 1
        OBVIOUS
      <4> QED BY <4>1
    <3>2. k * q = j * q + q /\ j * q \in Nat
      BY <3>1
    <3> QED BY <3>2
  <2> QED BY <2>1, <2>2, <2>3, <2>4
<1> QED BY <1>1, <1>2

\* Points that have decayed for a while decay on by the power of the rest.
LEMMA DecayInSteps ==
    ASSUME NEW p \in Nat, NEW s \in Nat, NEW t \in Nat
    PROVE  2^t * Decay(p, s + t) <= Decay(p, s)
<1>1. PICK k, j \in Nat \ {0} : k = 2^t /\ j = 2^s
  BY PowerIsCount
<1>2. CASE p = 0
  BY <1>1, <1>2 DEF Decay, Positive
<1>3. CASE p # 0 /\ t = 0
  <2>1. Cardinality(SUBSET (1..0)) = 2^0 /\ 1..0 = {}
    <3>1. 0 \in Nat /\ 1..0 = {}
      OBVIOUS
    <3> QED BY <3>1, PowerIsCount
  <2>2. SUBSET {} = {{}} /\ Cardinality({{}}) = 1
    BY FS_Singleton
  <2>3. 2^0 = 1
    BY <2>1, <2>2
  <2>4. Decay(p, s) \in Nat /\ s + t = s /\ 2^t = 1
    BY <1>3, <2>3, DecayType
  <2> QED BY <2>4
<1>4. CASE p # 0 /\ t # 0
  <2>1. Decay(p, s + t) = p \div (j * k)
    <3>1. 2^(s + t) = j * k
      BY <1>1, PowerOfSum
    <3>2. ~(p <= 0 \/ s + t <= 0)
      BY <1>4
    <3> QED BY <3>1, <3>2 DEF Decay
  <2>2. j * k \in Nat \ {0}
    <3>1. s + t \in Nat
      OBVIOUS
    <3>2. 2^(s + t) \in Nat \ {0}
      BY <3>1, PowerIsCount
    <3> QED BY <1>1, <3>2, PowerOfSum
  <2>3. PICK q \in Nat : q = p \div (j * k) /\ (j * k) * q <= p
    BY <2>2, Quotient
  <2>4. j * (k * q) <= p /\ k * q \in Nat
    BY <2>3
  <2>5. CASE s = 0
    <3>1. (j * k) * q = j * (k * q) /\ Decay(p, s) = p
      BY <1>4, <2>5 DEF Decay, Positive
    <3>2. k * q <= j * (k * q)
      <4>1. PICK m, i \in Nat : m = k * q /\ j = i + 1
        <5>1. j - 1 \in Nat /\ j = (j - 1) + 1
          OBVIOUS
        <5> QED BY <2>4, <5>1
      <4>2. j * m = i * m + m /\ i * m \in Nat
        BY <4>1
      <4> QED BY <4>1, <4>2
    <3> QED BY <1>1, <2>1, <2>3, <2>4, <3>1, <3>2
  <2>6. CASE s # 0
    <3>1. Decay(p, s) = p \div j
      BY <1>1, <1>4, <2>6 DEF Decay
    <3>2. k * q <= p \div j
      BY <2>4, QuotientIsLargest
    <3> QED BY <1>1, <2>1, <2>3, <3>1, <3>2
  <2> QED BY <2>5, <2>6
<1> QED BY <1>2, <1>3, <1>4

\* Points never grow back.
LEMMA DecayMonotone ==
    ASSUME NEW p \in Nat, NEW s \in Int, NEW t \in Int, s <= t
    PROVE  Decay(p, t) <= Decay(p, s)
<1>1. CASE s < 0
  <2>1. Decay(p, s) = p
    BY <1>1 DEF Decay, Positive
  <2> QED BY <2>1, DecayType
<1>2. CASE s >= 0
  <2>1. PICK d \in Nat : t = s + d
    <3>1. t - s \in Nat /\ t = s + (t - s)
      OBVIOUS
    <3> QED BY <3>1
  <2>2. s \in Nat
    BY <1>2
  <2>3. 2^d * Decay(p, t) <= Decay(p, s)
    BY <2>1, <2>2, DecayInSteps
  <2>4. PICK k \in Nat \ {0} : k = 2^d
    BY PowerIsCount
  <2>5. PICK i, q \in Nat : k = i + 1 /\ q = Decay(p, t)
    <3>1. k - 1 \in Nat /\ k = (k - 1) + 1
      OBVIOUS
    <3> QED BY <3>1, DecayType
  <2>6. k * q = i * q + q /\ i * q \in Nat
    BY <2>5
  <2>7. Decay(p, s) \in Nat
    BY DecayType
  <2> QED BY <2>3, <2>4, <2>5, <2>6, <2>7
<1> QED BY <1>1, <1>2

-------------------------------------------------------------------------------
(* The points of a set of entries *)

LEMMA EntryTypes ==
    ASSUME NEW E \in SUBSET Entries, NEW t \in Int
    PROVE  \A e \in E : /\ e.points \in Nat /\ t - e.at \in Int
                        /\ Decay(e.points, t - e.at) \in Nat
                        /\ Decay(e.points, t - e.at) <= e.points
<1>1. ASSUME NEW e \in E PROVE e.points \in Nat /\ t - e.at \in Int
  BY ScoringAssumption DEF Entries, Times
<1>2. ASSUME NEW e \in E
      PROVE  /\ Decay(e.points, t - e.at) \in Nat
             /\ Decay(e.points, t - e.at) <= e.points
  BY <1>1, DecayType
<1> QED BY <1>1, <1>2

LEMMA PointsType ==
    ASSUME NEW E \in SUBSET Entries, IsFiniteSet(E)
    PROVE  PointsOf(E) \in Nat
<1> DEFINE f == [e \in E |-> e.points]
<1>1. \A e \in E : f[e] \in Nat
  BY DEF Entries
<1>2. DOMAIN f = E
  OBVIOUS
<1> HIDE DEF f
<1> QED BY <1>1, <1>2, SumType DEF PointsOf, SumFunction, f

LEMMA PointsUnion ==
    ASSUME NEW E \in SUBSET Entries, IsFiniteSet(E),
           NEW N \in SUBSET Entries, IsFiniteSet(N), E \cap N = {}
    PROVE  PointsOf(E \cup N) = PointsOf(E) + PointsOf(N)
<1> DEFINE f == [e \in E \cup N |-> e.points]
           g == [e \in E |-> e.points]
           h == [e \in N |-> e.points]
<1>1. \A e \in E \cup N : f[e] \in Nat
  BY DEF Entries
<1>2. /\ \A e \in E : f[e] \in Nat /\ f[e] = g[e]
      /\ \A e \in N : f[e] \in Nat /\ f[e] = h[e]
  BY DEF Entries
<1>3. DOMAIN f = E \cup N /\ DOMAIN g = E /\ DOMAIN h = N
  OBVIOUS
<1>4. /\ PointsOf(E \cup N) = SumFunctionOnSet(f, E \cup N)
      /\ PointsOf(E) = SumFunctionOnSet(g, E)
      /\ PointsOf(N) = SumFunctionOnSet(h, N)
  BY <1>3 DEF PointsOf, SumFunction
<1> HIDE DEF f, g, h
<1>5. SumFunctionOnSet(f, E \cup N) = SumFunctionOnSet(f, E) + SumFunctionOnSet(f, N)
  BY <1>1, SumUnion
<1>6. SumFunctionOnSet(f, E) = SumFunctionOnSet(g, E)
  BY <1>2, SumSame
<1>7. SumFunctionOnSet(f, N) = SumFunctionOnSet(h, N)
  BY <1>2, SumSame
<1> QED BY <1>4, <1>5, <1>6, <1>7

LEMMA PointsMonotone ==
    ASSUME NEW E \in SUBSET Entries, IsFiniteSet(E), NEW D \in SUBSET E
    PROVE  PointsOf(D) <= PointsOf(E)
<1> DEFINE f == [e \in D |-> e.points]
           g == [e \in E |-> e.points]
<1>1. /\ \A e \in D : f[e] \in Nat /\ f[e] <= g[e]
      /\ \A e \in E : g[e] \in Nat
  BY DEF Entries
<1>2. DOMAIN f = D /\ DOMAIN g = E
  OBVIOUS
<1>3. PointsOf(D) = SumFunctionOnSet(f, D) /\ PointsOf(E) = SumFunctionOnSet(g, E)
  BY <1>2 DEF PointsOf, SumFunction
<1> HIDE DEF f, g
<1> QED BY <1>1, <1>3, SumMonotone

LEMMA PointsOfFew ==
    /\ PointsOf({}) = 0
    /\ \A t : DecayedPointsOf({}, t) = 0
    /\ \A e \in Entries : PointsOf({e}) = e.points
<1>1. PointsOf({}) = 0
  <2> DEFINE f == [e \in {} |-> e.points]
  <2>1. DOMAIN f = {}
    OBVIOUS
  <2> HIDE DEF f
  <2> QED BY <2>1, SumEmpty DEF PointsOf, SumFunction, f
<1>2. ASSUME NEW t PROVE DecayedPointsOf({}, t) = 0
  <2> DEFINE f == [e \in {} |-> Decay(e.points, t - e.at)]
  <2>1. DOMAIN f = {}
    OBVIOUS
  <2> HIDE DEF f
  <2> QED BY <2>1, SumEmpty DEF DecayedPointsOf, SumFunction, f
<1>3. ASSUME NEW x \in Entries PROVE PointsOf({x}) = x.points
  <2> DEFINE f == [e \in {x} |-> e.points]
  <2>1. DOMAIN f = {x} /\ f[x] = x.points /\ f[x] \in Nat
    BY DEF Entries
  <2> HIDE DEF f
  <2>2. SumFunctionOnSet(f, {x}) = f[x]
    BY <2>1, SumOne
  <2> QED BY <2>1, <2>2 DEF PointsOf, SumFunction, f
<1> QED BY <1>1, <1>2, <1>3

LEMMA DecayedType ==
    ASSUME NEW E \in SUBSET Entries, IsFiniteSet(E), NEW t \in Int
    PROVE  DecayedPointsOf(E, t) \in Nat
<1> DEFINE f == [e \in E |-> Decay(e.points, t - e.at)]
<1>1. \A e \in E : f[e] \in Nat
  BY EntryTypes
<1>2. DOMAIN f = E
  OBVIOUS
<1> HIDE DEF f
<1> QED BY <1>1, <1>2, SumType DEF DecayedPointsOf, SumFunction, f

LEMMA DecayedUnion ==
    ASSUME NEW E \in SUBSET Entries, IsFiniteSet(E),
           NEW N \in SUBSET Entries, IsFiniteSet(N), E \cap N = {}, NEW t \in Int
    PROVE  DecayedPointsOf(E \cup N, t) = DecayedPointsOf(E, t) + DecayedPointsOf(N, t)
<1> DEFINE f == [e \in E \cup N |-> Decay(e.points, t - e.at)]
           g == [e \in E |-> Decay(e.points, t - e.at)]
           h == [e \in N |-> Decay(e.points, t - e.at)]
<1>1. \A e \in E \cup N : Decay(e.points, t - e.at) \in Nat
  BY EntryTypes
<1>2. /\ \A e \in E \cup N : f[e] \in Nat
      /\ \A e \in E : f[e] \in Nat /\ f[e] = g[e]
      /\ \A e \in N : f[e] \in Nat /\ f[e] = h[e]
  BY <1>1
<1>3. DOMAIN f = E \cup N /\ DOMAIN g = E /\ DOMAIN h = N
  OBVIOUS
<1>4. /\ DecayedPointsOf(E \cup N, t) = SumFunctionOnSet(f, E \cup N)
      /\ DecayedPointsOf(E, t) = SumFunctionOnSet(g, E)
      /\ DecayedPointsOf(N, t) = SumFunctionOnSet(h, N)
  BY <1>3 DEF DecayedPointsOf, SumFunction
<1> HIDE DEF f, g, h
<1>5. SumFunctionOnSet(f, E \cup N) = SumFunctionOnSet(f, E) + SumFunctionOnSet(f, N)
  BY <1>2, SumUnion
<1>6. SumFunctionOnSet(f, E) = SumFunctionOnSet(g, E)
  BY <1>2, SumSame
<1>7. SumFunctionOnSet(f, N) = SumFunctionOnSet(h, N)
  BY <1>2, SumSame
<1> QED BY <1>4, <1>5, <1>6, <1>7

LEMMA DecayedAtMost ==
    ASSUME NEW E \in SUBSET Entries, IsFiniteSet(E), NEW t \in Int
    PROVE  DecayedPointsOf(E, t) <= PointsOf(E)
<1> DEFINE f == [e \in E |-> Decay(e.points, t - e.at)]
           g == [e \in E |-> e.points]
<1>1. /\ \A e \in E : f[e] \in Nat /\ f[e] <= g[e]
      /\ \A e \in E : g[e] \in Nat
  BY EntryTypes
<1>2. DOMAIN f = E /\ DOMAIN g = E
  OBVIOUS
<1>3. /\ DecayedPointsOf(E, t) = SumFunctionOnSet(f, E)
      /\ PointsOf(E) = SumFunctionOnSet(g, E)
  BY <1>2 DEF PointsOf, DecayedPointsOf, SumFunction
<1> HIDE DEF f, g
<1>4. E \in SUBSET E
  OBVIOUS
<1> QED BY <1>1, <1>3, <1>4, SumMonotone

LEMMA DecayedLater ==
    ASSUME NEW E \in SUBSET Entries, IsFiniteSet(E), NEW s \in Int, NEW t \in Int, s <= t
    PROVE  DecayedPointsOf(E, t) <= DecayedPointsOf(E, s)
<1> DEFINE f == [e \in E |-> Decay(e.points, t - e.at)]
           g == [e \in E |-> Decay(e.points, s - e.at)]
<1>1. ASSUME NEW e \in E
      PROVE  f[e] \in Nat /\ g[e] \in Nat /\ f[e] <= g[e]
  <2>1. /\ e.points \in Nat /\ t - e.at \in Int /\ s - e.at \in Int
        /\ f[e] \in Nat /\ g[e] \in Nat
    BY EntryTypes
  <2>2. s - e.at <= t - e.at
    BY ScoringAssumption DEF Entries, Times
  <2> QED BY <2>1, <2>2, DecayMonotone
<1>2. DOMAIN f = E /\ DOMAIN g = E
  OBVIOUS
<1>3. /\ DecayedPointsOf(E, t) = SumFunctionOnSet(f, E)
      /\ DecayedPointsOf(E, s) = SumFunctionOnSet(g, E)
  BY <1>2 DEF DecayedPointsOf, SumFunction
<1> HIDE DEF f, g
<1>4. E \in SUBSET E
  OBVIOUS
<1> QED BY <1>1, <1>3, <1>4, SumMonotone

LEMMA DecayedScaled ==
    ASSUME NEW E \in SUBSET Entries, IsFiniteSet(E), NEW s \in Int, NEW d \in Nat,
           \A e \in E : e.at <= s
    PROVE  2^d * DecayedPointsOf(E, s + d) <= DecayedPointsOf(E, s)
<1> DEFINE f == [e \in E |-> Decay(e.points, (s + d) - e.at)]
           g == [e \in E |-> Decay(e.points, s - e.at)]
<1>1. s + d \in Int
  OBVIOUS
<1>2. PICK k \in Nat : k = 2^d
  BY PowerIsCount
<1>3. ASSUME NEW e \in E
      PROVE  f[e] \in Nat /\ g[e] \in Nat /\ k * f[e] <= g[e]
  <2>1. e.points \in Nat /\ f[e] \in Nat /\ g[e] \in Nat
    BY <1>1, EntryTypes
  <2>2. PICK a \in Nat : a = s - e.at /\ (s + d) - e.at = a + d
    <3>1. e.at \in Int /\ e.at <= s
      BY ScoringAssumption DEF Entries, Times
    <3>2. s - e.at \in Nat /\ (s + d) - e.at = (s - e.at) + d
      BY <3>1
    <3> QED BY <3>2
  <2>3. 2^d * Decay(e.points, a + d) <= Decay(e.points, a)
    BY <2>1, DecayInSteps
  <2> QED BY <1>2, <2>1, <2>2, <2>3
<1>4. DOMAIN f = E /\ DOMAIN g = E
  OBVIOUS
<1>5. /\ DecayedPointsOf(E, s + d) = SumFunctionOnSet(f, E)
      /\ DecayedPointsOf(E, s) = SumFunctionOnSet(g, E)
  BY <1>4 DEF DecayedPointsOf, SumFunction
<1> HIDE DEF f, g
<1>6. k * SumFunctionOnSet(f, E) <= SumFunctionOnSet(g, E)
  BY <1>3, SumScaled
<1> QED BY <1>2, <1>5, <1>6

-------------------------------------------------------------------------------
(* The inductive invariant *)

\* What the tables hold once session c commits.
AllOf(c) == log \cup newLog[c]

\* Entries are numbered in the order they are made.
EntriesOK ==
    /\ IsFiniteSet(log)
    /\ \A c \in Consumers :
          /\ IsFiniteSet(newLog[c])
          /\ \A e \in AllOf(c) : e.id <= made
          /\ \A e, f \in AllOf(c) : e.id = f.id => e = f

\* Only the session that holds the lock has written; a session that is not
\* open has nothing in memory; an event with nothing to score is not scored.
SessionsOK ==
    \A c \in Consumers :
        /\ staged[c] # NoRow => lock = c /\ view[c] # NoRow
        /\ newLog[c] # {} => staged[c] # NoRow
        /\ pc[c] = "idle" => view[c] = NoRow /\ staged[c] = NoRow
        /\ pc[c] = "scoring" => view[c] # NoRow
        /\ pc[c] \in {"loading", "scoring"} => points[c] # 0 \/ event[c].other

\* Nothing is dated in the future.
ClockOK ==
    /\ row.updated <= now
    /\ \A c \in Consumers :
          /\ view[c] # NoRow => view[c].updated <= now
          /\ staged[c] # NoRow => staged[c].updated <= now
          /\ pc[c] \in {"loading", "scoring"} => event[c].at <= now

ExplainedOK ==
    /\ row.score <= PointsOf(log)
    /\ \A c \in Consumers :
          /\ view[c] # NoRow => view[c].score <= PointsOf(AllOf(c))
          /\ staged[c] # NoRow => staged[c].score <= PointsOf(AllOf(c))

\* The only open session remembers the row as it would commit it, but for the
\* time of a status change.
AloneOK ==
    /\ \A c, d \in Consumers : c # d => pc[c] = "idle" \/ pc[d] = "idle"
    /\ \A c \in Consumers :
          view[c] # NoRow => /\ view[c].score = Visible(c).score
                             /\ view[c].lastAbuse = Visible(c).lastAbuse

\* The score is as recent as the entries, and at least what they have decayed
\* to by the time of the score.
Covers(r, entries) ==
    /\ \A e \in entries : e.at <= r.updated
    /\ r.score >= DecayedPointsOf(entries, r.updated)

CoveredOK ==
    /\ Covers(row, log)
    /\ \A c \in Consumers :
          /\ view[c] # NoRow => Covers(view[c], AllOf(c))
          /\ staged[c] # NoRow => Covers(staged[c], AllOf(c))

\* The latest device entry has the most devices, and they are paid for once.
DeviceEntriesOf(entries) == {e \in entries : e.detector = "device_limit"}

PricedOnce(entries) ==
    \/ DeviceEntriesOf(entries) = {}
    \/ \E last \in DeviceEntriesOf(entries) :
          /\ \A e \in DeviceEntriesOf(entries) :
                e.id <= last.id /\ e.devices <= last.devices
          /\ PointsOf(DeviceEntriesOf(entries))
                <= DeviceWeight * (last.devices - Min(Limits))

PricedOK ==
    /\ PricedOnce(log)
    /\ \A c \in Consumers :
          /\ PricedOnce(AllOf(c))
          /\ pc[c] \in {"loading", "scoring"} =>
                points[c] = NewlyOver(event[c].devices, event[c].limit,
                                      LastDevices(c, event[c].limit)) * DeviceWeight

Ordered(entries) == \A e, f \in entries : e.id < f.id => e.at <= f.at

\* If the entries came in order, the row remembers the last of them, and the
\* bonuses came after a gap.
GapsKept(r, entries) ==
    Ordered(entries) =>
        /\ \A e \in entries : e.at <= r.lastAbuse
        /\ \A bonus, e \in entries :
              bonus.detector = "repeat" /\ e.id < bonus.id /\ e.at < bonus.at
                  => bonus.at - e.at >= MinGap

GapsOK ==
    /\ GapsKept(row, log)
    /\ \A c \in Consumers : GapsKept(Visible(c), AllOf(c))

\* What holds as long as no two sessions have been open at the same time.
SoloOK == AloneOK /\ CoveredOK /\ PricedOK /\ GapsOK

IInv ==
    /\ TypeOK
    /\ EntriesOK
    /\ SessionsOK
    /\ ClockOK
    /\ ExplainedOK
    /\ overlapped \/ SoloOK

\* A score that covers the entries goes on covering them while it decays.
LEMMA EffectiveCovers ==
    ASSUME NEW r \in Rows, NEW E \in SUBSET Entries, IsFiniteSet(E), Covers(r, E),
           NEW t \in Int, NEW u \in Int, t <= u, r.updated <= u
    PROVE  DecayedPointsOf(E, u) <= Effective(r, t)
<1>1. r.score \in Nat /\ r.updated \in Int
  BY ScoringAssumption DEF Rows, Times
<1>2. PICK p, s : /\ p = r.score /\ p \in Nat /\ s = r.updated /\ s \in Int
                  /\ Effective(r, t) = Decay(p, t - s)
  BY <1>1 DEF Effective
<1>3. DecayedPointsOf(E, s) <= p /\ \A e \in E : e.at <= s
  BY <1>2 DEF Covers
<1>4. DecayedPointsOf(E, u) \in Nat /\ DecayedPointsOf(E, t) \in Nat
      /\ DecayedPointsOf(E, s) \in Nat
  BY <1>2, DecayedType
<1>5. CASE t <= s
  <2>1. Effective(r, t) = p
    BY <1>2, <1>5 DEF Decay, Positive
  <2>2. DecayedPointsOf(E, u) <= DecayedPointsOf(E, s)
    BY <1>2, DecayedLater
  <2> QED BY <1>2, <1>3, <1>4, <2>1, <2>2
<1>6. CASE s < t
  <2>1. PICK d \in Nat : t = s + d /\ d = t - s /\ d # 0
    <3>1. t - s \in Nat /\ t = s + (t - s) /\ t - s # 0
      BY <1>2, <1>6
    <3> QED BY <3>1
  <2>2. PICK k \in Nat \ {0} : k = 2^d
    BY PowerIsCount
  <2>3. 2^d * DecayedPointsOf(E, s + d) <= DecayedPointsOf(E, s)
    BY <1>2, <1>3, DecayedScaled
  <2>4. PICK q \in Nat : q = DecayedPointsOf(E, t)
    BY <1>4
  <2>5. k * q <= p
    <3>1. k * q \in Nat
      OBVIOUS
    <3> QED BY <1>2, <1>3, <1>4, <2>1, <2>2, <2>3, <2>4, <3>1
  <2>6. q <= Effective(r, t)
    <3>1. CASE p = 0
      <4>1. Effective(r, t) = 0
        BY <1>2, <3>1 DEF Decay, Positive
      <4>2. DecayedPointsOf(E, t) <= DecayedPointsOf(E, s)
        BY <1>2, <1>6, DecayedLater
      <4> QED BY <1>3, <1>4, <2>4, <3>1, <4>1, <4>2
    <3>2. CASE p # 0
      <4>1. ~(p <= 0 \/ d <= 0)
        BY <1>2, <2>1, <3>2
      <4>2. Effective(r, t) = p \div k
        BY <1>2, <2>1, <2>2, <4>1 DEF Decay
      <4> QED BY <1>2, <2>5, <4>2, QuotientIsLargest
    <3> QED BY <3>1, <3>2
  <2>7. DecayedPointsOf(E, u) <= DecayedPointsOf(E, t)
    BY DecayedLater
  <2>8. Effective(r, t) \in Nat
    <3>1. t - s \in Int
      BY <1>2
    <3> QED BY <1>2, <3>1, DecayType
  <2> QED BY <1>4, <2>4, <2>6, <2>7, <2>8
<1> QED BY <1>2, <1>5, <1>6

LEMMA EffectiveType ==
    ASSUME NEW r \in Rows, NEW t \in Int
    PROVE  Effective(r, t) \in Nat /\ Effective(r, t) <= r.score
<1>1. r.score \in Nat /\ t - r.updated \in Int
  BY ScoringAssumption DEF Rows, Times
<1> QED BY <1>1, DecayType DEF Effective

LEMMA NoEventIsEvent == NoEvent \in Events
<1>1. Events # {}
  <2>1. PICK l : l \in Limits
    BY ScoringAssumption
  <2>2. [at |-> 0, devices |-> 0, limit |-> l, other |-> TRUE] \in Events
    BY <2>1, ScoringAssumption DEF Events, Times
  <2> QED BY <2>2
<1> QED BY <1>1 DEF NoEvent

-------------------------------------------------------------------------------
(* Type correctness *)

LEMMA TypeInit == Init => TypeOK
<1> SUFFICES ASSUME Init PROVE TypeOK
  OBVIOUS
<1>1. row \in Rows
  BY ScoringAssumption DEF Init, Rows, Times, Never
<1>2. event \in [Consumers -> Events]
  BY NoEventIsEvent DEF Init
<1>3. now \in Times /\ work \in 0..MaxWork /\ changes \in 0..MaxChanges
  BY ScoringAssumption DEF Init, Times
<1>4. /\ view \in [Consumers -> Rows \cup {NoRow}]
      /\ staged \in [Consumers -> Rows \cup {NoRow}]
      /\ newLog \in [Consumers -> SUBSET Entries]
  BY DEF Init
<1> QED BY <1>1, <1>2, <1>3, <1>4 DEF Init, TypeOK

LEMMA VisibleType ==
    ASSUME TypeOK, NEW c \in Consumers
    PROVE  Visible(c) \in Rows
BY DEF TypeOK, Visible

LEMMA OverType ==
    ASSUME NEW d \in Nat, NEW l \in Nat, NEW m \in Nat
    PROVE  NewlyOver(d, l, m) \in Nat
BY DEF NewlyOver, Positive

\* Among finitely many entries there is one with the highest number.
LEMMA LatestEntry ==
    ASSUME NEW E \in SUBSET Entries, IsFiniteSet(E), E # {}
    PROVE  \E e \in E : \A f \in E : f.id <= e.id
<1> DEFINE G == {T \in SUBSET E : T = {} \/ \E e \in T : \A f \in T : f.id <= e.id}
<1>1. {} \in G
  OBVIOUS
<1>2. ASSUME NEW T \in SUBSET E, NEW x \in E \ T, T \in G
      PROVE  T \cup {x} \in G
  <2>1. \A e \in E : e.id \in Nat
    BY DEF Entries
  <2>2. CASE T = {}
    BY <2>1, <2>2
  <2>3. CASE T # {}
    <3>1. PICK e \in T : \A f \in T : f.id <= e.id
      BY <1>2, <2>3
    <3>2. CASE x.id <= e.id
      BY <3>1, <3>2
    <3>3. CASE e.id <= x.id
      <4>1. \A f \in T \cup {x} : f.id <= x.id
        BY <2>1, <3>1, <3>3
      <4> QED BY <4>1
    <3> QED BY <2>1, <3>2, <3>3
  <2> QED BY <2>2, <2>3
<1> HIDE DEF G
<1>3. E \in G
  BY <1>1, <1>2, FiniteInduction
<1> QED BY <1>3 DEF G

\* The session sees finitely many entries.
LEMMA AllOfType ==
    ASSUME TypeOK, EntriesOK, NEW c \in Consumers
    PROVE  AllOf(c) \in SUBSET Entries /\ IsFiniteSet(AllOf(c))
<1>1. AllOf(c) \in SUBSET Entries
  BY DEF TypeOK, AllOf
<1>2. IsFiniteSet(AllOf(c))
  BY FS_Union DEF EntriesOK, AllOf
<1> QED BY <1>1, <1>2

\* last_for_detector() finds the latest device entry.
LEMMA LatestScored ==
    ASSUME TypeOK, EntriesOK, NEW c \in Consumers, NEW l \in Limits
    PROVE  /\ LastDevices(c, l) \in Nat
           /\ DeviceEntriesOf(AllOf(c)) = {} => LastDevices(c, l) = l
           /\ \A last \in DeviceEntriesOf(AllOf(c)) :
                 (\A e \in DeviceEntriesOf(AllOf(c)) : e.id <= last.id)
                     => LastDevices(c, l) = last.devices
<1> DEFINE D == DeviceEntriesOf(AllOf(c))
           Latest(e) == e \in D /\ \A f \in D : f.id <= e.id
<1>1. LastDevices(c, l) = IF D = {} THEN l ELSE (CHOOSE e \in D : \A f \in D : f.id <= e.id).devices
  BY DEF LastDevices, DeviceEntriesOf, AllOf
<1>2. D \in SUBSET Entries /\ IsFiniteSet(D)
  <2>1. D \in SUBSET AllOf(c)
    BY DEF DeviceEntriesOf
  <2> HIDE DEF D
  <2> QED BY <2>1, AllOfType, FS_Subset
<1>3. \A e, f \in D : e.id = f.id => e = f
  BY DEF EntriesOK, DeviceEntriesOf
<1> HIDE DEF D
<1>4. CASE D = {}
  <2>1. LastDevices(c, l) = l /\ l \in Nat
    BY <1>1, <1>4, ScoringAssumption
  <2> QED BY <1>4, <2>1 DEF D
<1>5. CASE D # {}
  <2>1. \E e \in D : \A f \in D : f.id <= e.id
    BY <1>2, <1>5, LatestEntry
  <2>2. PICK last \in D : /\ \A f \in D : f.id <= last.id
                          /\ LastDevices(c, l) = last.devices
    BY <1>1, <1>5, <2>1
  <2>3. last.devices \in Nat
    BY <1>2, <2>2, ScoringAssumption DEF Entries
  <2>4. ASSUME NEW e \in D, \A f \in D : f.id <= e.id PROVE e = last
    <3>1. e.id \in Nat /\ last.id \in Nat /\ e.id <= last.id /\ last.id <= e.id
      BY <1>2, <2>2, <2>4 DEF Entries
    <3>2. e.id = last.id
      BY <3>1
    <3> QED BY <1>3, <3>2
  <2> QED BY <1>5, <2>2, <2>3, <2>4 DEF D
<1> QED BY <1>4, <1>5

\* What the session sees of the row is as good as a committed row.
LEMMA VisibleOK ==
    ASSUME IInv, NEW c \in Consumers
    PROVE  /\ Visible(c) \in Rows
           /\ staged[c] = NoRow => AllOf(c) = log
           /\ Visible(c).updated <= now
           /\ Visible(c).score <= PointsOf(AllOf(c))
           /\ ~overlapped => Covers(Visible(c), AllOf(c))
<1>1. Visible(c) \in Rows
  BY VisibleType DEF IInv
<1>2. staged[c] = NoRow => AllOf(c) = log
  BY DEF IInv, SessionsOK, AllOf
<1>3. CASE staged[c] = NoRow
  BY <1>1, <1>2, <1>3
     DEF IInv, Visible, ClockOK, ExplainedOK, SoloOK, CoveredOK
<1>4. CASE staged[c] # NoRow
  BY <1>1, <1>4
     DEF IInv, Visible, ClockOK, ExplainedOK, SoloOK, CoveredOK
<1> QED BY <1>3, <1>4, <1>1, <1>2

LEMMA IInvInit == Init => IInv
<1> SUFFICES ASSUME Init PROVE IInv
  OBVIOUS
<1>1. TypeOK
  BY TypeInit
<1>2. EntriesOK
  BY FS_EmptySet DEF Init, EntriesOK, AllOf
<1>3. SessionsOK
  BY DEF Init, SessionsOK
<1>4. ClockOK
  BY DEF Init, ClockOK
<1>5. ExplainedOK
  BY PointsOfFew DEF Init, ExplainedOK
<1>6. AloneOK
  BY DEF Init, AloneOK
<1>7. CoveredOK
  BY PointsOfFew DEF Init, CoveredOK, Covers
<1>8. PricedOK
  BY DEF Init, PricedOK, PricedOnce, DeviceEntriesOf, AllOf
<1>9. GapsOK
  BY DEF Init, GapsOK, GapsKept, AllOf
<1> QED BY <1>1, <1>2, <1>3, <1>4, <1>5, <1>6, <1>7, <1>8, <1>9 DEF IInv, SoloOK

-------------------------------------------------------------------------------
(* Every step keeps the invariant *)

LEMMA EventTypes ==
    ASSUME NEW e \in Events
    PROVE  e.devices \in Nat /\ e.limit \in Nat /\ e.limit \in Limits /\ e.at \in Nat
<1>1. e.devices \in 0..MaxDevices /\ e.limit \in Limits /\ e.at \in 0..MaxTime
  BY DEF Events, Times
<1>2. MaxDevices \in Nat /\ MaxTime \in Nat /\ \A l \in Limits : l \in Nat
  BY ScoringAssumption
<1>3. e.devices \in Nat
  BY <1>1, <1>2
<1>4. e.limit \in Nat
  BY <1>1, <1>2
<1>5. e.at \in Nat
  BY <1>1, <1>2
<1> QED BY <1>1, <1>3, <1>4, <1>5

LEMMA BeginStep ==
    ASSUME IInv, NEW c \in Consumers, NEW e \in Events, Begin(c, e)
    PROVE  IInv'
<1> DEFINE over == NewlyOver(e.devices, e.limit, LastDevices(c, e.limit))
<1>1. /\ TypeOK /\ EntriesOK /\ over \in Nat /\ over * DeviceWeight \in Nat
      /\ over # 0 => over * DeviceWeight # 0
  <2>1. e.devices \in Nat /\ e.limit \in Nat /\ e.limit \in Limits
    BY EventTypes
  <2>2. LastDevices(c, e.limit) \in Nat
    BY <2>1, LatestScored DEF IInv
  <2>3. over \in Nat
    BY <2>1, <2>2, OverType
  <2> HIDE DEF over
  <2>4. \A i \in Nat, w \in Nat \ {0} : i * w \in Nat /\ (i # 0 => i * w # 0)
    BY SMTT(30)
  <2> QED BY <2>3, <2>4, ScoringAssumption DEF IInv
<1> HIDE DEF over
<1>2. /\ UNCHANGED <<row, log, lock, view, staged, newLog, now, made, changes>>
      /\ \/ /\ over # 0 \/ e.other
            /\ event' = [event EXCEPT ![c] = e]
            /\ points' = [points EXCEPT ![c] = over * DeviceWeight]
            /\ pc' = [pc EXCEPT ![c] = "loading"]
         \/ /\ pc' = [pc EXCEPT ![c] = "open"]
            /\ UNCHANGED <<event, points>>
      /\ work < MaxWork /\ work' = work + 1
      /\ e.at <= now
      /\ pc[c] \in {"idle", "open"}
      /\ overlapped' = (overlapped \/ \E d \in Consumers \ {c} : pc[d] # "idle")
  BY DEF Begin, database, over
<1>3. TypeOK'
  <2>1. work' \in 0..MaxWork
    BY <1>1, <1>2, ScoringAssumption DEF TypeOK
  <2>2. /\ event' \in [Consumers -> Events]
        /\ points' \in [Consumers -> Nat]
        /\ pc' \in [Consumers -> {"idle", "loading", "scoring", "open"}]
    BY <1>1, <1>2 DEF TypeOK
  <2>3. overlapped' \in BOOLEAN
    BY <1>1, <1>2 DEF TypeOK
  <2> QED BY <1>1, <1>2, <2>1, <2>2, <2>3 DEF TypeOK
<1>4. EntriesOK'
  BY <1>1, <1>2 DEF EntriesOK, AllOf
<1>5. SessionsOK'
  BY <1>1, <1>2 DEF IInv, SessionsOK, TypeOK
<1>6. ClockOK'
  BY <1>1, <1>2 DEF IInv, ClockOK, TypeOK
<1>7. ExplainedOK'
  BY <1>1, <1>2 DEF IInv, ExplainedOK, AllOf
<1>8. ASSUME ~overlapped' PROVE SoloOK'
  <2>1. SoloOK /\ \A d \in Consumers \ {c} : pc[d] = "idle"
    BY <1>2, <1>8 DEF IInv
  <2>2. AloneOK'
    BY <1>1, <1>2, <2>1 DEF SoloOK, AloneOK, Visible, TypeOK
  <2>3. CoveredOK'
    BY <1>2, <2>1 DEF SoloOK, CoveredOK, Covers, AllOf
  <2>4. PricedOK'
    <3>1. \A d \in Consumers : \A l : LastDevices(d, l)' = LastDevices(d, l)
      BY <1>2 DEF LastDevices
    <3>2. PricedOnce(log)' /\ \A d \in Consumers : PricedOnce(AllOf(d))'
      BY <1>2, <2>1 DEF SoloOK, PricedOK, PricedOnce, DeviceEntriesOf, AllOf
    <3>3. ASSUME NEW d \in Consumers, pc'[d] \in {"loading", "scoring"}
          PROVE  points'[d] = NewlyOver(event'[d].devices, event'[d].limit,
                                        LastDevices(d, event'[d].limit)) * DeviceWeight
      <4>1. d = c
        BY <1>1, <1>2, <2>1, <3>3 DEF TypeOK
      <4>2. event'[c] = e /\ points'[c] = over * DeviceWeight
        BY <1>1, <1>2, <3>3, <4>1 DEF TypeOK
      <4> QED BY <4>1, <4>2 DEF over
    <3> QED BY <3>1, <3>2, <3>3 DEF PricedOK
  <2>5. GapsOK'
    BY <1>2, <2>1 DEF SoloOK, GapsOK, GapsKept, Ordered, Visible, AllOf
  <2> QED BY <2>2, <2>3, <2>4, <2>5 DEF SoloOK
<1> QED BY <1>3, <1>4, <1>5, <1>6, <1>7, <1>8 DEF IInv

LEMMA LoadStep ==
    ASSUME IInv, NEW c \in Consumers, Load(c)
    PROVE  IInv'
<1>1. TypeOK /\ EntriesOK
  BY DEF IInv
<1>2. /\ UNCHANGED <<row, log, lock, event, points, staged, newLog, now, work, made,
                     changes, overlapped>>
      /\ pc[c] = "loading" /\ pc' = [pc EXCEPT ![c] = "scoring"]
      /\ \/ view' = [view EXCEPT ![c] = Visible(c)]
         \/ view[c] # NoRow /\ view' = view
  BY DEF Load, database, counters
<1>3. /\ Visible(c) \in Rows /\ Visible(c) # NoRow
      /\ Visible(c).updated <= now
      /\ Visible(c).score <= PointsOf(AllOf(c))
      /\ ~overlapped => Covers(Visible(c), AllOf(c))
  BY VisibleOK, NoRowAssumption
<1>4. /\ view' \in [Consumers -> Rows \cup {NoRow}]
      /\ view'[c] # NoRow
      /\ view'[c] = Visible(c) \/ view'[c] = view[c]
      /\ \A d \in Consumers \ {c} : view'[d] = view[d]
  BY <1>1, <1>2, <1>3 DEF TypeOK
<1>5. pc' \in [Consumers -> {"idle", "loading", "scoring", "open"}]
  BY <1>1, <1>2 DEF TypeOK
<1>6. TypeOK'
  BY <1>1, <1>2, <1>4, <1>5 DEF TypeOK
<1>7. EntriesOK'
  BY <1>1, <1>2 DEF EntriesOK, AllOf
<1>8. SessionsOK'
  BY <1>1, <1>2, <1>4 DEF IInv, SessionsOK, TypeOK
<1>9. ClockOK'
  BY <1>1, <1>2, <1>3, <1>4 DEF IInv, ClockOK, TypeOK
<1>10. \A d \in Consumers : AllOf(d)' = AllOf(d) /\ Visible(d)' = Visible(d)
  BY <1>2 DEF AllOf, Visible
<1>11. ExplainedOK'
  BY <1>2, <1>3, <1>4, <1>10 DEF IInv, ExplainedOK
<1>12. ASSUME ~overlapped' PROVE SoloOK'
  <2>1. SoloOK /\ ~overlapped
    BY <1>2, <1>12 DEF IInv
  <2>2. AloneOK'
    <3>1. \A d, b \in Consumers : d # b => pc'[d] = "idle" \/ pc'[b] = "idle"
      BY <1>1, <1>2, <2>1 DEF SoloOK, AloneOK, TypeOK
    <3>2. \A d \in Consumers :
             view'[d] # NoRow => /\ view'[d].score = Visible(d).score
                                 /\ view'[d].lastAbuse = Visible(d).lastAbuse
      BY <1>2, <1>4, <2>1 DEF SoloOK, AloneOK
    <3> QED BY <1>10, <3>1, <3>2 DEF AloneOK
  <2>3. CoveredOK'
    <3>1. \A d \in Consumers : view'[d] # NoRow => Covers(view'[d], AllOf(d))
      BY <1>2, <1>3, <1>4, <2>1 DEF SoloOK, CoveredOK
    <3> QED BY <1>2, <1>10, <2>1, <3>1 DEF SoloOK, CoveredOK
  <2>4. PricedOK'
    <3>1. \A d \in Consumers : \A l : LastDevices(d, l)' = LastDevices(d, l)
      BY <1>2 DEF LastDevices
    <3>2. PricedOnce(log)' /\ \A d \in Consumers : PricedOnce(AllOf(d))'
      BY <1>2, <2>1 DEF SoloOK, PricedOK, PricedOnce, DeviceEntriesOf, AllOf
    <3>3. \A d \in Consumers :
             pc'[d] \in {"loading", "scoring"} => pc[d] \in {"loading", "scoring"}
      BY <1>1, <1>2 DEF TypeOK
    <3> QED BY <1>2, <2>1, <3>1, <3>2, <3>3 DEF SoloOK, PricedOK
  <2>5. GapsOK'
    BY <1>2, <1>10, <2>1 DEF SoloOK, GapsOK, GapsKept, Ordered
  <2> QED BY <2>2, <2>3, <2>4, <2>5 DEF SoloOK
<1> QED BY <1>6, <1>7, <1>8, <1>9, <1>11, <1>12 DEF IInv

LEMMA TickStep ==
    ASSUME IInv, Tick
    PROVE  IInv'
<1>1. /\ UNCHANGED <<row, log, lock, pc, event, points, view, staged, newLog, work, made,
                     changes, overlapped>>
      /\ now < MaxTime /\ now' = now + 1
  BY DEF Tick, database, session
<1>2. TypeOK /\ TypeOK'
  <2>1. TypeOK
    BY DEF IInv
  <2>2. now' \in Times
    BY <1>1, <2>1, ScoringAssumption DEF TypeOK, Times
  <2> QED BY <1>1, <2>1, <2>2 DEF TypeOK
<1>3. EntriesOK'
  BY <1>1 DEF IInv, EntriesOK, AllOf
<1>4. SessionsOK'
  BY <1>1 DEF IInv, SessionsOK
<1>5. ClockOK'
  <2>1. \A t \in Int : t <= now => t <= now'
    BY <1>1, <1>2, ScoringAssumption DEF TypeOK, Times
  <2>2. /\ row.updated \in Int
        /\ \A d \in Consumers : /\ view[d] # NoRow => view[d].updated \in Int
                                /\ staged[d] # NoRow => staged[d].updated \in Int
                                /\ event[d].at \in Int
    BY <1>2, ScoringAssumption DEF TypeOK, Rows, Events, Times
  <2> QED BY <1>1, <2>1, <2>2 DEF IInv, ClockOK
<1>6. ExplainedOK'
  BY <1>1 DEF IInv, ExplainedOK, AllOf
<1>7. ASSUME ~overlapped' PROVE SoloOK'
  <2>1. SoloOK
    BY <1>1, <1>7 DEF IInv
  <2>2. AloneOK'
    BY <1>1, <2>1 DEF SoloOK, AloneOK, Visible
  <2>3. CoveredOK'
    BY <1>1, <2>1 DEF SoloOK, CoveredOK, Covers, AllOf
  <2>4. PricedOK'
    BY <1>1, <2>1 DEF SoloOK, PricedOK, PricedOnce, DeviceEntriesOf, AllOf, LastDevices
  <2>5. GapsOK'
    BY <1>1, <2>1 DEF SoloOK, GapsOK, GapsKept, Ordered, Visible, AllOf
  <2> QED BY <2>2, <2>3, <2>4, <2>5 DEF SoloOK
<1> QED BY <1>2, <1>3, <1>4, <1>5, <1>6, <1>7 DEF IInv

LEMMA StatusChangeStep ==
    ASSUME IInv, StatusChange
    PROVE  IInv'
<1>1. PICK asked \in Times :
      /\ UNCHANGED <<log, lock, pc, event, points, view, staged, newLog, now, work, made>>
      /\ changes < MaxChanges /\ changes' = changes + 1
      /\ lock = NoSession
      /\ asked <= now
      /\ row' = [row EXCEPT !.updated = asked]
      /\ overlapped' = (overlapped \/ asked < row.updated)
  BY DEF StatusChange, session
<1>2. TypeOK /\ EntriesOK
  BY DEF IInv
<1>3. /\ row' \in Rows
      /\ row'.score = row.score /\ row'.lastAbuse = row.lastAbuse /\ row'.updated = asked
      /\ asked \in Int /\ asked <= now /\ row.updated \in Int
  BY <1>1, <1>2, ScoringAssumption DEF IInv, ClockOK, TypeOK, Rows, Times
<1>4. TypeOK'
  <2>1. changes' \in 0..MaxChanges
    BY <1>1, <1>2, ScoringAssumption DEF TypeOK
  <2>2. overlapped' \in BOOLEAN
    BY <1>1, Zenon
  <2> QED BY <1>1, <1>2, <1>3, <2>1, <2>2 DEF TypeOK
<1>5. \A d \in Consumers : /\ staged[d] = NoRow /\ newLog[d] = {}
                           /\ Visible(d) = row /\ Visible(d)' = row'
                           /\ AllOf(d) = log /\ AllOf(d)' = log
  BY <1>1, ScoringAssumption DEF IInv, SessionsOK, Visible, AllOf
<1>6. EntriesOK'
  BY <1>1, <1>2 DEF EntriesOK, AllOf
<1>7. SessionsOK'
  BY <1>1 DEF IInv, SessionsOK
<1>8. ClockOK'
  BY <1>1, <1>3 DEF IInv, ClockOK
<1>9. ExplainedOK'
  BY <1>1, <1>3 DEF IInv, ExplainedOK, AllOf
<1>10. ASSUME ~overlapped' PROVE SoloOK'
  <2>1. SoloOK /\ ~(asked < row.updated)
    BY <1>1, <1>10, Zenon DEF IInv
  <2>6. row.updated <= asked
    BY <1>3, <2>1
  <2>2. AloneOK'
    BY <1>1, <1>3, <1>5, <2>1 DEF SoloOK, AloneOK
  <2>3. CoveredOK'
    <3>1. /\ \A e \in log : e.at <= row.updated
          /\ DecayedPointsOf(log, row.updated) <= row.score
      BY <2>1 DEF SoloOK, CoveredOK, Covers
    <3>2. log \in SUBSET Entries /\ IsFiniteSet(log)
      BY <1>2 DEF TypeOK, EntriesOK
    <3>3. DecayedPointsOf(log, asked) <= DecayedPointsOf(log, row.updated)
      BY <1>3, <2>6, <3>2, DecayedLater
    <3>4. DecayedPointsOf(log, asked) \in Nat /\ DecayedPointsOf(log, row.updated) \in Nat
      BY <1>3, <3>2, DecayedType
    <3>5. row.score \in Nat
      BY <1>2 DEF TypeOK, Rows
    <3>6. \A e \in log : e.at <= asked
      BY <1>3, <2>6, <3>1, <3>2, ScoringAssumption DEF Entries, Times
    <3>7. Covers(row', log)
      BY <1>3, <3>1, <3>3, <3>4, <3>5, <3>6 DEF Covers
    <3>8. \A d \in Consumers : view[d] # NoRow => Covers(view[d], log)
      BY <1>5, <2>1 DEF SoloOK, CoveredOK
    <3> QED BY <1>1, <1>5, <3>7, <3>8 DEF CoveredOK
  <2>4. PricedOK'
    BY <1>1, <2>1 DEF SoloOK, PricedOK, PricedOnce, DeviceEntriesOf, AllOf, LastDevices
  <2>5. GapsOK'
    <3>1. GapsKept(row', log)
      BY <1>3, <2>1 DEF SoloOK, GapsOK, GapsKept
    <3> QED BY <1>1, <1>5, <3>1 DEF GapsOK
  <2> QED BY <2>2, <2>3, <2>4, <2>5 DEF SoloOK
<1> QED BY <1>4, <1>6, <1>7, <1>8, <1>9, <1>10 DEF IInv

\* The end of a batch: the session forgets everything and gives the lock back.
LEMMA CloseFacts ==
    ASSUME TypeOK, NEW c \in Consumers, Close(c)
    PROVE  /\ pc' = [pc EXCEPT ![c] = "idle"]
           /\ view'[c] = NoRow /\ staged'[c] = NoRow /\ newLog'[c] = {}
           /\ \A d \in Consumers \ {c} : /\ view'[d] = view[d] /\ staged'[d] = staged[d]
                                         /\ newLog'[d] = newLog[d]
                                         /\ event'[d] = event[d] /\ points'[d] = points[d]
                                         /\ lock = d => lock' = d
           /\ lock' = IF lock = c THEN NoSession ELSE lock
           /\ UNCHANGED <<now, work, made, changes, overlapped>>
           /\ lock' \in Consumers \cup {NoSession}
           /\ pc' \in [Consumers -> {"idle", "loading", "scoring", "open"}]
           /\ event' \in [Consumers -> Events]
           /\ points' \in [Consumers -> Nat]
           /\ view' \in [Consumers -> Rows \cup {NoRow}]
           /\ staged' \in [Consumers -> Rows \cup {NoRow}]
           /\ newLog' \in [Consumers -> SUBSET Entries]
<1>1. event' = [event EXCEPT ![c] = NoEvent] /\ points' = [points EXCEPT ![c] = 0]
  BY DEF Close, EndEvent
<1>2. event' \in [Consumers -> Events] /\ points' \in [Consumers -> Nat]
  BY <1>1, NoEventIsEvent DEF TypeOK
<1>3. /\ view' = [view EXCEPT ![c] = NoRow]
      /\ staged' = [staged EXCEPT ![c] = NoRow]
      /\ newLog' = [newLog EXCEPT ![c] = {}]
      /\ pc' = [pc EXCEPT ![c] = "idle"]
      /\ lock' = IF lock = c THEN NoSession ELSE lock
      /\ UNCHANGED <<now, work, made, changes, overlapped>>
  BY DEF Close, counters
<1>4. /\ view' \in [Consumers -> Rows \cup {NoRow}]
      /\ staged' \in [Consumers -> Rows \cup {NoRow}]
      /\ newLog' \in [Consumers -> SUBSET Entries]
      /\ pc' \in [Consumers -> {"idle", "loading", "scoring", "open"}]
      /\ lock' \in Consumers \cup {NoSession}
  BY <1>3 DEF TypeOK
<1> QED BY <1>1, <1>2, <1>3, <1>4 DEF TypeOK

LEMMA RollBackStep ==
    ASSUME IInv, NEW c \in Consumers, RollBack(c)
    PROVE  IInv'
<1>1. TypeOK /\ EntriesOK
  BY DEF IInv
<1>2. Close(c) /\ UNCHANGED <<row, log>>
  BY DEF RollBack, database
<1>3. TypeOK'
  BY <1>1, <1>2, CloseFacts DEF TypeOK
<1>4. /\ AllOf(c)' = log /\ Visible(c)' = row
      /\ \A d \in Consumers \ {c} : AllOf(d)' = AllOf(d) /\ Visible(d)' = Visible(d)
  BY <1>1, <1>2, CloseFacts DEF AllOf, Visible
<1>5. EntriesOK'
  <2>1. IsFiniteSet({})
    BY FS_EmptySet
  <2>2. log \subseteq AllOf(c)
    BY DEF AllOf
  <2>3. \A d \in Consumers : AllOf(d)' = AllOf(d) \/ AllOf(d)' = log
    BY <1>4
  <2>4. \A d \in Consumers : newLog'[d] = newLog[d] \/ newLog'[d] = {}
    BY <1>1, <1>2, CloseFacts
  <2>5. made' = made
    BY <1>1, <1>2, CloseFacts
  <2>6. \A d \in Consumers : IsFiniteSet(newLog'[d])
    BY <1>1, <2>1, <2>4 DEF EntriesOK
  <2>7. \A d \in Consumers : /\ \A e \in AllOf(d)' : e.id <= made
                             /\ \A e, f \in AllOf(d)' : e.id = f.id => e = f
    BY <1>1, <2>2, <2>3 DEF EntriesOK
  <2> QED BY <1>1, <1>2, <2>5, <2>6, <2>7 DEF EntriesOK
<1>6. SessionsOK'
  BY <1>1, <1>2, CloseFacts DEF IInv, SessionsOK, TypeOK
<1>7. ClockOK'
  BY <1>1, <1>2, CloseFacts DEF IInv, ClockOK, TypeOK
<1>8. ExplainedOK'
  BY <1>1, <1>2, <1>4, CloseFacts DEF IInv, ExplainedOK
<1>9. ASSUME ~overlapped' PROVE SoloOK'
  <2>1. SoloOK
    BY <1>1, <1>2, <1>9, CloseFacts DEF IInv
  <2>2. AloneOK'
    BY <1>1, <1>2, <1>4, <2>1, CloseFacts DEF SoloOK, AloneOK, TypeOK
  <2>3. CoveredOK'
    BY <1>1, <1>2, <1>4, <2>1, CloseFacts DEF SoloOK, CoveredOK
  <2>4. PricedOK'
    <3>1. PricedOnce(log)' /\ \A d \in Consumers : PricedOnce(AllOf(d)')
      BY <1>2, <1>4, <2>1 DEF SoloOK, PricedOK, PricedOnce, DeviceEntriesOf
    <3>2. \A d \in Consumers : PricedOnce(AllOf(d))'
      BY <3>1 DEF PricedOnce, DeviceEntriesOf
    <3>3. \A d \in Consumers : pc'[d] = "idle"
      <4>1. pc[c] # "idle"
        BY DEF RollBack
      <4>2. \A d \in Consumers \ {c} : pc[d] = "idle"
        BY <2>1, <4>1 DEF SoloOK, AloneOK
      <4> QED BY <1>1, <1>2, <4>2, CloseFacts DEF TypeOK
    <3>4. \A d \in Consumers : ~(pc'[d] \in {"loading", "scoring"})
      BY <3>3
    <3> QED BY <3>1, <3>2, <3>4 DEF PricedOK
  <2>5. GapsOK'
    BY <1>2, <1>4, <2>1 DEF SoloOK, GapsOK, GapsKept, Ordered
  <2> QED BY <2>2, <2>3, <2>4, <2>5 DEF SoloOK
<1> QED BY <1>3, <1>5, <1>6, <1>7, <1>8, <1>9 DEF IInv

LEMMA CommitStep ==
    ASSUME IInv, NEW c \in Consumers, Commit(c)
    PROVE  IInv'
<1>1. TypeOK /\ EntriesOK
  BY DEF IInv
<1>2. Close(c) /\ row' = Visible(c) /\ log' = AllOf(c) /\ pc[c] = "open"
  BY DEF Commit, AllOf
<1>3. /\ Visible(c) \in Rows
      /\ Visible(c).updated <= now
      /\ Visible(c).score <= PointsOf(AllOf(c))
      /\ ~overlapped => Covers(Visible(c), AllOf(c))
  BY VisibleOK
<1>4. AllOf(c) \in SUBSET Entries /\ IsFiniteSet(AllOf(c))
  BY <1>1, AllOfType
<1>5. TypeOK'
  BY <1>1, <1>2, <1>3, <1>4, CloseFacts DEF TypeOK
<1>6. AllOf(c)' = AllOf(c)
  BY <1>1, <1>2, CloseFacts DEF AllOf
<1>7. \A d \in Consumers \ {c} : AllOf(d)' = AllOf(c) \/ AllOf(d)' = AllOf(d)
  <2>1. TAKE d \in Consumers \ {c}
  <2>2. AllOf(d)' = AllOf(c) \cup newLog[d]
    BY <1>1, <1>2, CloseFacts DEF AllOf
  <2>3. CASE newLog[d] = {}
    BY <2>2, <2>3
  <2>4. CASE newLog[d] # {}
    <3>1. newLog[c] = {}
      BY <2>4 DEF IInv, SessionsOK
    <3> QED BY <2>2, <3>1 DEF AllOf
  <2> QED BY <2>3, <2>4
<1>8. \A d \in Consumers \ {c} : AllOf(d) \subseteq AllOf(d)'
  BY <1>1, <1>2, CloseFacts DEF AllOf
<1>9. EntriesOK'
  <2>1. IsFiniteSet({})
    BY FS_EmptySet
  <2>2. \A d \in Consumers : newLog'[d] = newLog[d] \/ newLog'[d] = {}
    BY <1>1, <1>2, CloseFacts
  <2>3. \A d \in Consumers : IsFiniteSet(newLog'[d])
    BY <1>1, <2>1, <2>2 DEF EntriesOK
  <2>4. \A d \in Consumers : AllOf(d)' = AllOf(c) \/ AllOf(d)' = AllOf(d)
    BY <1>6, <1>7
  <2>5. \A d \in Consumers : /\ \A e \in AllOf(d)' : e.id <= made
                             /\ \A e, f \in AllOf(d)' : e.id = f.id => e = f
    BY <1>1, <2>4 DEF EntriesOK
  <2>6. made' = made
    BY <1>1, <1>2, CloseFacts
  <2> QED BY <1>2, <1>4, <2>3, <2>5, <2>6 DEF EntriesOK
<1>10. SessionsOK'
  BY <1>1, <1>2, CloseFacts DEF IInv, SessionsOK, TypeOK
<1>11. ClockOK'
  BY <1>1, <1>2, <1>3, CloseFacts DEF IInv, ClockOK, TypeOK
<1>12. ExplainedOK'
  <2>1. row'.score <= PointsOf(log')
    BY <1>2, <1>3
  <2>2. ASSUME NEW d \in Consumers \ {c}
        PROVE  PointsOf(AllOf(d)) <= PointsOf(AllOf(d)')
               /\ PointsOf(AllOf(d)) \in Nat /\ PointsOf(AllOf(d)') \in Nat
    <3>1. AllOf(d) \in SUBSET Entries /\ IsFiniteSet(AllOf(d))
      BY <1>1, AllOfType
    <3>2. PICK E : E = AllOf(d)'
      OBVIOUS
    <3>3. E \in SUBSET Entries /\ IsFiniteSet(E) /\ AllOf(d) \in SUBSET E
      BY <1>4, <1>7, <1>8, <3>1, <3>2
    <3> QED BY <3>1, <3>2, <3>3, PointsMonotone, PointsType
  <2>3. \A r \in Rows : r.score \in Nat
    BY DEF Rows
  <2>4. \A d \in Consumers \ {c} :
           /\ view'[d] # NoRow => view'[d].score <= PointsOf(AllOf(d)')
           /\ staged'[d] # NoRow => staged'[d].score <= PointsOf(AllOf(d)')
    <3>1. TAKE d \in Consumers \ {c}
    <3>2. view'[d] = view[d] /\ staged'[d] = staged[d]
      BY <1>1, <1>2, CloseFacts
    <3>3. view[d] \in Rows \cup {NoRow} /\ staged[d] \in Rows \cup {NoRow}
      BY <1>1 DEF TypeOK
    <3>4. /\ view[d] # NoRow => view[d].score <= PointsOf(AllOf(d))
          /\ staged[d] # NoRow => staged[d].score <= PointsOf(AllOf(d))
      BY DEF IInv, ExplainedOK
    <3> QED BY <2>2, <2>3, <3>2, <3>3, <3>4
  <2>5. view'[c] = NoRow /\ staged'[c] = NoRow
    BY <1>1, <1>2, CloseFacts
  <2> QED BY <2>1, <2>4, <2>5 DEF ExplainedOK
<1>13. ASSUME ~overlapped' PROVE SoloOK'
  <2>1. SoloOK /\ ~overlapped
    BY <1>1, <1>2, <1>13, CloseFacts DEF IInv
  <2>2. \A d \in Consumers : /\ pc'[d] = "idle" /\ view'[d] = NoRow
                             /\ staged'[d] = NoRow /\ newLog'[d] = {}
    <3>1. TAKE d \in Consumers
    <3>2. CASE d = c
      BY <1>1, <1>2, <3>2, CloseFacts DEF TypeOK
    <3>3. CASE d # c
      <4>1. pc[d] = "idle"
        BY <1>2, <2>1, <3>3 DEF SoloOK, AloneOK
      <4>2. view[d] = NoRow /\ staged[d] = NoRow /\ newLog[d] = {}
        BY <4>1 DEF IInv, SessionsOK
      <4> QED BY <1>1, <1>2, <3>3, <4>1, <4>2, CloseFacts DEF TypeOK
    <3> QED BY <3>2, <3>3
  <2>3. \A d \in Consumers : AllOf(d)' = AllOf(c) /\ Visible(d)' = Visible(c)
    BY <1>2, <2>2 DEF AllOf, Visible
  <2>4. AloneOK'
    BY <2>2 DEF AloneOK
  <2>5. CoveredOK'
    BY <1>2, <1>3, <2>1, <2>2 DEF CoveredOK
  <2>6. PricedOK'
    <3>1. PricedOnce(AllOf(c))
      BY <2>1 DEF SoloOK, PricedOK
    <3>2. PricedOnce(log)' /\ \A d \in Consumers : PricedOnce(AllOf(d))'
      BY <1>2, <2>3, <3>1 DEF PricedOnce, DeviceEntriesOf
    <3> QED BY <2>2, <3>2 DEF PricedOK
  <2>7. GapsOK'
    <3>1. GapsKept(Visible(c), AllOf(c))
      BY <2>1 DEF SoloOK, GapsOK
    <3> QED BY <1>2, <2>3, <3>1 DEF GapsOK, GapsKept, Ordered
  <2> QED BY <2>4, <2>5, <2>6, <2>7 DEF SoloOK
<1> QED BY <1>5, <1>9, <1>10, <1>11, <1>12, <1>13 DEF IInv

\* The entries of one scored event.
LEMMA NewEntriesFacts ==
    ASSUME TypeOK, NEW c \in Consumers
    PROVE  /\ NewEntries(c) \in SUBSET Entries /\ IsFiniteSet(NewEntries(c))
           /\ \A e \in NewEntries(c) : /\ made < e.id /\ e.id <= made + 3
                                       /\ e.at = event[c].at
           /\ \A e, f \in NewEntries(c) : e.id = f.id => e = f
           /\ \A e \in NewEntries(c) :
                 e.detector = "device_limit" =>
                    points[c] # 0 /\ e = Entry(c, 1, "device_limit", points[c])
           /\ points[c] # 0 => Entry(c, 1, "device_limit", points[c]) \in NewEntries(c)
           /\ \A e \in NewEntries(c) :
                 e.detector = "repeat" => Repeated(c) /\ e.id = made + 3
           /\ PointsOf(NewEntries(c)) = points[c] + OtherPoints(c) + Bonus(c)
           /\ OtherPoints(c) \in Nat /\ Bonus(c) \in Nat
<1> DEFINE a == Entry(c, 1, "device_limit", points[c])
           b == Entry(c, 2, "other", OtherWeight)
           r == Entry(c, 3, "repeat", RepeatWeight)
           A == IF points[c] # 0 THEN {a} ELSE {}
           B == IF event[c].other THEN {b} ELSE {}
           R == IF Repeated(c) THEN {r} ELSE {}
<1>1. /\ event[c] \in Events /\ points[c] \in Nat /\ made \in Nat
      /\ OtherWeight \in Nat /\ RepeatWeight \in Nat /\ 0 \in 0..MaxDevices
  BY ScoringAssumption DEF TypeOK
<1>2. event[c].devices \in 0..MaxDevices /\ event[c].at \in Times /\ event[c].other \in BOOLEAN
  BY <1>1 DEF Events
<1>3. /\ a.id = made + 1 /\ a.detector = "device_limit" /\ a.points = points[c]
      /\ b.id = made + 2 /\ b.detector = "other" /\ b.points = OtherWeight
      /\ r.id = made + 3 /\ r.detector = "repeat" /\ r.points = RepeatWeight
      /\ a.at = event[c].at /\ b.at = event[c].at /\ r.at = event[c].at
  BY DEF Entry
<1>4. a \in Entries /\ b \in Entries /\ r \in Entries
  BY <1>1, <1>2 DEF Entry, Entries
<1>5. NewEntries(c) = (A \cup B) \cup R
  BY DEF NewEntries
<1> HIDE DEF a, b, r
<1>6. A \in SUBSET Entries /\ B \in SUBSET Entries /\ R \in SUBSET Entries
  BY <1>4
<1>7. IsFiniteSet(A) /\ IsFiniteSet(B) /\ IsFiniteSet(R)
  <2>1. IsFiniteSet({a}) /\ IsFiniteSet({b}) /\ IsFiniteSet({r}) /\ IsFiniteSet({})
    BY FS_Singleton, FS_EmptySet
  <2> QED BY <2>1
<1>8. A \cap B = {} /\ (A \cup B) \cap R = {}
  BY <1>1, <1>3
<1>9. PointsOf(A) = points[c] /\ PointsOf(B) = OtherPoints(c) /\ PointsOf(R) = Bonus(c)
  <2>1. PointsOf({a}) = points[c] /\ PointsOf({b}) = OtherWeight /\ PointsOf({r}) = RepeatWeight
    BY <1>3, <1>4, PointsOfFew
  <2>2. PointsOf({}) = 0
    BY PointsOfFew
  <2> QED BY <2>1, <2>2 DEF OtherPoints, Bonus
<1>10. OtherPoints(c) \in Nat /\ Bonus(c) \in Nat
  BY <1>1 DEF OtherPoints, Bonus
<1>11. \A e \in NewEntries(c) : e = a \/ e = b \/ e = r
  BY <1>5
<1>12. /\ \A e \in NewEntries(c) : e.detector = "device_limit" => points[c] # 0 /\ e = a
       /\ points[c] # 0 => a \in NewEntries(c)
       /\ \A e \in NewEntries(c) : e.detector = "repeat" => Repeated(c) /\ e.id = made + 3
  BY <1>3, <1>5
<1> HIDE DEF A, B, R
<1>13. PointsOf(NewEntries(c)) = points[c] + OtherPoints(c) + Bonus(c)
  <2>1. A \cup B \in SUBSET Entries /\ IsFiniteSet(A \cup B)
    BY <1>6, <1>7, FS_Union
  <2>2. PointsOf(A \cup B) = PointsOf(A) + PointsOf(B)
    BY <1>6, <1>7, <1>8, PointsUnion
  <2>3. PointsOf((A \cup B) \cup R) = PointsOf(A \cup B) + PointsOf(R)
    BY <1>6, <1>7, <1>8, <2>1, PointsUnion
  <2> QED BY <1>5, <1>9, <2>2, <2>3
<1>14. NewEntries(c) \in SUBSET Entries /\ IsFiniteSet(NewEntries(c))
  BY <1>5, <1>6, <1>7, FS_Union
<1>15. /\ \A e \in NewEntries(c) : made < e.id /\ e.id <= made + 3 /\ e.at = event[c].at
       /\ \A e, f \in NewEntries(c) : e.id = f.id => e = f
  BY <1>1, <1>3, <1>11
<1> QED BY <1>10, <1>12, <1>13, <1>14, <1>15 DEF a

\* Entries that are all newer than the others are not among them.
LEMMA NewerEntries ==
    ASSUME TypeOK, EntriesOK, NEW c \in Consumers
    PROVE  /\ AllOf(c) \cap NewEntries(c) = {}
           /\ \A e \in AllOf(c) : \A f \in NewEntries(c) : e.id < f.id
<1>1. made \in Nat /\ \A e \in Entries : e.id \in Nat
  BY DEF TypeOK, Entries
<1>2. AllOf(c) \in SUBSET Entries /\ NewEntries(c) \in SUBSET Entries
  BY AllOfType, NewEntriesFacts
<1>3. \A e \in AllOf(c) : e.id <= made
  BY DEF EntriesOK
<1>4. \A f \in NewEntries(c) : made < f.id
  BY NewEntriesFacts
<1>5. \A e \in AllOf(c) : \A f \in NewEntries(c) : e.id < f.id
  BY <1>1, <1>2, <1>3, <1>4
<1>6. \A e \in AllOf(c) : ~(e.id < e.id)
  BY <1>1, <1>2
<1> QED BY <1>5, <1>6

\* Devices that are newly over the limit are more devices than before, and
\* each is paid for once.
LEMMA PriceOfNewDevices ==
    ASSUME TypeOK, EntriesOK, NEW c \in Consumers, PricedOnce(AllOf(c)),
           points[c] = NewlyOver(event[c].devices, event[c].limit,
                                 LastDevices(c, event[c].limit)) * DeviceWeight
    PROVE  PricedOnce(AllOf(c) \cup NewEntries(c))
<1> DEFINE new == Entry(c, 1, "device_limit", points[c])
           D == DeviceEntriesOf(AllOf(c))
<1>1. PICK d, l, w, m \in Nat :
         /\ d = event[c].devices /\ l = event[c].limit /\ w = DeviceWeight
         /\ m = Min(Limits) /\ m <= l /\ l \in Limits
  <2>1. event[c] \in Events
    BY DEF TypeOK
  <2>2. Min(Limits) \in Limits /\ \A k \in Limits : Min(Limits) <= k
    BY ScoringAssumption, MinOfNumbers
  <2> QED BY <2>1, <2>2, EventTypes, ScoringAssumption
<1>2. D \in SUBSET Entries /\ IsFiniteSet(D) /\ D \subseteq AllOf(c)
  <2>1. D \in SUBSET AllOf(c)
    BY DEF DeviceEntriesOf
  <2> HIDE DEF D
  <2> QED BY <2>1, AllOfType, FS_Subset
<1>3. CASE points[c] = 0
  <2>1. DeviceEntriesOf(AllOf(c) \cup NewEntries(c)) = D
    BY <1>3, NewEntriesFacts DEF DeviceEntriesOf
  <2> QED BY <2>1 DEF PricedOnce
<1>4. CASE points[c] # 0
  <2>1. /\ new \in NewEntries(c) /\ new \in Entries
        /\ new.detector = "device_limit" /\ new.points = points[c] /\ new.devices = d
    BY <1>1, <1>4, NewEntriesFacts DEF Entry
  <2>2. DeviceEntriesOf(AllOf(c) \cup NewEntries(c)) = D \cup {new}
    BY <1>4, <2>1, NewEntriesFacts DEF DeviceEntriesOf
  <2>3. D \cap {new} = {} /\ \A e \in D : e.id < new.id
    BY <1>2, <2>1, NewerEntries
  <2>4. PICK last : last \in Nat /\ last = LastDevices(c, l)
    BY <1>1, LatestScored
  <2>5. PICK o \in Nat : o = NewlyOver(d, l, last)
    BY <1>1, <2>4, OverType
  <2>6. points[c] = o * w /\ o # 0
    BY <1>1, <1>4, <2>4, <2>5
  <2>7. l < d /\ last < d /\ o <= d - last /\ o <= d - l
    BY <1>1, <2>4, <2>5, <2>6 DEF NewlyOver, Positive
  <2>8. PointsOf(D \cup {new}) = PointsOf(D) + o * w
    <3>1. IsFiniteSet({new}) /\ {new} \in SUBSET Entries
      BY <2>1, FS_Singleton
    <3>2. PointsOf({new}) = o * w
      BY <2>1, <2>6, PointsOfFew
    <3> QED BY <1>2, <2>3, <3>1, <3>2, PointsUnion
  <2>9. PointsOf(D) + o * w <= w * (d - m) /\ \A e \in D : e.devices <= d
    <3>1. CASE D = {}
      <4>1. PointsOf(D) = 0
        BY <3>1, PointsOfFew
      <4>2. PICK x \in Nat : d - m = o + x
        <5>1. (d - m) - o \in Nat
          BY <1>1, <2>7
        <5>2. d - m = o + ((d - m) - o)
          BY <1>1
        <5> QED BY <5>1, <5>2
      <4>3. w * (o + x) = o * w + w * x /\ w * x \in Nat /\ o * w \in Nat
        OBVIOUS
      <4> QED BY <3>1, <4>1, <4>2, <4>3
    <3>2. CASE D # {}
      <4>1. PICK p \in D : /\ \A e \in D : e.id <= p.id /\ e.devices <= p.devices
                           /\ PointsOf(D) <= w * (p.devices - m)
        BY <1>1, <3>2 DEF PricedOnce
      <4>2. last = p.devices
        BY <1>1, <2>4, <4>1, LatestScored
      <4>3. PICK s \in Nat : s = PointsOf(D)
        BY <1>2, PointsType
      <4>4. PICK x \in Nat : d - m = (last - m) + o + x
        <5>1. (d - m) - ((last - m) + o) \in Nat
          BY <1>1, <2>4, <2>7
        <5>2. d - m = (last - m) + o + ((d - m) - ((last - m) + o))
          BY <1>1, <2>4
        <5> QED BY <5>1, <5>2
      <4>5. PICK y \in Int : y = last - m
        BY <1>1, <2>4
      <4>6. w * (y + o + x) = w * y + o * w + w * x /\ w * x \in Nat /\ w * y \in Int
            /\ o * w \in Nat
        BY <4>5
      <4>7. s <= w * y
        BY <4>1, <4>2, <4>3, <4>5
      <4>8. s + o * w <= w * (d - m)
        BY <4>4, <4>5, <4>6, <4>7
      <4>9. \A e \in D : e.devices \in Nat
        BY <1>2, ScoringAssumption DEF Entries
      <4>10. \A e \in D : e.devices <= d
        BY <2>4, <2>7, <4>1, <4>2, <4>9
      <4> QED BY <4>3, <4>8, <4>10
    <3> QED BY <3>1, <3>2
  <2>10. \A e \in D \cup {new} : e.id <= new.id /\ e.devices <= new.devices
    <3>1. \A e \in Entries : e.id \in Nat
      BY DEF Entries
    <3> QED BY <1>2, <2>1, <2>3, <2>9, <3>1
  <2> HIDE DEF new, D
  <2>11. PointsOf(D \cup {new}) <= DeviceWeight * (new.devices - Min(Limits))
    BY <1>1, <2>1, <2>8, <2>9
  <2> QED BY <2>2, <2>10, <2>11 DEF PricedOnce
<1> QED BY <1>3, <1>4

\* In order, the new entries are the last, and a bonus among them is earned
\* by a gap.
LEMMA GapOfNewEntries ==
    ASSUME TypeOK, EntriesOK, NEW c \in Consumers, view[c] \in Rows,
           NEW r \in Rows, view[c].lastAbuse = r.lastAbuse, GapsKept(r, AllOf(c)),
           NEW s, s.lastAbuse = event[c].at, points[c] # 0 \/ event[c].other
    PROVE  GapsKept(s, AllOf(c) \cup NewEntries(c))
<1> DEFINE E == AllOf(c)
           N == NewEntries(c)
<1>1. SUFFICES ASSUME Ordered(E \cup N)
               PROVE  /\ \A e \in E \cup N : e.at <= s.lastAbuse
                      /\ \A bonus, e \in E \cup N :
                            bonus.detector = "repeat" /\ e.id < bonus.id /\ e.at < bonus.at
                               => bonus.at - e.at >= MinGap
  BY DEF GapsKept
<1>2. E \in SUBSET Entries /\ N \in SUBSET Entries
  BY AllOfType, NewEntriesFacts
<1>3. \A e \in Entries : e.id \in Nat /\ e.at \in Nat
  BY ScoringAssumption DEF Entries, Times
<1>4. \A e \in N : e.at = event[c].at /\ (e.detector = "repeat" => Repeated(c))
  BY NewEntriesFacts
<1>5. \A e \in E : \A f \in N : e.id < f.id
  BY NewerEntries
<1>6. Ordered(E)
  BY <1>1 DEF Ordered
<1>7. /\ \A e \in E : e.at <= r.lastAbuse
      /\ \A bonus, e \in E :
            bonus.detector = "repeat" /\ e.id < bonus.id /\ e.at < bonus.at
               => bonus.at - e.at >= MinGap
  BY <1>6 DEF GapsKept
<1>8. event[c].at \in Nat
  <2>1. event[c] \in Events
    BY DEF TypeOK
  <2> QED BY <2>1, EventTypes
<1>9. PICK f \in N : TRUE
  BY <1>1 DEF NewEntries
<1>10. \A e \in E \cup N : e.at <= event[c].at
  <2>1. \A e \in E : e.at <= f.at
    BY <1>1, <1>5, <1>9 DEF Ordered
  <2> QED BY <1>4, <1>8, <1>9, <2>1
<1>11. ASSUME NEW bonus \in E \cup N, NEW e \in E \cup N,
              bonus.detector = "repeat", e.id < bonus.id, e.at < bonus.at
       PROVE  bonus.at - e.at >= MinGap
  <2>1. CASE bonus \in E
    <3>1. e \notin N
      BY <1>2, <1>3, <1>5, <1>11, <2>1
    <3> QED BY <1>7, <1>11, <2>1, <3>1
  <2>2. CASE bonus \in N
    <3>1. e \notin N
      BY <1>4, <1>8, <1>11, <2>2
    <3>2. e.at <= r.lastAbuse /\ bonus.at = event[c].at /\ Repeated(c)
      BY <1>4, <1>7, <1>11, <2>2, <3>1
    <3>3. event[c].at - r.lastAbuse >= MinGap
      BY <3>2 DEF Repeated
    <3>4. r.lastAbuse \in Int /\ e.at \in Int /\ MinGap \in Nat
      BY <1>2, <1>3, ScoringAssumption DEF Rows, Times, Never
    <3> QED BY <1>8, <3>2, <3>3, <3>4
  <2> QED BY <2>1, <2>2
<1> QED BY <1>10, <1>11

LEMMA ScoreStep ==
    ASSUME IInv, NEW c \in Consumers, Score(c)
    PROVE  IInv'
<1> DEFINE new == [score |-> Total(c), updated |-> now, lastAbuse |-> event[c].at]
           kept == [score     |-> IF new.score = view[c].score
                                  THEN Visible(c).score ELSE new.score,
                    updated   |-> now,
                    lastAbuse |-> IF new.lastAbuse = view[c].lastAbuse
                                  THEN Visible(c).lastAbuse ELSE new.lastAbuse]
           N == NewEntries(c)
<1>1. TypeOK /\ EntriesOK
  BY DEF IInv
<1>2. /\ UNCHANGED <<row, log, now, work, changes, overlapped>>
      /\ pc[c] = "scoring" /\ pc' = [pc EXCEPT ![c] = "open"]
      /\ lock \in {NoSession, c} /\ lock' = c
      /\ staged' = [staged EXCEPT ![c] = kept]
      /\ view' = [view EXCEPT ![c] = new]
      /\ newLog' = [newLog EXCEPT ![c] = @ \cup N]
      /\ made' = made + 3
      /\ event' = [event EXCEPT ![c] = NoEvent] /\ points' = [points EXCEPT ![c] = 0]
  BY DEF Score, EndEvent, database
<1>3. /\ view[c] \in Rows /\ view[c] # NoRow /\ view[c].updated <= now
      /\ event[c].at <= now /\ (points[c] # 0 \/ event[c].other)
  BY <1>1, <1>2 DEF IInv, SessionsOK, ClockOK, TypeOK
<1>4. /\ Visible(c) \in Rows
      /\ Visible(c).score <= PointsOf(AllOf(c))
  BY VisibleOK
<1>5. /\ event[c].at \in Times /\ event[c].at \in Int /\ now \in Int /\ now \in Times
      /\ points[c] \in Nat /\ made \in Nat /\ view[c].updated \in Int
  <2>1. event[c] \in Events
    BY <1>1 DEF TypeOK
  <2>2. event[c].at \in Times /\ view[c].updated \in Times
    BY <1>3, <2>1 DEF Events, Rows
  <2> QED BY <1>1, <2>2, ScoringAssumption DEF TypeOK, Times
<1>6. /\ N \in SUBSET Entries /\ IsFiniteSet(N)
      /\ \A e \in N : made < e.id /\ e.id <= made + 3 /\ e.at = event[c].at
      /\ \A e, f \in N : e.id = f.id => e = f
      /\ PointsOf(N) = points[c] + OtherPoints(c) + Bonus(c)
      /\ OtherPoints(c) \in Nat /\ Bonus(c) \in Nat
  BY <1>1, NewEntriesFacts
<1>7. AllOf(c) \in SUBSET Entries /\ IsFiniteSet(AllOf(c)) /\ AllOf(c) \cap N = {}
  BY <1>1, AllOfType, NewerEntries
<1>8. /\ Effective(view[c], event[c].at) \in Nat
      /\ Effective(view[c], event[c].at) <= view[c].score
  BY <1>3, <1>5, EffectiveType
<1>9. Total(c) \in Nat /\ Total(c) = Effective(view[c], event[c].at) + PointsOf(N)
  BY <1>5, <1>6, <1>8 DEF Total
<1>10. new \in Rows /\ kept \in Rows /\ new # NoRow /\ kept # NoRow
  <2>1. new \in Rows
    BY <1>5, <1>9 DEF Rows
  <2>2. Visible(c).score \in Nat /\ Visible(c).lastAbuse \in Times \cup {Never}
    BY <1>4 DEF Rows
  <2>3. kept \in Rows
    BY <1>5, <1>9, <2>2 DEF Rows
  <2> HIDE DEF new, kept
  <2> QED BY <2>1, <2>3, NoRowAssumption
<1>11. /\ new.score = Total(c) /\ new.updated = now /\ new.lastAbuse = event[c].at
       /\ kept.updated = now
       /\ kept.score = Total(c) \/ kept.score = Visible(c).score
       /\ (view[c].score = Visible(c).score /\ view[c].lastAbuse = Visible(c).lastAbuse)
             => kept.score = Total(c) /\ kept.lastAbuse = event[c].at
  OBVIOUS
<1> HIDE DEF new, kept, N
<1>12. /\ view'[c] = new /\ staged'[c] = kept /\ newLog'[c] = newLog[c] \cup N
       /\ pc'[c] = "open"
       /\ \A d \in Consumers \ {c} : /\ view'[d] = view[d] /\ staged'[d] = staged[d]
                                     /\ newLog'[d] = newLog[d] /\ pc'[d] = pc[d]
                                     /\ event'[d] = event[d] /\ points'[d] = points[d]
  BY <1>1, <1>2 DEF TypeOK
<1>13. \A d \in Consumers \ {c} : staged[d] = NoRow /\ newLog[d] = {}
  BY <1>2, ScoringAssumption DEF IInv, SessionsOK
<1>14. /\ AllOf(c)' = AllOf(c) \cup N /\ Visible(c)' = kept
       /\ \A d \in Consumers \ {c} : /\ AllOf(d)' = log /\ AllOf(d) = log
                                     /\ Visible(d)' = row
  BY <1>2, <1>10, <1>12, <1>13 DEF AllOf, Visible
<1>15. TypeOK'
  <2>1. /\ view' \in [Consumers -> Rows \cup {NoRow}]
        /\ staged' \in [Consumers -> Rows \cup {NoRow}]
    BY <1>1, <1>2, <1>10 DEF TypeOK
  <2>2. newLog' \in [Consumers -> SUBSET Entries]
    BY <1>1, <1>2, <1>6 DEF TypeOK
  <2>3. event' \in [Consumers -> Events] /\ points' \in [Consumers -> Nat]
    BY <1>1, <1>2, NoEventIsEvent DEF TypeOK
  <2>4. /\ pc' \in [Consumers -> {"idle", "loading", "scoring", "open"}]
        /\ made' \in Nat /\ lock' \in Consumers
    BY <1>1, <1>2 DEF TypeOK
  <2> QED BY <1>1, <1>2, <2>1, <2>2, <2>3, <2>4 DEF TypeOK
<1>16. EntriesOK'
  <2>1. \A d \in Consumers : IsFiniteSet(newLog'[d])
    <3>1. IsFiniteSet(newLog[c] \cup N)
      BY <1>1, <1>6, FS_Union DEF EntriesOK
    <3> QED BY <1>1, <1>12, <3>1 DEF EntriesOK
  <2>2. \A e \in AllOf(c) : e.id \in Nat /\ e.id <= made
    BY <1>1, <1>7 DEF EntriesOK, Entries
  <2>3. \A e \in N : e.id \in Nat
    BY <1>6 DEF Entries
  <2>4. /\ \A e \in AllOf(c) \cup N : e.id <= made'
        /\ \A e, f \in AllOf(c) \cup N : e.id = f.id => e = f
    <3>1. \A e \in AllOf(c) : \A f \in N : e.id # f.id
      BY <1>5, <1>6, <2>2, <2>3
    <3>2. \A e, f \in AllOf(c) : e.id = f.id => e = f
      BY <1>1 DEF EntriesOK
    <3>3. \A e \in AllOf(c) \cup N : e.id <= made'
      BY <1>2, <1>5, <1>6, <2>2
    <3> QED BY <1>6, <3>1, <3>2, <3>3
  <2>5. /\ \A e \in log : e.id <= made'
        /\ \A e, f \in log : e.id = f.id => e = f
    <3>1. log \subseteq AllOf(c) \cup N
      BY DEF AllOf
    <3> QED BY <2>4, <3>1
  <2>6. \A d \in Consumers : AllOf(d)' = AllOf(c) \cup N \/ AllOf(d)' = log
    BY <1>14
  <2>7. IsFiniteSet(log')
    BY <1>1, <1>2 DEF EntriesOK
  <2>8. \A d \in Consumers : /\ \A e \in AllOf(d)' : e.id <= made'
                             /\ \A e, f \in AllOf(d)' : e.id = f.id => e = f
    BY <2>4, <2>5, <2>6
  <2> QED BY <2>1, <2>7, <2>8 DEF EntriesOK
<1>17. SessionsOK'
  <2>1. \A d \in Consumers \ {c} :
           /\ staged'[d] = NoRow /\ newLog'[d] = {} /\ view'[d] = view[d] /\ pc'[d] = pc[d]
           /\ event'[d] = event[d] /\ points'[d] = points[d]
    BY <1>12, <1>13
  <2>2. \A d \in Consumers \ {c} :
           /\ pc[d] = "idle" => view[d] = NoRow
           /\ pc[d] = "scoring" => view[d] # NoRow
           /\ pc[d] \in {"loading", "scoring"} => points[d] # 0 \/ event[d].other
    BY DEF IInv, SessionsOK
  <2>3. /\ lock' = c /\ view'[c] # NoRow /\ staged'[c] # NoRow /\ pc'[c] = "open"
    BY <1>2, <1>10, <1>12
  <2> QED BY <2>1, <2>2, <2>3 DEF SessionsOK
<1>18. ClockOK'
  <2>1. new.updated <= now /\ kept.updated <= now
    BY <1>5, <1>11
  <2>2. row.updated <= now /\ \A d \in Consumers \ {c} :
           /\ view[d] # NoRow => view[d].updated <= now
           /\ pc[d] \in {"loading", "scoring"} => event[d].at <= now
    BY DEF IInv, ClockOK
  <2> QED BY <1>2, <1>12, <1>13, <2>1, <2>2 DEF ClockOK
<1>19. ExplainedOK'
  <2>1. PICK p, q \in Nat : p = PointsOf(AllOf(c)) /\ q = PointsOf(N)
    BY <1>6, <1>7, PointsType
  <2>2. PointsOf(AllOf(c) \cup N) = p + q
    BY <1>6, <1>7, <2>1, PointsUnion
  <2>3. view[c].score <= p /\ view[c].score \in Nat
    BY <1>3, <2>1 DEF IInv, ExplainedOK, Rows
  <2>4. Total(c) <= p + q
    BY <1>8, <1>9, <2>1, <2>3
  <2>5. Visible(c).score \in Nat /\ Visible(c).score <= p + q
    BY <1>4, <2>1 DEF Rows
  <2>6. new.score <= PointsOf(AllOf(c) \cup N) /\ kept.score <= PointsOf(AllOf(c) \cup N)
    BY <1>11, <2>2, <2>4, <2>5
  <2>7. /\ row.score <= PointsOf(log)
        /\ \A d \in Consumers \ {c} : view[d] # NoRow => view[d].score <= PointsOf(AllOf(d))
    BY DEF IInv, ExplainedOK
  <2>8. \A d \in Consumers \ {c} :
           view'[d] # NoRow => view'[d].score <= PointsOf(AllOf(d)')
    BY <1>12, <1>14, <2>7
  <2>9. \A d \in Consumers \ {c} : staged'[d] = NoRow
    BY <1>12, <1>13
  <2>10. view'[c].score <= PointsOf(AllOf(c)') /\ staged'[c].score <= PointsOf(AllOf(c)')
    BY <1>12, <1>14, <2>6
  <2>11. row'.score <= PointsOf(log')
    BY <1>2, <2>7
  <2> QED BY <2>8, <2>9, <2>10, <2>11 DEF ExplainedOK
<1>20. ASSUME ~overlapped' PROVE SoloOK'
  <2>1. SoloOK
    BY <1>2, <1>20 DEF IInv
  <2>2. \A d \in Consumers \ {c} : pc[d] = "idle" /\ view[d] = NoRow
    BY <1>2, <2>1 DEF IInv, SoloOK, AloneOK, SessionsOK
  <2>3. /\ view[c].score = Visible(c).score /\ view[c].lastAbuse = Visible(c).lastAbuse
    BY <1>3, <2>1 DEF SoloOK, AloneOK
  <2>4. kept.score = Total(c) /\ kept.lastAbuse = event[c].at
    BY <1>11, <2>3
  <2>5. AloneOK'
    BY <1>11, <1>12, <1>14, <2>2, <2>4 DEF AloneOK
  <2>6. Covers(new, AllOf(c) \cup N) /\ Covers(kept, AllOf(c) \cup N)
    <3>1. Covers(view[c], AllOf(c))
      BY <1>3, <2>1 DEF SoloOK, CoveredOK
    <3>2. \A e \in AllOf(c) \cup N : e.at <= now
      <4>1. \A e \in AllOf(c) : e.at \in Int /\ e.at <= view[c].updated
        BY <1>7, <3>1, ScoringAssumption DEF Covers, Entries, Times
      <4>2. \A e \in AllOf(c) : e.at <= now
        BY <1>3, <1>5, <4>1
      <4> QED BY <1>3, <1>6, <4>2
    <3>3. DecayedPointsOf(AllOf(c), now) <= Effective(view[c], event[c].at)
      BY <1>3, <1>5, <1>7, <3>1, EffectiveCovers
    <3>4. DecayedPointsOf(N, now) <= PointsOf(N)
      BY <1>5, <1>6, DecayedAtMost
    <3>5. PICK x, y, z \in Nat : /\ x = DecayedPointsOf(AllOf(c), now)
                                 /\ y = DecayedPointsOf(N, now) /\ z = PointsOf(N)
      BY <1>5, <1>6, <1>7, DecayedType, PointsType
    <3>6. DecayedPointsOf(AllOf(c) \cup N, now) = x + y
      BY <1>5, <1>6, <1>7, <3>5, DecayedUnion
    <3>7. x + y <= Total(c)
      BY <1>8, <1>9, <3>3, <3>4, <3>5
    <3> QED BY <1>11, <2>4, <3>2, <3>6, <3>7 DEF Covers
  <2>7. CoveredOK'
    <3>1. Covers(row, log)
      BY <2>1 DEF SoloOK, CoveredOK
    <3> QED BY <1>2, <1>12, <1>13, <1>14, <2>2, <2>6, <3>1 DEF CoveredOK
  <2>8. PricedOK'
    <3>1. PricedOnce(log) /\ PricedOnce(AllOf(c))
      BY <2>1 DEF SoloOK, PricedOK
    <3>2. points[c] = NewlyOver(event[c].devices, event[c].limit,
                                LastDevices(c, event[c].limit)) * DeviceWeight
      BY <1>2, <2>1 DEF SoloOK, PricedOK
    <3>3. PricedOnce(AllOf(c) \cup N)
      BY <1>1, <3>1, <3>2, PriceOfNewDevices DEF N
    <3>4. \A d \in Consumers : PricedOnce(AllOf(d)')
      BY <1>14, <3>1, <3>3
    <3>5. PricedOnce(log)' /\ \A d \in Consumers : PricedOnce(AllOf(d))'
      BY <1>2, <3>1, <3>4 DEF PricedOnce, DeviceEntriesOf
    <3>6. \A d \in Consumers : ~(pc'[d] \in {"loading", "scoring"})
      BY <1>12, <2>2
    <3> QED BY <3>5, <3>6 DEF PricedOK
  <2>9. GapsOK'
    <3>1. GapsKept(row, log) /\ GapsKept(Visible(c), AllOf(c))
      BY <2>1 DEF SoloOK, GapsOK
    <3>2. GapsKept(kept, AllOf(c) \cup N)
      BY <1>1, <1>3, <1>4, <2>3, <2>4, <3>1, GapOfNewEntries DEF N
    <3> QED BY <1>2, <1>14, <3>1, <3>2 DEF GapsOK, GapsKept, Ordered
  <2> QED BY <2>5, <2>7, <2>8, <2>9 DEF SoloOK
<1> QED BY <1>15, <1>16, <1>17, <1>18, <1>19, <1>20 DEF IInv

LEMMA StutterStep ==
    ASSUME IInv, UNCHANGED vars
    PROVE  IInv'
<1>1. UNCHANGED <<row, log, lock, pc, event, points, view, staged, newLog, now, work,
                  made, changes, overlapped>>
  BY DEF vars, database, session, counters
<1>2. TypeOK'
  BY <1>1 DEF IInv, TypeOK
<1>3. EntriesOK'
  BY <1>1 DEF IInv, EntriesOK, AllOf
<1>4. SessionsOK'
  BY <1>1 DEF IInv, SessionsOK
<1>5. ClockOK'
  BY <1>1 DEF IInv, ClockOK
<1>6. ExplainedOK'
  BY <1>1 DEF IInv, ExplainedOK, AllOf
<1>7. ASSUME ~overlapped' PROVE SoloOK'
  <2>1. SoloOK
    BY <1>1, <1>7 DEF IInv
  <2>2. AloneOK'
    BY <1>1, <2>1 DEF SoloOK, AloneOK, Visible
  <2>3. CoveredOK'
    BY <1>1, <2>1 DEF SoloOK, CoveredOK, Covers, AllOf
  <2>4. PricedOK'
    BY <1>1, <2>1 DEF SoloOK, PricedOK, PricedOnce, DeviceEntriesOf, AllOf, LastDevices
  <2>5. GapsOK'
    BY <1>1, <2>1 DEF SoloOK, GapsOK, GapsKept, Ordered, Visible, AllOf
  <2> QED BY <2>2, <2>3, <2>4, <2>5 DEF SoloOK
<1> QED BY <1>2, <1>3, <1>4, <1>5, <1>6, <1>7 DEF IInv

-------------------------------------------------------------------------------
(* Theorems *)

\* The scoring of one user's events keeps the inductive invariant, whatever
\* sessions overlap, roll back or meet a status change: process_event(), the
\* end of its batch, and the updates of the row by others.
THEOREM ScoringInductive == Spec => []IInv
<1>1. ASSUME IInv, [Next]_vars PROVE IInv'
  <2>1. ASSUME NEW c \in Consumers, NEW e \in Events, Begin(c, e) PROVE IInv'
    BY <1>1, <2>1, BeginStep
  <2>2. ASSUME NEW c \in Consumers, Load(c) PROVE IInv'
    BY <1>1, <2>2, LoadStep
  <2>3. ASSUME NEW c \in Consumers, Score(c) PROVE IInv'
    BY <1>1, <2>3, ScoreStep
  <2>4. ASSUME NEW c \in Consumers, Commit(c) PROVE IInv'
    BY <1>1, <2>4, CommitStep
  <2>5. ASSUME NEW c \in Consumers, RollBack(c) PROVE IInv'
    BY <1>1, <2>5, RollBackStep
  <2>6. CASE StatusChange
    BY <1>1, <2>6, StatusChangeStep
  <2>7. CASE Tick
    BY <1>1, <2>7, TickStep
  <2>8. CASE Quiet
    BY <1>1, <2>8, StutterStep DEF Quiet
  <2>9. CASE UNCHANGED vars
    BY <1>1, <2>9, StutterStep
  <2> QED BY <1>1, <2>1, <2>2, <2>3, <2>4, <2>5, <2>6, <2>7, <2>8, <2>9 DEF Next
<1> QED BY <1>1, IInvInit, PTL DEF Spec

\* Every variable keeps its type: a score is never negative, and a session only
\* ever holds a row or none.
THEOREM ScoringTypeOK == Spec => []TypeOK
<1>1. IInv => TypeOK
  BY DEF IInv
<1> QED BY <1>1, ScoringInductive, PTL

\* The lazily decayed score is never less than the recorded offences decayed
\* one by one (effective_score() and the order of reads and writes in
\* process_event()), while no two sessions score the user at the same time.
THEOREM ScoringNothingForgivenEarly == Spec => []NothingForgivenEarly
<1>1. ASSUME IInv, ~overlapped PROVE Effective(row, now) >= Decayed
  <2>1. row \in Rows /\ log \in SUBSET Entries /\ now \in Int
    BY <1>1, ScoringAssumption DEF IInv, TypeOK, Times
  <2>2. IsFiniteSet(log) /\ row.updated <= now /\ Covers(row, log) /\ now <= now
    BY <1>1, <2>1 DEF IInv, EntriesOK, ClockOK, SoloOK, CoveredOK
  <2>3. DecayedPointsOf(log, now) <= Effective(row, now)
    BY <2>1, <2>2, EffectiveCovers
  <2>4. DecayedPointsOf(log, now) \in Nat /\ Effective(row, now) \in Nat
    BY <2>1, <2>2, DecayedType, EffectiveType
  <2> QED BY <2>3, <2>4 DEF Decayed
<1>2. IInv => NothingForgivenEarly
  BY <1>1 DEF NothingForgivenEarly
<1> QED BY <1>2, ScoringInductive, PTL

\* The entries of abuse_events account for the score, whatever sessions race or
\* roll back.
THEOREM ScoringScoreIsExplained == Spec => []ScoreIsExplained
<1>1. IInv => ScoreIsExplained
  BY DEF IInv, ExplainedOK, ScoreIsExplained
<1> QED BY <1>1, ScoringInductive, PTL

\* The points of device_limit add up to at most one weight for each device
\* beyond the lowest limit (_apply_device_limit_delta()).
THEOREM ScoringDeviceScoredOnce == Spec => []DeviceScoredOnce
<1> DEFINE low == Min(Limits)
           D == DeviceEntriesOf(log)
           seen == {low} \cup {e.devices : e \in D}
<1>1. low \in Nat
  BY ScoringAssumption, MinOfNumbers
<1>2. ASSUME IInv, ~overlapped
      PROVE  PointsOf(D) <= DeviceWeight * (Max(seen) - low)
  <2>1. D \in SUBSET Entries /\ IsFiniteSet(D)
    <3>1. D \in SUBSET log /\ log \in SUBSET Entries /\ IsFiniteSet(log)
      BY <1>2 DEF IInv, TypeOK, EntriesOK, DeviceEntriesOf
    <3> QED BY <3>1, FS_Subset
  <2>2. \A e \in D : e.devices \in Nat
    BY <2>1, ScoringAssumption DEF Entries
  <2>3. PricedOnce(log)
    BY <1>2 DEF IInv, SoloOK, PricedOK
  <2> HIDE DEF low, D
  <2>4. CASE D = {}
    <3>1. PointsOf(D) = 0
      BY <2>4, PointsOfFew
    <3>2. Max(seen) = low
      <4>1. seen = {low}
        BY <2>4
      <4>2. \A k \in {low} : k >= low
        BY <1>1
      <4> QED BY <4>1, <4>2 DEF Max
    <3> QED BY <1>1, <3>1, <3>2, ScoringAssumption
  <2>5. CASE D # {}
    <3>1. PICK last \in D :
             /\ \A e \in D : e.devices <= last.devices
             /\ PointsOf(D) <= DeviceWeight * (last.devices - low)
      BY <2>3, <2>5 DEF PricedOnce, D, low
    <3>2. PICK most \in seen : \A k \in seen : most >= k
      <4>1. CASE low <= last.devices
        <5>1. \A k \in seen : last.devices >= k
          BY <1>1, <2>2, <3>1, <4>1
        <5> QED BY <3>1, <5>1
      <4>2. CASE last.devices <= low
        <5>1. \A k \in seen : low >= k
          BY <1>1, <2>2, <3>1, <4>2
        <5> QED BY <5>1
      <4> QED BY <1>1, <2>2, <3>1, <4>1, <4>2
    <3> HIDE DEF seen
    <3>3. Max(seen) \in seen /\ \A k \in seen : Max(seen) >= k
      BY <3>2 DEF Max
    <3>4. PICK m, d, s, w \in Nat : /\ m = Max(seen) /\ d = last.devices
                                    /\ s = PointsOf(D) /\ w = DeviceWeight
      <4>1. Max(seen) \in Nat
        BY <1>1, <2>2, <3>3 DEF seen
      <4>2. PointsOf(D) \in Nat
        BY <2>1, PointsType
      <4> QED BY <2>2, <3>1, <4>1, <4>2, ScoringAssumption
    <3>5. d <= m
      BY <3>1, <3>3, <3>4 DEF seen
    <3>6. PICK x \in Nat : m = d + x
      <4>1. m - d \in Nat /\ m = d + (m - d)
        BY <3>5
      <4> QED BY <4>1
    <3>7. w * (m - low) = w * (d - low) + w * x /\ w * x \in Nat /\ w * (d - low) \in Int
      BY <1>1, <3>6
    <3>8. s <= w * (d - low)
      BY <3>1, <3>4
    <3>9. s <= w * (m - low)
      BY <3>7, <3>8
    <3> QED BY <3>4, <3>9
  <2> QED BY <2>4, <2>5
<1>3. IInv => DeviceScoredOnce
  BY <1>2 DEF DeviceScoredOnce, DeviceEntries, DeviceEntriesOf
<1> QED BY <1>3, ScoringInductive, PTL

\* A bonus for repetition is earned by a gap, while sessions do not overlap and
\* events are scored in order.
THEOREM ScoringBonusOnlyAfterGap == Spec => []BonusOnlyAfterGap
<1>1. IInv => BonusOnlyAfterGap
  BY DEF IInv, SoloOK, GapsOK, GapsKept, Ordered, BonusOnlyAfterGap, InTimeOrder
<1> QED BY <1>1, ScoringInductive, PTL

===============================================================================
