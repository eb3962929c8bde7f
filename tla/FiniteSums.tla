----------------------------- MODULE FiniteSums -----------------------------
(***************************************************************************)
(* Facts about sums of integers over finite sets, as SumFunctionOnSet      *)
(* folds them: the order does not matter, and what the sum of the squares  *)
(* says of the distance of two of the numbers.                             *)
(*                                                                         *)
(* An induction is a set of sets: those of which the claim is true.        *)
(***************************************************************************)
EXTENDS FiniteSetsExt, FiniteSetTheorems, WellFoundedInduction, TLAPS

\* A set of natural numbers that is not empty has a smallest element.
LEMMA Smallest ==
  ASSUME NEW S \in SUBSET Nat, S # {}
  PROVE  \E m \in S : \A s \in S : m <= s
<1>1. PICK m \in S : \A s \in S : ~ (<<s, m>> \in OpToRel(<, Nat))
  BY WFMin, NatLessThanWellFounded
<1>2. \A s \in S : ~ (s < m)
  BY <1>1 DEF OpToRel
<1> QED
  BY <1>2

LEMMA SubsetInduction ==
  ASSUME NEW S, IsFiniteSet(S), NEW Good,
         \A T \in SUBSET S : (\A U \in SUBSET T : U # T => U \in Good) => T \in Good
  PROVE  \A T \in SUBSET S : T \in Good
<1> DEFINE Bad == (SUBSET S) \ Good
           Sizes == {Cardinality(T) : T \in Bad}
<1> SUFFICES ASSUME Bad # {} PROVE FALSE
  OBVIOUS
<1>1. \A T \in SUBSET S : IsFiniteSet(T) /\ Cardinality(T) \in Nat
  BY FS_Subset, FS_CardinalityType
<1>2. Sizes \in SUBSET Nat /\ Sizes # {}
  BY <1>1
<1>3. PICK n \in Sizes : \A k \in Sizes : n <= k
  <2> HIDE DEF Sizes
  <2> QED
    BY <1>2, Smallest
<1>4. PICK T \in Bad : n = Cardinality(T)
  OBVIOUS
<1>5. ASSUME NEW U \in SUBSET T, U # T PROVE U \in Good
  <2>1. Cardinality(U) # Cardinality(T) /\ Cardinality(U) <= Cardinality(T)
    BY <1>1, <1>4, <1>5, FS_Subset
  <2>2. Cardinality(U) \in Nat /\ Cardinality(T) \in Nat
    BY <1>1, <1>4
  <2>3. ~ (Cardinality(T) <= Cardinality(U))
    BY <2>1, <2>2
  <2>4. Cardinality(U) \notin Sizes
    <3> HIDE DEF Sizes
    <3> QED
      BY <1>3, <1>4, <2>3
  <2> QED
    BY <1>4, <2>4
<1> QED
  BY <1>4, <1>5

-----------------------------------------------------------------------------
\* What the fold takes first, and what it makes of the rest.
First(S) == CHOOSE x \in S : TRUE

\* g adds up f over every subset of S.
Adds(g, f, S) ==
    g = [T \in SUBSET S |-> IF T = {} THEN 0 ELSE f[First(T)] + g[T \ {First(T)}]]

LEMMA SumDef ==
  ASSUME NEW f, NEW S
  PROVE  SumFunctionOnSet(f, S) = (CHOOSE g : Adds(g, f, S))[S]
  BY DEF SumFunctionOnSet, FoldFunctionOnSet, MapThenFoldSet, Adds, First

LEMMA FirstIn ==
  ASSUME NEW S, S # {}
  PROVE  First(S) \in S
  BY DEF First

LEMMA AddsUnique ==
  ASSUME NEW S, IsFiniteSet(S), NEW f, NEW g, NEW h, Adds(g, f, S), Adds(h, f, S)
  PROVE  g[S] = h[S]
<1> DEFINE Good == {T \in SUBSET S : g[T] = h[T]}
<1>1. ASSUME NEW T \in SUBSET S, \A U \in SUBSET T : U # T => U \in Good
      PROVE  T \in Good
  <2>1. CASE T = {}
    BY <2>1 DEF Adds
  <2>2. CASE T # {}
    <3>1. First(T) \in T
      BY <2>2, FirstIn
    <3>2. g[T \ {First(T)}] = h[T \ {First(T)}]
      BY <1>1, <3>1
    <3>3. /\ g[T] = f[First(T)] + g[T \ {First(T)}]
          /\ h[T] = f[First(T)] + h[T \ {First(T)}]
      BY <2>2 DEF Adds
    <3> QED
      BY <3>2, <3>3
  <2> QED
    BY <2>1, <2>2
<1>2. \A T \in SUBSET S : T \in Good
  <2> HIDE DEF Good
  <2> QED
    BY <1>1, SubsetInduction
<1> QED
  BY <1>2

\* The recursion of the fold, which TLA+ defines by a CHOOSE, does what it says.
LEMMA SumFirst ==
  ASSUME NEW S, IsFiniteSet(S), NEW f
  PROVE  \A T \in SUBSET S :
            SumFunctionOnSet(f, T) =
              IF T = {} THEN 0
              ELSE f[First(T)] + SumFunctionOnSet(f, T \ {First(T)})
<1> DEFINE Rec(T) == IF T = {} THEN 0
                     ELSE f[First(T)] + SumFunctionOnSet(f, T \ {First(T)})
           Good == {T \in SUBSET S : SumFunctionOnSet(f, T) = Rec(T)}
<1>1. ASSUME NEW T \in SUBSET S, \A U \in SUBSET T : U # T => U \in Good
      PROVE  T \in Good
  <2> DEFINE g == [U \in SUBSET T |-> Rec(U)]
  <2>1. ASSUME NEW U \in SUBSET T, U # {}
        PROVE  g[U \ {First(U)}] = SumFunctionOnSet(f, U \ {First(U)})
    <3>1. First(U) \in U
      BY <2>1, FirstIn
    <3>2. U \ {First(U)} \in SUBSET T /\ U \ {First(U)} # T
      BY <3>1
    <3>3. U \ {First(U)} \in Good
      BY <1>1, <3>2
    <3>4. g[U \ {First(U)}] = Rec(U \ {First(U)})
      BY <3>2
    <3> HIDE DEF Rec, g
    <3> QED
      BY <3>3, <3>4
  <2>2. Adds(g, f, T)
    <3>1. ASSUME NEW U \in SUBSET T
          PROVE  Rec(U) = IF U = {} THEN 0 ELSE f[First(U)] + g[U \ {First(U)}]
      <4> HIDE DEF g
      <4> QED
        BY <2>1
    <3> QED
      BY <3>1, Zenon DEF Adds
  <2>3. IsFiniteSet(T)
    BY FS_Subset
  <2> DEFINE h == CHOOSE k : Adds(k, f, T)
  <2>4. Adds(h, f, T)
    BY <2>2
  <2>5. h[T] = g[T]
    <3> HIDE DEF g, h
    <3> QED
      BY <2>2, <2>3, <2>4, AddsUnique
  <2>6. SumFunctionOnSet(f, T) = h[T]
    BY SumDef
  <2>7. g[T] = Rec(T)
    OBVIOUS
  <2> HIDE DEF g, h, Rec
  <2> QED
    BY <2>5, <2>6, <2>7
<1>2. \A T \in SUBSET S : T \in Good
  <2> HIDE DEF Good
  <2> QED
    BY <1>1, SubsetInduction
<1> QED
  BY <1>2

LEMMA SumEmpty ==
  ASSUME NEW f
  PROVE  SumFunctionOnSet(f, {}) = 0
<1>1. IsFiniteSet({}) /\ {} \in SUBSET {}
  BY FS_EmptySet
<1> QED
  BY <1>1, SumFirst

LEMMA SumType ==
  ASSUME NEW S, IsFiniteSet(S), NEW f \in [S -> Int]
  PROVE  \A T \in SUBSET S : SumFunctionOnSet(f, T) \in Int
<1> DEFINE Good == {T \in SUBSET S : SumFunctionOnSet(f, T) \in Int}
<1>1. ASSUME NEW T \in SUBSET S, \A U \in SUBSET T : U # T => U \in Good
      PROVE  T \in Good
  <2>1. CASE T = {}
    BY <2>1, SumEmpty
  <2>2. CASE T # {}
    <3>1. First(T) \in T /\ f[First(T)] \in Int
      BY <2>2, FirstIn
    <3>2. SumFunctionOnSet(f, T \ {First(T)}) \in Int
      BY <1>1, <3>1
    <3>3. SumFunctionOnSet(f, T) = f[First(T)] + SumFunctionOnSet(f, T \ {First(T)})
      BY <2>2, SumFirst
    <3> QED
      BY <3>1, <3>2, <3>3
  <2> QED
    BY <2>1, <2>2
<1>2. \A T \in SUBSET S : T \in Good
  <2> HIDE DEF Good
  <2> QED
    BY <1>1, SubsetInduction
<1> QED
  BY <1>2

\* Any element may be the first.
LEMMA SumRemove ==
  ASSUME NEW S, IsFiniteSet(S), NEW f \in [S -> Int]
  PROVE  \A T \in SUBSET S : \A a \in T :
            SumFunctionOnSet(f, T) = f[a] + SumFunctionOnSet(f, T \ {a})
<1> DEFINE Total(T) == SumFunctionOnSet(f, T)
           Good == {T \in SUBSET S : \A a \in T : Total(T) = f[a] + Total(T \ {a})}
<1>1. ASSUME NEW T \in SUBSET S, \A U \in SUBSET T : U # T => U \in Good
      PROVE  T \in Good
  <2> SUFFICES ASSUME NEW a \in T PROVE Total(T) = f[a] + Total(T \ {a})
    OBVIOUS
  <2> DEFINE x == First(T)
  <2>1. x \in T /\ Total(T) = f[x] + Total(T \ {x})
    BY FirstIn, SumFirst
  <2>2. CASE a = x
    BY <2>1, <2>2
  <2>3. CASE a # x
    <3> DEFINE Rest == (T \ {x}) \ {a}
    <3>1. T \ {x} \in Good /\ T \ {a} \in Good
      BY <1>1, <2>1
    <3>2. Total(T \ {x}) = f[a] + Total(Rest)
      BY <2>3, <3>1
    <3>3. Rest = (T \ {a}) \ {x}
      OBVIOUS
    <3>4. Total(T \ {a}) = f[x] + Total(Rest)
      <4> HIDE DEF Total, x
      <4> QED
        BY <2>1, <2>3, <3>1, <3>3
    <3>5. f[a] \in Int /\ f[x] \in Int /\ Total(Rest) \in Int
      BY <2>1, SumType
    <3> HIDE DEF Total, Rest, x
    <3> QED
      BY <2>1, <3>2, <3>4, <3>5
  <2> QED
    BY <2>2, <2>3
<1>2. \A T \in SUBSET S : T \in Good
  <2> HIDE DEF Good
  <2> QED
    BY <1>1, SubsetInduction
<1> QED
  BY <1>2

-----------------------------------------------------------------------------
Squares(f) == [x \in DOMAIN f |-> f[x] * f[x]]

LEMMA SquaresType ==
  ASSUME NEW S, NEW f \in [S -> Int]
  PROVE  Squares(f) \in [S -> Int] /\ \A x \in S : Squares(f)[x] = f[x] * f[x]
  BY DEF Squares

LEMMA SumConstant ==
  ASSUME NEW S, IsFiniteSet(S), NEW k \in Int, NEW f \in [S -> Int],
         \A x \in S : f[x] = k
  PROVE  SumFunctionOnSet(f, S) = Cardinality(S) * k
<1> DEFINE Total(T) == SumFunctionOnSet(f, T)
           Good == {T \in SUBSET S : Total(T) = Cardinality(T) * k}
<1>1. ASSUME NEW T \in SUBSET S, \A U \in SUBSET T : U # T => U \in Good
      PROVE  T \in Good
  <2>0. IsFiniteSet(T) /\ Cardinality(T) \in Nat
    BY FS_Subset, FS_CardinalityType
  <2>1. CASE T = {}
    BY <2>1, SumEmpty, FS_EmptySet
  <2>2. CASE T # {}
    <3> DEFINE U == T \ {First(T)}
    <3>1. First(T) \in T
      BY <2>2, FirstIn
    <3>2. Total(T) = k + Total(U)
      BY <2>2, <3>1, SumFirst
    <3>3. U \in Good
      BY <1>1, <3>1
    <3>4. Total(U) = Cardinality(U) * k
      BY <3>3
    <3>5. IsFiniteSet(U) /\ Cardinality(U) = Cardinality(T) - 1
      BY <2>0, <3>1, FS_RemoveElement
    <3>6. Total(T) = k + (Cardinality(T) - 1) * k
      <4> HIDE DEF Total, U
      <4> QED
        BY <3>2, <3>4, <3>5
    <3>7. \A n \in Nat : k + (n - 1) * k = n * k
      OBVIOUS
    <3>8. Total(T) = Cardinality(T) * k
      <4> HIDE DEF Total, U
      <4> QED
        BY <2>0, <3>6, <3>7
    <3> QED
      BY <3>8
  <2> QED
    BY <2>1, <2>2
<1>2. \A T \in SUBSET S : T \in Good
  <2> HIDE DEF Good
  <2> QED
    BY <1>1, SubsetInduction
<1> QED
  BY <1>2

\* The sum of (c * f[x] - d) ^ 2 over a set is not negative.
LEMMA SumOfDistances ==
  ASSUME NEW S, IsFiniteSet(S), NEW f \in [S -> Int], NEW c \in Int, NEW d \in Int
  PROVE  \A T \in SUBSET S :
            c * c * SumFunctionOnSet(Squares(f), T)
              - 2 * c * d * SumFunctionOnSet(f, T)
              + Cardinality(T) * d * d >= 0
<1> DEFINE Total(T) == SumFunctionOnSet(f, T)
           Square(T) == SumFunctionOnSet(Squares(f), T)
           Spread(T) == c * c * Square(T) - 2 * c * d * Total(T) + Cardinality(T) * d * d
           Good == {T \in SUBSET S : Spread(T) >= 0}
<1>1. ASSUME NEW T \in SUBSET S, \A U \in SUBSET T : U # T => U \in Good
      PROVE  T \in Good
  <2>0. IsFiniteSet(T) /\ Cardinality(T) \in Nat
    BY FS_Subset, FS_CardinalityType
  <2>1. CASE T = {}
    <3>1. Total(T) = 0 /\ Square(T) = 0 /\ Cardinality(T) = 0
      BY <2>1, SumEmpty, FS_EmptySet
    <3> HIDE DEF Total, Square
    <3> QED
      BY <3>1
  <2>2. CASE T # {}
    <3> DEFINE a == First(T)
               U == T \ {a}
    <3>1. a \in T /\ f[a] \in Int /\ Squares(f)[a] = f[a] * f[a]
      BY <2>2, FirstIn, SquaresType
    <3>2. Total(T) = f[a] + Total(U) /\ Square(T) = f[a] * f[a] + Square(U)
      BY <2>2, <3>1, SumFirst
    <3>3. U \in Good
      BY <1>1, <3>1
    <3>4. Total(U) \in Int /\ Square(U) \in Int
      BY SumType, SquaresType
    <3>5. Cardinality(U) = Cardinality(T) - 1
      BY <2>0, <3>1, FS_RemoveElement
    <3>6. Spread(U) >= 0
      BY <3>3
    <3>7. \A x, t, q, n \in Int :
             c * c * (x * x + q) - 2 * c * d * (x + t) + n * d * d
               = (c * c * q - 2 * c * d * t + (n - 1) * d * d) + (c * x - d) * (c * x - d)
      OBVIOUS
    <3>8. \A x \in Int : (c * x - d) * (c * x - d) >= 0
      <4>1. \A y \in Int : y * y >= 0
        OBVIOUS
      <4> QED
        BY <4>1
    <3>9. Spread(T) = Spread(U) + (c * f[a] - d) * (c * f[a] - d)
      <4> HIDE DEF Total, Square, a, U
      <4> QED
        BY <2>0, <3>1, <3>2, <3>4, <3>5, <3>7
    <3>10. (c * f[a] - d) * (c * f[a] - d) >= 0 /\ (c * f[a] - d) * (c * f[a] - d) \in Int
      BY <3>1, <3>8
    <3>11. Spread(U) \in Int
      <4> HIDE DEF Total, Square, a
      <4> QED
        BY <2>0, <3>4, <3>5
    <3>12. Spread(T) >= 0
      <4> HIDE DEF Spread, a, U
      <4> QED
        BY <3>6, <3>9, <3>10, <3>11
    <3> QED
      BY <3>12
  <2> QED
    BY <2>1, <2>2
<1>2. \A T \in SUBSET S : T \in Good
  <2> HIDE DEF Good
  <2> QED
    BY <1>1, SubsetInduction
<1> QED
  BY <1>2

\* Cauchy and Schwarz.
LEMMA SquareOfSum ==
  ASSUME NEW S, IsFiniteSet(S), NEW f \in [S -> Int], NEW T \in SUBSET S
  PROVE  SumFunctionOnSet(f, T) * SumFunctionOnSet(f, T)
            <= Cardinality(T) * SumFunctionOnSet(Squares(f), T)
<1> DEFINE t == SumFunctionOnSet(f, T)
           q == SumFunctionOnSet(Squares(f), T)
           m == Cardinality(T)
<1>1. IsFiniteSet(T) /\ m \in Nat /\ t \in Int /\ q \in Int
  BY FS_Subset, FS_CardinalityType, SumType, SquaresType
<1>2. CASE m = 0
  <2>1. t = 0 /\ q = 0
    BY <1>1, <1>2, FS_EmptySet, SumEmpty
  <2>2. t * t <= m * q
    <3> HIDE DEF t, q, m
    <3> QED
      BY <1>2, <2>1
  <2> QED
    BY <2>2
<1>3. CASE m # 0
  <2>1. m * m * q - 2 * m * t * t + m * t * t >= 0
    <3>1. \A c, d \in Int : c * c * q - 2 * c * d * t + m * d * d >= 0
      BY SumOfDistances
    <3>2. m \in Int
      BY <1>1
    <3> HIDE DEF t, q, m
    <3> QED
      BY <1>1, <3>1, <3>2, Zenon
  <2>2. t * t <= m * q
    <3> HIDE DEF t, q, m
    <3>1. m * m * q - 2 * m * t * t + m * t * t = m * (m * q - t * t)
      BY <1>1
    <3>2. m > 0 /\ m \in Int /\ m * q \in Int /\ t * t \in Int /\ m * q - t * t \in Int
      BY <1>1, <1>3
    <3>3. \A k, z \in Int : k > 0 /\ k * z >= 0 => z >= 0
      OBVIOUS
    <3>4. m * (m * q - t * t) >= 0
      BY <2>1, <3>1
    <3>5. m * q - t * t >= 0
      BY <3>2, <3>3, <3>4
    <3> QED
      BY <3>2, <3>5
  <2> QED
    BY <2>2
<1> QED
  BY <1>2, <1>3

LEMMA PairAndRest ==
  ASSUME NEW g \in Int, NEW h \in Int, NEW t \in Int, NEW q \in Int, NEW m \in Int,
         t * t <= m * q,
         4 * q - 4 * (g + h) * t + m * (g + h) * (g + h) >= 0
  PROVE  (m + 2) * (g - h) * (g - h)
            <= 2 * ((m + 2) * (g * g + (h * h + q)) - (g + (h + t)) * (g + (h + t)))
<1> DEFINE v == 2 * ((m + 2) * (g * g + (h * h + q)) - (g + (h + t)) * (g + (h + t)))
           e == (m + 2) * (g - h) * (g - h)
           w == 4 * q - 4 * (g + h) * t + m * (g + h) * (g + h)
<1>1. v - e = 2 * (m * q - t * t) + w
  OBVIOUS
<1>2. v \in Int /\ e \in Int /\ w \in Int /\ m * q \in Int /\ t * t \in Int
  OBVIOUS
<1>3. w >= 0
  OBVIOUS
<1>4. e <= v
  <2> HIDE DEF v, e, w
  <2> QED
    BY <1>1, <1>2, <1>3
<1> QED
  BY <1>4

\* n * n times the variance of n numbers is at least n / 2 times the square of
\* the distance of any two of them.
LEMMA VarianceOfTwo ==
  ASSUME NEW S, IsFiniteSet(S), NEW f \in [S -> Int],
         NEW a \in S, NEW b \in S, a # b
  PROVE  Cardinality(S) * (f[a] - f[b]) * (f[a] - f[b])
            <= 2 * (Cardinality(S) * SumFunctionOnSet(Squares(f), S)
                      - SumFunctionOnSet(f, S) * SumFunctionOnSet(f, S))
<1> DEFINE T == (S \ {a}) \ {b}
           t == SumFunctionOnSet(f, T)
           q == SumFunctionOnSet(Squares(f), T)
           m == Cardinality(T)
<1>1. Squares(f) \in [S -> Int] /\ \A x \in S : Squares(f)[x] = f[x] * f[x]
  BY SquaresType
<1>2. /\ SumFunctionOnSet(f, S) = f[a] + (f[b] + t)
      /\ SumFunctionOnSet(Squares(f), S) = f[a] * f[a] + (f[b] * f[b] + q)
  <2>1. /\ SumFunctionOnSet(f, S) = f[a] + SumFunctionOnSet(f, S \ {a})
        /\ SumFunctionOnSet(f, S \ {a}) = f[b] + t
    BY SumRemove
  <2>2. /\ SumFunctionOnSet(Squares(f), S) =
              f[a] * f[a] + SumFunctionOnSet(Squares(f), S \ {a})
        /\ SumFunctionOnSet(Squares(f), S \ {a}) = f[b] * f[b] + q
    BY <1>1, SumRemove
  <2> QED
    BY <2>1, <2>2
<1>3. IsFiniteSet(T) /\ Cardinality(S) = m + 2
  <2>1. IsFiniteSet(S \ {a}) /\ Cardinality(S \ {a}) = Cardinality(S) - 1
    BY FS_RemoveElement
  <2>2. IsFiniteSet(T) /\ m = Cardinality(S \ {a}) - 1
    BY <2>1, FS_RemoveElement
  <2>3. Cardinality(S) \in Nat
    BY FS_CardinalityType
  <2> HIDE DEF m
  <2> QED
    BY <2>1, <2>2, <2>3
<1>4. /\ m \in Nat /\ t \in Int /\ q \in Int /\ f[a] \in Int /\ f[b] \in Int
  BY <1>1, <1>3, FS_CardinalityType, SumType
<1>5. t * t <= m * q
  BY SquareOfSum
<1>6. 4 * q - 4 * (f[a] + f[b]) * t + m * (f[a] + f[b]) * (f[a] + f[b]) >= 0
  <2>1. \A d \in Int : 2 * 2 * q - 2 * 2 * d * t + m * d * d >= 0
    <3> SUFFICES ASSUME NEW d \in Int
                 PROVE  2 * 2 * q - 2 * 2 * d * t + m * d * d >= 0
      OBVIOUS
    <3>1. 2 \in Int /\ T \in SUBSET S
      OBVIOUS
    <3>2. \A U \in SUBSET S :
             2 * 2 * SumFunctionOnSet(Squares(f), U)
               - 2 * 2 * d * SumFunctionOnSet(f, U)
               + Cardinality(U) * d * d >= 0
      BY <3>1, SumOfDistances, Zenon
    <3> QED
      BY <3>1, <3>2, Zenon
  <2>2. f[a] + f[b] \in Int
    BY <1>4
  <2>3. 2 * 2 * q - 2 * 2 * (f[a] + f[b]) * t + m * (f[a] + f[b]) * (f[a] + f[b]) >= 0
    BY <2>1, <2>2
  <2> HIDE DEF t, q, m
  <2> QED
    BY <1>4, <2>3
<1>7. (m + 2) * (f[a] - f[b]) * (f[a] - f[b])
         <= 2 * ((m + 2) * (f[a] * f[a] + (f[b] * f[b] + q))
                  - (f[a] + (f[b] + t)) * (f[a] + (f[b] + t)))
  <2>1. m \in Int
    BY <1>4
  <2> HIDE DEF t, q, m
  <2> QED
    BY <1>4, <1>5, <1>6, <2>1, PairAndRest, Zenon
<1> QED
  BY <1>2, <1>3, <1>7, Zenon
=============================================================================
