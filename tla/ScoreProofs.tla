---------------------------- MODULE ScoreProofs ----------------------------
(***************************************************************************)
(* Facts about what the verification model calculates with: finite sums,   *)
(* means, extremes and filtered sequences, and from them the range of every*)
(* score.  What would be an induction over the data is an argument on a    *)
(* least set for which the fact fails (WFMin of WellFoundedInduction).     *)
(***************************************************************************)
EXTENDS Verdict, TLAPS, FiniteSetTheorems, WellFoundedInduction

(* Among the finite sets with a property there is a least one.             *)
LEMMA LeastSubset ==
    ASSUME NEW S, IsFiniteSet(S), NEW bad \in SUBSET (SUBSET S), bad # {}
    PROVE  \E T \in bad : \A U \in bad : U \subseteq T => U = T
<1> DEFINE sizes == {Cardinality(T) : T \in bad}
<1>1. \A T \in bad : IsFiniteSet(T) /\ Cardinality(T) \in Nat
  BY FS_Subset, FS_CardinalityType
<1>2. sizes \subseteq Nat /\ sizes # {}
  BY <1>1
<1>3. PICK n \in sizes : \A k \in sizes : ~(<<k, n>> \in OpToRel(<, Nat))
  <2> HIDE DEF sizes
  <2>1. QED
    BY <1>2, NatLessThanWellFounded, WFMin
<1>4. \A k \in sizes : ~(k < n)
  BY <1>2, <1>3 DEF OpToRel
<1>5. PICK T \in bad : Cardinality(T) = n
  BY DEF sizes
<1>6. ASSUME NEW U \in bad, U \subseteq T
      PROVE  U = T
  <2>1. Cardinality(U) <= Cardinality(T)
    BY <1>1, <1>6, FS_Subset
  <2>2. ~(Cardinality(U) < Cardinality(T))
    BY <1>4, <1>5
  <2>3. Cardinality(U) = Cardinality(T)
    BY <1>1, <2>1, <2>2
  <2>4. QED
    BY <1>1, <1>6, <2>3, FS_Subset
<1>7. QED
  BY <1>5, <1>6

-----------------------------------------------------------------------------
(* The recursion of MapThenFoldSet, for the sum of f.                      *)
Some(s) == CHOOSE x \in s : TRUE
Adds(f, S, g) ==
    g = [s \in SUBSET S |-> IF s = {} THEN 0 ELSE f[Some(s)] + g[s \ {Some(s)}]]

LEMMA SumIsIter ==
    ASSUME NEW f, NEW S
    PROVE  SumFunctionOnSet(f, S) = (CHOOSE g : Adds(f, S, g))[S]
BY DEF SumFunctionOnSet, FoldFunctionOnSet, MapThenFoldSet, Adds, Some

LEMMA AddsAgree ==
    ASSUME NEW f, NEW S, IsFiniteSet(S), NEW R, S \subseteq R, NEW g, NEW h, Adds(f, S, g), Adds(f, R, h)
    PROVE  \A s \in SUBSET S : g[s] = h[s]
<1> DEFINE bad == {s \in SUBSET S : g[s] # h[s]}
<1>1. SUFFICES ASSUME bad # {} PROVE FALSE
  OBVIOUS
<1>2. PICK s \in bad : \A U \in bad : U \subseteq s => U = s
  <2> HIDE DEF bad
  <2>1. bad \in SUBSET (SUBSET S)
    BY DEF bad
  <2>2. QED
    BY <1>1, <2>1, LeastSubset
<1>3. s \in SUBSET S /\ s \in SUBSET R /\ g[s] # h[s]
  OBVIOUS
<1>4. /\ g[s] = IF s = {} THEN 0 ELSE f[Some(s)] + g[s \ {Some(s)}]
      /\ h[s] = IF s = {} THEN 0 ELSE f[Some(s)] + h[s \ {Some(s)}]
  BY <1>3 DEF Adds
<1>5. s # {}
  BY <1>3, <1>4
<1>6. Some(s) \in s
  BY <1>5 DEF Some
<1>7. s \ {Some(s)} \in SUBSET S /\ s \ {Some(s)} # s /\ s \ {Some(s)} \subseteq s
  BY <1>3, <1>6
<1>8. g[s \ {Some(s)}] = h[s \ {Some(s)}]
  BY <1>2, <1>7
<1>9. QED
  BY <1>3, <1>4, <1>5, <1>8

LEMMA AddsExists ==
    ASSUME NEW f, NEW S, IsFiniteSet(S)
    PROVE  \E g : Adds(f, S, g)
<1> DEFINE bad == {T \in SUBSET S : ~\E g : Adds(f, T, g)}
<1>1. SUFFICES ASSUME bad # {} PROVE FALSE
  OBVIOUS
<1>2. PICK T \in bad : \A U \in bad : U \subseteq T => U = T
  <2> HIDE DEF bad
  <2>1. bad \in SUBSET (SUBSET S)
    BY DEF bad
  <2>2. QED
    BY <1>1, <2>1, LeastSubset
<1> DEFINE graph(U) == CHOOSE g : Adds(f, U, g)
           g == [s \in SUBSET T |-> IF s = {} THEN 0
                                    ELSE f[Some(s)] + graph(s \ {Some(s)})[s \ {Some(s)}]]
<1>3. ASSUME NEW U \in SUBSET T, U # T
      PROVE  Adds(f, U, graph(U))
  BY <1>2, <1>3
<1>4. \A s \in SUBSET T : s # {} => Some(s) \in s
  BY DEF Some
<1>5. ASSUME NEW s \in SUBSET T, s # T
      PROVE  g[s] = graph(s)[s]
  <2> HIDE DEF graph
  <2>1. graph(s)[s] = IF s = {} THEN 0 ELSE f[Some(s)] + graph(s)[s \ {Some(s)}]
    BY <1>3, <1>5 DEF Adds
  <2>2. CASE s = {}
    BY <2>1, <2>2
  <2>3. CASE s # {}
    <3> DEFINE r == s \ {Some(s)}
    <3>1. r \in SUBSET T /\ r # T /\ r \subseteq s
      BY <1>5
    <3>2. IsFiniteSet(r)
      BY <3>1, FS_Subset
    <3>3. Adds(f, r, graph(r)) /\ Adds(f, s, graph(s))
      BY <1>3, <1>5, <3>1
    <3>4. graph(r)[r] = graph(s)[r]
      <4> HIDE DEF r
      <4>1. QED
        BY <3>1, <3>2, <3>3, AddsAgree
    <3>5. QED
      BY <2>1, <2>3, <3>4
  <2>4. QED
    BY <2>2, <2>3
<1>6. ASSUME NEW s \in SUBSET T, s # {}
      PROVE  g[s \ {Some(s)}] = graph(s \ {Some(s)})[s \ {Some(s)}]
  <2>1. s \ {Some(s)} \in SUBSET T /\ s \ {Some(s)} # T
    BY <1>4, <1>6
  <2> HIDE DEF graph, g
  <2>2. QED
    BY <1>5, <2>1
<1>7. Adds(f, T, g)
  <2> HIDE DEF graph
  <2>1. \A s \in SUBSET T : g[s] = IF s = {} THEN 0 ELSE f[Some(s)] + g[s \ {Some(s)}]
    BY <1>6
  <2>2. g = [s \in SUBSET T |-> g[s]]
    OBVIOUS
  <2> HIDE DEF g
  <2>3. QED
    BY <2>1, <2>2 DEF Adds
<1>8. QED
  <2> HIDE DEF g
  <2>1. QED
    BY <1>2, <1>7

(* A sum is taken apart at the member that the fold chooses.               *)
LEMMA SumChosen ==
    ASSUME NEW f, NEW S, IsFiniteSet(S)
    PROVE  /\ S = {} => SumFunctionOnSet(f, S) = 0
           /\ S # {} => /\ Some(S) \in S
                        /\ SumFunctionOnSet(f, S) = f[Some(S)] + SumFunctionOnSet(f, S \ {Some(S)})
<1> DEFINE r == S \ {Some(S)}
           g == CHOOSE g : Adds(f, S, g)
           h == CHOOSE h : Adds(f, r, h)
<1>1. IsFiniteSet(r) /\ r \subseteq S
  BY FS_Subset
<1>2. Adds(f, S, g) /\ Adds(f, r, h)
  <2> HIDE DEF r
  <2>1. (\E x : Adds(f, S, x)) /\ (\E x : Adds(f, r, x))
    BY <1>1, AddsExists
  <2>2. QED
    BY <2>1
<1>3. SumFunctionOnSet(f, S) = g[S] /\ SumFunctionOnSet(f, r) = h[r]
  BY SumIsIter
<1> HIDE DEF g, h
<1>4. h[r] = g[r]
  <2> HIDE DEF r
  <2>1. QED
    BY <1>1, <1>2, AddsAgree
<1>5. g[S] = IF S = {} THEN 0 ELSE f[Some(S)] + g[r]
  BY <1>2 DEF Adds
<1>6. S # {} => Some(S) \in S
  BY DEF Some
<1>7. QED
  BY <1>3, <1>4, <1>5, <1>6

-----------------------------------------------------------------------------
LEMMA SumEmpty == ASSUME NEW f PROVE SumFunctionOnSet(f, {}) = 0
BY SumChosen, FS_EmptySet

LEMMA SumType ==
    ASSUME NEW f, NEW S, IsFiniteSet(S), \A x \in S : f[x] \in Int
    PROVE  SumFunctionOnSet(f, S) \in Int
<1> DEFINE bad == {T \in SUBSET S : SumFunctionOnSet(f, T) \notin Int}
<1>1. SUFFICES ASSUME bad # {} PROVE FALSE
  OBVIOUS
<1>2. PICK T \in bad : \A U \in bad : U \subseteq T => U = T
  <2> HIDE DEF bad
  <2>1. bad \in SUBSET (SUBSET S)
    BY DEF bad
  <2>2. QED
    BY <1>1, <2>1, LeastSubset
<1>3. IsFiniteSet(T) /\ T \subseteq S /\ SumFunctionOnSet(f, T) \notin Int
  BY FS_Subset
<1>4. T # {}
  BY <1>3, SumEmpty
<1>5. Some(T) \in T /\ SumFunctionOnSet(f, T) = f[Some(T)] + SumFunctionOnSet(f, T \ {Some(T)})
  BY <1>3, <1>4, SumChosen
<1>6. SumFunctionOnSet(f, T \ {Some(T)}) \in Int
  BY <1>2, <1>3, <1>5
<1>7. QED
  BY <1>3, <1>5, <1>6

(* ... and at any other.                                                   *)
LEMMA SumAt ==
    ASSUME NEW f, NEW S, IsFiniteSet(S), \A x \in S : f[x] \in Int, NEW i \in S
    PROVE  SumFunctionOnSet(f, S) = f[i] + SumFunctionOnSet(f, S \ {i})
<1> DEFINE Sum(T) == SumFunctionOnSet(f, T)
           Splits(T) == \A j \in T : Sum(T) = f[j] + Sum(T \ {j})
           bad == {T \in SUBSET S : ~Splits(T)}
<1>1. SUFFICES ASSUME bad # {} PROVE FALSE
  <2>1. bad = {} => Splits(S)
    OBVIOUS
  <2>2. QED
    BY <2>1
<1>2. PICK T \in bad : \A U \in bad : U \subseteq T => U = T
  <2> HIDE DEF bad
  <2>1. bad \in SUBSET (SUBSET S)
    BY DEF bad
  <2>2. QED
    BY <1>1, <2>1, LeastSubset
<1>3. PICK j \in T : Sum(T) # f[j] + Sum(T \ {j})
  OBVIOUS
<1>4. \A U \in SUBSET S : IsFiniteSet(U) /\ Sum(U) \in Int
  BY FS_Subset, SumType
<1>5. PICK c \in T : Sum(T) = f[c] + Sum(T \ {c})
  <2>1. Some(T) \in T /\ Sum(T) = f[Some(T)] + Sum(T \ {Some(T)})
    BY <1>3, <1>4, SumChosen
  <2>2. QED
    BY <2>1
<1>6. c # j
  BY <1>3, <1>5
<1>7. \A U \in SUBSET T : U # T => Splits(U)
  BY <1>2
<1> DEFINE U == T \ {c}
           V == T \ {j}
           W == (T \ {c}) \ {j}
<1>8. Sum(U) = f[j] + Sum(W)
  <2>1. U \in SUBSET T /\ U # T /\ j \in U
    BY <1>6
  <2>2. Splits(U)
    BY <1>7, <2>1
  <2>3. QED
    BY <2>1, <2>2
<1>9. Sum(V) = f[c] + Sum(W)
  <2>1. V \in SUBSET T /\ V # T /\ c \in V /\ V \ {c} = W
    BY <1>6
  <2>2. Splits(V)
    BY <1>7, <2>1
  <2>3. QED
    BY <2>1, <2>2
<1>10. f[c] \in Int /\ f[j] \in Int /\ Sum(W) \in Int
  BY <1>4
<1> HIDE DEF Sum, U, V, W
<1>11. Sum(T) = f[c] + Sum(U) /\ Sum(T) # f[j] + Sum(V)
  BY <1>3, <1>5 DEF U, V
<1>12. QED
  BY <1>8, <1>9, <1>10, <1>11

(* Sums are compared member by member ...                                  *)
LEMMA SumMonotone ==
    ASSUME NEW f, NEW g, NEW S, IsFiniteSet(S),
           \A x \in S : f[x] \in Int /\ g[x] \in Int /\ f[x] <= g[x]
    PROVE  SumFunctionOnSet(f, S) <= SumFunctionOnSet(g, S)
<1> DEFINE Below(T) == SumFunctionOnSet(f, T) <= SumFunctionOnSet(g, T)
           bad == {T \in SUBSET S : ~Below(T)}
<1>1. SUFFICES ASSUME bad # {} PROVE FALSE
  OBVIOUS
<1>2. PICK T \in bad : \A U \in bad : U \subseteq T => U = T
  <2> HIDE DEF bad
  <2>1. bad \in SUBSET (SUBSET S)
    BY DEF bad
  <2>2. QED
    BY <1>1, <2>1, LeastSubset
<1>3. \A U \in SUBSET S : /\ IsFiniteSet(U)
                          /\ SumFunctionOnSet(f, U) \in Int /\ SumFunctionOnSet(g, U) \in Int
  BY FS_Subset, SumType
<1>4. T # {}
  BY SumEmpty
<1>5. PICK i \in T : TRUE
  BY <1>4
<1> DEFINE r == T \ {i}
<1>6. /\ SumFunctionOnSet(f, T) = f[i] + SumFunctionOnSet(f, r)
      /\ SumFunctionOnSet(g, T) = g[i] + SumFunctionOnSet(g, r)
  BY <1>3, SumAt
<1>7. r \in SUBSET S /\ r # T /\ r \subseteq T
  OBVIOUS
<1>8. Below(r)
  BY <1>2, <1>7
<1> HIDE DEF r
<1>9. Below(T)
  BY <1>3, <1>6, <1>7, <1>8
<1>10. QED
  BY <1>9

(* ... and the sum of a constant is a product.                             *)
LEMMA SumConstant ==
    ASSUME NEW c \in Int, NEW S, IsFiniteSet(S)
    PROVE  SumFunctionOnSet([x \in S |-> c], S) = c * Cardinality(S)
<1> DEFINE f == [x \in S |-> c]
           Product(T) == SumFunctionOnSet(f, T) = c * Cardinality(T)
           bad == {T \in SUBSET S : ~Product(T)}
<1>1. SUFFICES ASSUME bad # {} PROVE FALSE
  <2>1. bad = {} => Product(S)
    OBVIOUS
  <2>2. QED
    BY <2>1
<1>2. PICK T \in bad : \A U \in bad : U \subseteq T => U = T
  <2> HIDE DEF bad
  <2>1. bad \in SUBSET (SUBSET S)
    BY DEF bad
  <2>2. QED
    BY <1>1, <2>1, LeastSubset
<1>3. \A x \in S : f[x] = c
  OBVIOUS
<1>4. \A U \in SUBSET S : IsFiniteSet(U) /\ Cardinality(U) \in Nat /\ SumFunctionOnSet(f, U) \in Int
  <2> HIDE DEF f
  <2>1. QED
    BY <1>3, FS_Subset, FS_CardinalityType, SumType
<1>5. T # {}
  <2> HIDE DEF f
  <2>1. SumFunctionOnSet(f, {}) = 0 /\ Cardinality({}) = 0
    BY SumEmpty, FS_EmptySet
  <2>2. QED
    BY <2>1
<1>6. PICK i \in T : TRUE
  BY <1>5
<1> DEFINE r == T \ {i}
<1> HIDE DEF f
<1>7. SumFunctionOnSet(f, T) = c + SumFunctionOnSet(f, r)
  BY <1>3, <1>4, SumAt
<1>8. r \in SUBSET S /\ r # T /\ r \subseteq T /\ Cardinality(r) = Cardinality(T) - 1
  BY <1>4, FS_RemoveElement
<1>9. Product(r)
  BY <1>2, <1>8
<1> HIDE DEF r
<1>10. Cardinality(T) \in Nat
  BY <1>4
<1>11. c * (Cardinality(T) - 1) = c * Cardinality(T) - c
  BY <1>10
<1>12. Product(T)
  BY <1>4, <1>7, <1>8, <1>9, <1>10, <1>11
<1>13. QED
  BY <1>12

LEMMA SumBound ==
    ASSUME NEW f, NEW S, IsFiniteSet(S), NEW least \in Int, NEW most \in Int,
           \A x \in S : f[x] \in least .. most
    PROVE  SumFunctionOnSet(f, S) \in (least * Cardinality(S)) .. (most * Cardinality(S))
<1> DEFINE low == [x \in S |-> least]
           high == [x \in S |-> most]
<1>1. \A x \in S : low[x] = least /\ high[x] = most
  OBVIOUS
<1>2. SumFunctionOnSet(low, S) = least * Cardinality(S)
  BY SumConstant
<1>3. SumFunctionOnSet(high, S) = most * Cardinality(S)
  BY SumConstant
<1> HIDE DEF low, high
<1>4. SumFunctionOnSet(low, S) <= SumFunctionOnSet(f, S)
  BY <1>1, SumMonotone
<1>5. SumFunctionOnSet(f, S) <= SumFunctionOnSet(high, S)
  BY <1>1, SumMonotone
<1>6. SumFunctionOnSet(f, S) \in Int
  BY SumType
<1>7. Cardinality(S) \in Nat
  BY FS_CardinalityType
<1>8. least * Cardinality(S) \in Int /\ most * Cardinality(S) \in Int
  BY <1>7
<1>9. QED
  BY <1>2, <1>3, <1>4, <1>5, <1>6, <1>8

(* What is left out of a sum of natural numbers does not make it greater.  *)
LEMMA SumOfPart ==
    ASSUME NEW f, NEW S, IsFiniteSet(S), NEW T \in SUBSET S, \A x \in S : f[x] \in Nat
    PROVE  SumFunctionOnSet(f, T) <= SumFunctionOnSet(f, S)
<1> DEFINE Above(U) == SumFunctionOnSet(f, T) <= SumFunctionOnSet(f, U)
           bad == {U \in SUBSET S : T \subseteq U /\ ~Above(U)}
<1>1. SUFFICES ASSUME bad # {} PROVE FALSE
  OBVIOUS
<1>2. PICK U \in bad : \A V \in bad : V \subseteq U => V = U
  <2> HIDE DEF bad
  <2>1. bad \in SUBSET (SUBSET S)
    BY DEF bad
  <2>2. QED
    BY <1>1, <2>1, LeastSubset
<1>3. \A V \in SUBSET S : IsFiniteSet(V) /\ SumFunctionOnSet(f, V) \in Int
  BY FS_Subset, SumType
<1>4. U # T
  BY <1>3
<1>5. PICK i \in U : i \notin T
  BY <1>4
<1> DEFINE r == U \ {i}
<1>6. SumFunctionOnSet(f, U) = f[i] + SumFunctionOnSet(f, r)
  BY <1>3, SumAt
<1>7. r \in SUBSET S /\ r # U /\ r \subseteq U /\ T \subseteq r
  BY <1>5
<1>8. Above(r)
  BY <1>2, <1>7
<1> HIDE DEF r
<1>9. Above(U)
  BY <1>3, <1>6, <1>7, <1>8
<1>10. QED
  BY <1>9

(* A common factor comes out of a sum.                                     *)
LEMMA SumScaled ==
    ASSUME NEW f, NEW g, NEW c \in Int, NEW S, IsFiniteSet(S),
           \A x \in S : f[x] \in Int /\ g[x] = c * f[x]
    PROVE  SumFunctionOnSet(g, S) = c * SumFunctionOnSet(f, S)
<1> DEFINE Scaled(T) == SumFunctionOnSet(g, T) = c * SumFunctionOnSet(f, T)
           bad == {T \in SUBSET S : ~Scaled(T)}
<1>1. SUFFICES ASSUME bad # {} PROVE FALSE
  <2>1. bad = {} => Scaled(S)
    OBVIOUS
  <2>2. QED
    BY <2>1
<1>2. PICK T \in bad : \A U \in bad : U \subseteq T => U = T
  <2> HIDE DEF bad
  <2>1. bad \in SUBSET (SUBSET S)
    BY DEF bad
  <2>2. QED
    BY <1>1, <2>1, LeastSubset
<1>3. \A x \in S : g[x] \in Int
  OBVIOUS
<1>4. \A U \in SUBSET S : /\ IsFiniteSet(U)
                          /\ SumFunctionOnSet(f, U) \in Int /\ SumFunctionOnSet(g, U) \in Int
  BY <1>3, FS_Subset, SumType
<1>5. T # {}
  BY SumEmpty
<1>6. PICK i \in T : TRUE
  BY <1>5
<1> DEFINE r == T \ {i}
<1>7. SumFunctionOnSet(f, T) = f[i] + SumFunctionOnSet(f, r)
  BY <1>4, SumAt
<1>8. SumFunctionOnSet(g, T) = g[i] + SumFunctionOnSet(g, r)
  BY <1>3, <1>4, SumAt
<1>9. r \in SUBSET S /\ r # T /\ r \subseteq T
  OBVIOUS
<1>10. Scaled(r)
  BY <1>2, <1>9
<1> DEFINE a == f[i]
           b == SumFunctionOnSet(f, r)
<1>11. a \in Int /\ b \in Int /\ g[i] = c * a
  BY <1>4, <1>9
<1> HIDE DEF r, a, b
<1>12. c * (a + b) = c * a + c * b
  BY <1>11
<1>13. Scaled(T)
  BY <1>7, <1>8, <1>10, <1>11, <1>12 DEF a, b
<1>14. QED
  BY <1>13

LEMMA SumEqual ==
    ASSUME NEW f, NEW g, NEW S, IsFiniteSet(S), \A x \in S : f[x] \in Int /\ f[x] = g[x]
    PROVE  SumFunctionOnSet(f, S) = SumFunctionOnSet(g, S)
<1>1. SumFunctionOnSet(f, S) <= SumFunctionOnSet(g, S)
  BY SumMonotone
<1>2. SumFunctionOnSet(g, S) <= SumFunctionOnSet(f, S)
  BY SumMonotone
<1>3. SumFunctionOnSet(f, S) \in Int /\ SumFunctionOnSet(g, S) \in Int
  BY SumType
<1>4. QED
  BY <1>1, <1>2, <1>3

-----------------------------------------------------------------------------
(* Quotients.                                                              *)
LEMMA DivType == ASSUME NEW a \in Int, NEW b \in Nat \ {0} PROVE a \div b \in Int
OBVIOUS

LEMMA DivBound ==
    ASSUME NEW a \in Nat, NEW b \in Nat \ {0}, NEW c \in Nat, a <= b * c
    PROVE  a \div b \in 0 .. c
<1> DEFINE q == a \div b
<1>1. q \in Int /\ b * q <= a /\ a < b * (q + 1)
  OBVIOUS
<1> HIDE DEF q
<1>2. ~(q < 0)
  <2>1. SUFFICES ASSUME q + 1 <= 0 PROVE FALSE
    BY <1>1
  <2>2. b * (q + 1) <= 0
    BY <1>1, <2>1
  <2>3. QED
    BY <1>1, <2>2
<1>3. ~(q > c)
  <2>1. SUFFICES ASSUME q >= c + 1 PROVE FALSE
    BY <1>1
  <2>2. b * q >= b * (c + 1)
    BY <1>1, <2>1
  <2>3. b * (c + 1) = b * c + b
    OBVIOUS
  <2>4. b * q \in Int /\ b * c \in Int
    BY <1>1
  <2> DEFINE bq == b * q
             bc == b * c
             bc1 == b * (c + 1)
  <2> HIDE DEF bq, bc, bc1
  <2>5. bq <= a /\ a <= bc /\ bq >= bc1 /\ bc1 = bc + b /\ bq \in Int /\ bc \in Int
    BY <1>1, <2>2, <2>3, <2>4 DEF bq, bc, bc1
  <2>6. QED
    BY <2>5
<1>4. QED
  BY <1>1, <1>2, <1>3 DEF q

(* A share: a part of a finite set over its size.                          *)
LEMMA ShareBound ==
    ASSUME NEW n \in Nat, NEW m \in Nat \ {0}, n <= m
    PROVE  (n * One) \div m \in Score
<1>1. n * One \in Nat /\ One \in Nat /\ n * One <= m * One
  BY SMT DEF One
<1>2. QED
  BY <1>1, DivBound DEF Score

-----------------------------------------------------------------------------
(* Extremes of a finite set of integers.                                   *)
LEMMA MaxExists ==
    ASSUME NEW S, IsFiniteSet(S), \A x \in S : x \in Int, S # {}
    PROVE  Max(S) \in S /\ \A y \in S : Max(S) >= y
<1> DEFINE HasMax(T) == \E x \in T : \A y \in T : x >= y
           bad == {T \in SUBSET S : T # {} /\ ~HasMax(T)}
<1>1. SUFFICES ASSUME bad # {} PROVE FALSE
  <2>1. bad = {} => HasMax(S)
    OBVIOUS
  <2>2. QED
    BY <2>1 DEF Max
<1>2. PICK T \in bad : \A U \in bad : U \subseteq T => U = T
  <2> HIDE DEF bad, HasMax
  <2>1. bad \in SUBSET (SUBSET S)
    BY DEF bad
  <2>2. QED
    BY <1>1, <2>1, LeastSubset
<1>3. PICK i \in T : TRUE
  OBVIOUS
<1> DEFINE r == T \ {i}
<1>4. r \in SUBSET S /\ r # T /\ r \subseteq T
  BY <1>3
<1>5. r # {}
  BY <1>3
<1>6. PICK m \in r : \A y \in r : m >= y
  BY <1>2, <1>4, <1>5
<1>7. i \in Int /\ m \in Int /\ m \in T /\ \A y \in T : y = i \/ m >= y
  BY <1>3, <1>6
<1>8. CASE i >= m
  <2>1. \A y \in T : i >= y
    BY <1>7, <1>8
  <2>2. QED
    BY <1>3, <2>1
<1>9. CASE m >= i
  <2>1. \A y \in T : m >= y
    BY <1>7, <1>9
  <2>2. QED
    BY <1>7, <2>1
<1>10. QED
  BY <1>7, <1>8, <1>9

LEMMA MinExists ==
    ASSUME NEW S, IsFiniteSet(S), \A x \in S : x \in Int, S # {}
    PROVE  Min(S) \in S /\ \A y \in S : Min(S) <= y
<1> DEFINE HasMin(T) == \E x \in T : \A y \in T : x <= y
           bad == {T \in SUBSET S : T # {} /\ ~HasMin(T)}
<1>1. SUFFICES ASSUME bad # {} PROVE FALSE
  <2>1. bad = {} => HasMin(S)
    OBVIOUS
  <2>2. QED
    BY <2>1 DEF Min
<1>2. PICK T \in bad : \A U \in bad : U \subseteq T => U = T
  <2> HIDE DEF bad, HasMin
  <2>1. bad \in SUBSET (SUBSET S)
    BY DEF bad
  <2>2. QED
    BY <1>1, <2>1, LeastSubset
<1>3. PICK i \in T : TRUE
  OBVIOUS
<1> DEFINE r == T \ {i}
<1>4. r \in SUBSET S /\ r # T /\ r \subseteq T
  BY <1>3
<1>5. r # {}
  BY <1>3
<1>6. PICK m \in r : \A y \in r : m <= y
  BY <1>2, <1>4, <1>5
<1>7. i \in Int /\ m \in Int /\ m \in T /\ \A y \in T : y = i \/ m <= y
  BY <1>3, <1>6
<1>8. CASE i <= m
  <2>1. \A y \in T : i <= y
    BY <1>7, <1>8
  <2>2. QED
    BY <1>3, <2>1
<1>9. CASE m <= i
  <2>1. \A y \in T : m <= y
    BY <1>7, <1>9
  <2>2. QED
    BY <1>7, <2>1
<1>10. QED
  BY <1>7, <1>8, <1>9

LEMMA ScoresFinite ==
    /\ IsFiniteSet(Score)
    /\ \A S \in SUBSET Score : IsFiniteSet(S)
<1>1. One \in Int
  BY DEF One
<1>2. IsFiniteSet(0 .. One)
  BY <1>1, FS_Interval
<1>3. IsFiniteSet(Score)
  BY <1>2 DEF Score
<1>4. QED
  BY <1>3, FS_Subset

LEMMA ExtremeScores ==
    ASSUME NEW S \in SUBSET Score, S # {}
    PROVE  Max(S) \in Score /\ Min(S) \in Score /\ \A y \in S : Max(S) >= y /\ Min(S) <= y
<1>1. IsFiniteSet(S) /\ S \in SUBSET Int
  BY ScoresFinite DEF Score
<1>2. QED
  BY <1>1, MaxExists, MinExists

-----------------------------------------------------------------------------
(* Scores stay scores.                                                     *)
LEMMA ScoreOps ==
    /\ One \in Nat
    /\ \A x \in Int : Clamp(x) \in Score
    /\ \A x, y \in Score : AtLeast(x, y) \in Score /\ AtMost(x, y) \in Score
    /\ \A x \in Score, y \in Nat : AtMost(x, y) \in Score /\ AtMost(y, x) \in Score
    /\ \A x \in Score, y \in Int : y <= One => AtLeast(x, y) \in Score /\ AtLeast(y, x) \in Score
<1>1. One \in Nat
  BY DEF One
<1>2. \A x \in Int : Clamp(x) \in Score
  BY <1>1 DEF Clamp, AtLeast, AtMost, Score
<1>3. \A x, y \in Score : AtLeast(x, y) \in Score /\ AtMost(x, y) \in Score
  BY <1>1 DEF AtLeast, AtMost, Score
<1>4. \A x \in Score, y \in Nat : AtMost(x, y) \in Score /\ AtMost(y, x) \in Score
  BY <1>1 DEF AtMost, Score
<1>5. \A x \in Score, y \in Int : y <= One => AtLeast(x, y) \in Score /\ AtLeast(y, x) \in Score
  BY <1>1 DEF AtLeast, Score
<1>6. QED
  BY <1>1, <1>2, <1>3, <1>4, <1>5

LEMMA ScoreRange ==
    /\ \A x \in Score : x \in Int /\ 0 <= x /\ x <= 60000
    /\ \A x \in Int : 0 <= x /\ x <= 60000 => x \in Score
<1>1. One \in Int
  BY DEF One
<1>2. \A x : x \in Score <=> x \in Int /\ 0 <= x /\ x <= One
  BY <1>1 DEF Score
<1>3. One = 60000
  BY DEF One
<1>4. QED
  BY <1>2, <1>3

LEMMA ExtremeInt == \A x, y \in Int : AtLeast(x, y) \in Int /\ AtMost(x, y) \in Int
BY DEF AtLeast, AtMost

LEMMA AbsType == \A x \in Int : AbsOf(x) \in Nat
BY DEF AbsOf

LEMMA PctType == \A p \in Int : Pct(p) \in Int /\ Degrees(p) \in Int
BY DEF Pct, Degrees

LEMMA PartType == \A p, x \in Int : Part(p, x) \in Int
<1>1. \A x, p \in Int : p * x \in Int
  OBVIOUS
<1>2. \A y \in Int : y \div 100 \in Int
  OBVIOUS
<1>3. QED
  BY <1>1, <1>2 DEF Part

(* p hundredths of a score are at most p percent.                          *)
LEMMA PartBound ==
    ASSUME NEW p \in 0 .. 100, NEW x \in Score
    PROVE  Part(p, x) \in Int /\ 0 <= Part(p, x) /\ Part(p, x) <= Pct(p)
<1>1. x \in Nat /\ x <= One /\ One = 60000
  <2>1. One \in Nat
    BY DEF One
  <2>2. x \in Nat /\ x <= One
    BY <2>1 DEF Score
  <2>3. QED
    BY <2>2 DEF One
<1> DEFINE y == p * x
<1>2. y \in Nat /\ y <= p * 60000
  <2>1. p \in Nat /\ 60000 - x \in Nat
    BY <1>1
  <2>2. \A u, v \in Nat : u * v \in Nat
    OBVIOUS
  <2>3. p * (60000 - x) \in Nat /\ p * x \in Nat
    BY <1>1, <2>1, <2>2
  <2>4. p * (60000 - x) = p * 60000 - p * x
    BY <1>1, <2>1
  <2>5. QED
    BY <2>3, <2>4
<1> HIDE DEF y
<1>3. 600 * p \in Nat /\ y <= 100 * (600 * p)
  BY <1>2
<1>4. y \div 100 \in 0 .. (600 * p)
  BY <1>2, <1>3, DivBound
<1>5. QED
  BY <1>4 DEF Part, Pct, y

LEMMA TimesScore == ASSUME NEW a \in Score, NEW b \in Score PROVE Times(a, b) \in Score
<1> DEFINE x == a \div 60
           y == b \div 60
<1>1. x \in 0 .. 1000 /\ y \in 0 .. 1000
  <2>1. One \in Nat /\ One <= 60 * 1000
    BY DEF One
  <2>2. \A s \in Score : s \in Nat /\ s <= One
    BY <2>1 DEF Score
  <2>3. \A s \in Score : s <= 60 * 1000
    BY <2>1, <2>2
  <2>4. \A s \in Score : s \div 60 \in 0 .. 1000
    <3> SUFFICES ASSUME NEW s \in Score PROVE s \div 60 \in 0 .. 1000
      OBVIOUS
    <3>1. s \in Nat /\ s <= 60 * 1000
      BY <2>2, <2>3
    <3>2. QED
      BY <3>1, DivBound
  <2>5. QED
    BY <2>4
<1> HIDE DEF x, y
<1>2. y >= 0 /\ 1000 - y >= 0 /\ x >= 0 /\ x \in Int /\ y \in Int
  BY <1>1, SMT
<1>3. x * (1000 - y) >= 0 /\ x * y >= 0
  BY <1>2, SMT
<1>4. x * (1000 - y) = x * 1000 - x * y /\ x * y \in Int
  BY <1>2, SMT
<1> DEFINE z == x * y
<1>5. z \in Int /\ z >= 0 /\ z <= x * 1000
  BY <1>2, <1>3, <1>4, SMT
<1> HIDE DEF z
<1>6. z * 6 \in Nat /\ z * 6 <= 100 * One
  <2>1. x * 1000 <= 1000000 /\ x * 1000 \in Int
    BY <1>1, SMT
  <2>2. z <= 1000000
    BY <1>5, <2>1, SMT
  <2>3. QED
    BY <1>5, <2>2, SMT DEF One
<1>7. (z * 6) \div 100 \in 0 .. One
  <2> DEFINE zz == z * 6
  <2>1. zz \in Nat /\ zz <= 100 * One /\ One \in Nat
    BY <1>6, ScoreOps
  <2> HIDE DEF zz
  <2>2. zz \div 100 \in 0 .. One
    BY <2>1, DivBound
  <2>3. QED
    BY <2>2 DEF zz
<1>8. QED
  BY <1>7 DEF Times, Score, x, y, z

LEMMA MeanType ==
    ASSUME NEW s, IsFiniteSet(DOMAIN s), DOMAIN s # {}, \A i \in DOMAIN s : s[i] \in Int
    PROVE  Mean(s) \in Int
<1>1. SumFunctionOnSet(s, DOMAIN s) \in Int
  BY SumType
<1>2. Cardinality(DOMAIN s) \in Nat \ {0}
  BY FS_CardinalityType, FS_EmptySet
<1>3. QED
  BY <1>1, <1>2, DivType DEF Mean, SumFunction

LEMMA MeanBound ==
    ASSUME NEW s, IsFiniteSet(DOMAIN s), DOMAIN s # {}, NEW most \in Nat,
           \A i \in DOMAIN s : s[i] \in 0 .. most
    PROVE  Mean(s) \in 0 .. most
<1>1. SumFunctionOnSet(s, DOMAIN s) \in (0 * Cardinality(DOMAIN s)) .. (most * Cardinality(DOMAIN s))
  BY SumBound
<1>2. Cardinality(DOMAIN s) \in Nat \ {0}
  BY FS_CardinalityType, FS_EmptySet
<1> DEFINE n == Cardinality(DOMAIN s)
           total == SumFunctionOnSet(s, DOMAIN s)
<1> HIDE DEF n, total
<1>3. total \in Nat /\ n \in Nat \ {0} /\ total <= n * most
  <2>1. 0 * n = 0 /\ most * n = n * most /\ most * n \in Nat
    BY <1>2 DEF n
  <2>2. total \in (0 * n) .. (most * n)
    BY <1>1 DEF n, total
  <2>3. QED
    BY <1>2, <2>1, <2>2 DEF n
<1>4. total \div n \in 0 .. most
  BY <1>3, DivBound
<1>5. QED
  BY <1>4 DEF Mean, SumFunction, n, total

LEMMA MeanScore ==
    ASSUME NEW s, IsFiniteSet(DOMAIN s), DOMAIN s # {}, \A i \in DOMAIN s : s[i] \in Score
    PROVE  Mean(s) \in Score
<1>1. One \in Nat
  BY DEF One
<1>2. QED
  BY <1>1, MeanBound DEF Score

-----------------------------------------------------------------------------
(* Filtered sequences.                                                     *)

(* In a finite set of integers, each rank is somebody's.                   *)
LEMMA RankExists ==
    ASSUME NEW P, IsFiniteSet(P), \A x \in P : x \in Int, NEW k \in 1 .. Cardinality(P)
    PROVE  \E i \in P : Cardinality({j \in P : j <= i}) = k
<1> DEFINE UpTo(Q, i) == {j \in Q : j <= i}
           Ranked(Q) == \A n \in 1 .. Cardinality(Q) : \E i \in Q : Cardinality(UpTo(Q, i)) = n
           bad == {Q \in SUBSET P : ~Ranked(Q)}
<1>1. SUFFICES ASSUME bad # {} PROVE FALSE
  <2>1. bad = {} => Ranked(P)
    OBVIOUS
  <2>2. QED
    BY <2>1
<1>2. PICK T \in bad : \A U \in bad : U \subseteq T => U = T
  <2> HIDE DEF bad, Ranked
  <2>1. bad \in SUBSET (SUBSET P)
    BY DEF bad
  <2>2. QED
    BY <1>1, <2>1, LeastSubset
<1>3. IsFiniteSet(T) /\ T \in SUBSET Int
  BY FS_Subset
<1>4. PICK n \in 1 .. Cardinality(T) : \A i \in T : Cardinality(UpTo(T, i)) # n
  BY <1>2
<1>5. T # {}
  BY <1>4, FS_EmptySet
<1> DEFINE m == Max(T)
           r == T \ {m}
<1>6. m \in T /\ \A y \in T : m >= y
  BY <1>3, <1>5, MaxExists
<1> HIDE DEF m
<1>7. UpTo(T, m) = T
  BY <1>6
<1>8. /\ Cardinality(r) = Cardinality(T) - 1 /\ Cardinality(T) \in Nat
      /\ r \in SUBSET P /\ r # T /\ r \subseteq T
  BY <1>3, <1>6, FS_RemoveElement, FS_CardinalityType
<1>9. n # Cardinality(T)
  BY <1>4, <1>6, <1>7
<1>10. n \in 1 .. Cardinality(r)
  BY <1>4, <1>8, <1>9
<1>11. Ranked(r)
  BY <1>2, <1>8
<1>12. PICK i \in r : Cardinality(UpTo(r, i)) = n
  BY <1>10, <1>11
<1>13. UpTo(T, i) = UpTo(r, i)
  <2>1. i \in Int /\ m \in Int /\ m >= i /\ m # i
    BY <1>3, <1>6, <1>12
  <2>2. ~(m <= i)
    BY <2>1
  <2>3. QED
    BY <2>2
<1>14. QED
  BY <1>4, <1>12, <1>13

LEMMA PickedMembers ==
    ASSUME NEW s, NEW P \in SUBSET Int, IsFiniteSet(P)
    PROVE  /\ Cardinality(P) \in Nat
           /\ DOMAIN Picked(s, P) = 1 .. Cardinality(P)
           /\ \A k \in 1 .. Cardinality(P) : \E i \in P : Picked(s, P)[k] = s[i]
<1>1. ASSUME NEW k \in 1 .. Cardinality(P)
      PROVE  \E i \in P : Picked(s, P)[k] = s[i]
  <2> DEFINE c == CHOOSE i \in P : Cardinality({j \in P : j <= i}) = k
  <2>1. c \in P
    BY RankExists
  <2>2. Picked(s, P)[k] = s[c]
    BY DEF Picked
  <2>3. QED
    BY <2>1, <2>2
<1>2. QED
  BY <1>1, FS_CardinalityType DEF Picked

LEMMA PickedType ==
    ASSUME NEW S, NEW s \in Seq(S), NEW P \in SUBSET (DOMAIN s)
    PROVE  /\ Picked(s, P) \in Seq(S)
           /\ Len(Picked(s, P)) = Cardinality(P)
           /\ \A k \in 1 .. Cardinality(P) : \E i \in P : Picked(s, P)[k] = s[i]
<1>1. IsFiniteSet(DOMAIN s) /\ DOMAIN s \subseteq Int
  BY FS_Interval
<1>2. IsFiniteSet(P) /\ P \in SUBSET Int
  BY <1>1, FS_Subset
<1>3. /\ Cardinality(P) \in Nat
      /\ DOMAIN Picked(s, P) = 1 .. Cardinality(P)
      /\ \A k \in 1 .. Cardinality(P) : \E i \in P : Picked(s, P)[k] = s[i]
  BY <1>2, PickedMembers
<1> DEFINE q == Picked(s, P)
<1>4. q = [k \in 1 .. Cardinality(P) |-> q[k]]
  BY DEF Picked
<1>5. \A k \in 1 .. Cardinality(P) : q[k] \in S
  BY <1>3
<1> HIDE DEF q
<1>6. q \in Seq(S) /\ Len(q) = Cardinality(P)
  BY <1>3, <1>4, <1>5
<1>7. QED
  BY <1>3, <1>6 DEF q

-----------------------------------------------------------------------------
(* How a challenge is judged: the measures are integers, the scores are     *)
(* clamped.                                                                *)
LEMMA WithinType ==
    ASSUME NEW S, NEW s \in Seq(S), NEW from, NEW until
    PROVE  Within(s, from, until) \in Seq(S)
BY PickedType DEF Within, Passing

LEMMA SequenceOf ==
    ASSUME NEW R, NEW s \in Seq(R)
    PROVE  /\ IsFiniteSet(DOMAIN s) /\ DOMAIN s = 1 .. Len(s) /\ Len(s) \in Nat
           /\ \A i \in 1 .. Len(s) : s[i] \in R
<1>1. Len(s) \in Nat /\ DOMAIN s = 1 .. Len(s) /\ \A i \in 1 .. Len(s) : s[i] \in R
  OBVIOUS
<1>2. QED
  BY <1>1, FS_Interval

LEMMA GyroSample ==
    ASSUME NEW s \in GyroSamples
    PROVE  /\ IsFiniteSet(DOMAIN s) /\ DOMAIN s = 1 .. Len(s) /\ Len(s) \in Nat
           /\ \A i \in 1 .. Len(s) : s[i].at \in Int /\ s[i].rate \in Int
<1> DEFINE R == [at : Int, rate : Int]
<1>1. s \in Seq(R)
  BY DEF GyroSamples
<1>2. \A r \in R : r.at \in Int /\ r.rate \in Int
  OBVIOUS
<1> HIDE DEF R
<1>3. QED
  BY <1>1, <1>2, SequenceOf

LEMMA DebiasedType ==
    ASSUME NEW s \in GyroSamples, NEW from
    PROVE  /\ DOMAIN Debiased(s, from) = 1 .. Len(s)
           /\ \A i \in 1 .. Len(s) : Debiased(s, from)[i] \in Int
<1>1. Bias(s, from) \in Int
  <2> DEFINE baseline == Within(s, from, from + BaselineMs)
             rates == [i \in DOMAIN baseline |-> baseline[i].rate]
  <2>1. baseline \in GyroSamples
    BY WithinType DEF GyroSamples
  <2>2. Bias(s, from) = IF baseline = <<>> THEN 0 ELSE Mean(rates)
    BY DEF Bias
  <2> HIDE DEF baseline
  <2>3. ASSUME baseline # <<>> PROVE Mean(rates) \in Int
    <3>1. DOMAIN rates = DOMAIN baseline /\ IsFiniteSet(DOMAIN rates) /\ DOMAIN rates # {}
      BY <2>1, <2>3, GyroSample DEF GyroSamples
    <3>2. \A i \in DOMAIN rates : rates[i] \in Int
      BY <2>1, <3>1, GyroSample
    <3> HIDE DEF rates
    <3>3. QED
      BY <3>1, <3>2, MeanType
  <2>4. QED
    BY <2>2, <2>3
<1>2. QED
  BY <1>1, GyroSample DEF Debiased

(* A rest begins after the onset and ends within the samples.              *)
LEMMA RestType ==
    ASSUME NEW s \in GyroSamples, NEW rates, NEW onset \in 1 .. Len(s)
    PROVE  RestAfter(s, rates, onset) \in Maybe(onset .. Len(s))
<1> DEFINE Rested(i) ==
               {j \in i .. Len(s) : /\ s[j].at - s[i].at >= SettlingMs
                                    /\ \A k \in i .. j : AbsOf(rates[k]) <= SettleThreshold}
           begins == {i \in onset + 1 .. Len(s) : Rested(i) # {}}
<1>1. RestAfter(s, rates, onset) = IF begins = {} THEN NoMeasure ELSE Min(Rested(Min(begins)))
  BY DEF RestAfter
<1>2. Len(s) \in Nat
  BY GyroSample
<1>3. ASSUME begins # {} PROVE Min(Rested(Min(begins))) \in onset .. Len(s)
  <2>1. IsFiniteSet(onset + 1 .. Len(s)) /\ begins \subseteq onset + 1 .. Len(s)
    BY <1>2, FS_Interval
  <2>2. IsFiniteSet(begins) /\ \A x \in begins : x \in Int
    BY <2>1, FS_Subset
  <2> DEFINE b == Min(begins)
  <2>3. b \in begins
    <3> HIDE DEF begins
    <3>1. QED
      BY <1>3, <2>2, MinExists
  <2> HIDE DEF b
  <2>4. b \in onset + 1 .. Len(s) /\ Rested(b) # {}
    BY <2>3
  <2>5. IsFiniteSet(b .. Len(s)) /\ Rested(b) \subseteq b .. Len(s)
    BY <1>2, <2>4, FS_Interval
  <2>6. IsFiniteSet(Rested(b)) /\ \A x \in Rested(b) : x \in Int
    BY <2>4, <2>5, FS_Subset
  <2>7. Min(Rested(b)) \in Rested(b)
    <3> HIDE DEF Rested
    <3>1. QED
      BY <2>4, <2>6, MinExists
  <2>8. Min(Rested(b)) \in b .. Len(s)
    BY <2>5, <2>7
  <2>9. QED
    <3> HIDE DEF Rested
    <3>1. QED
      BY <1>2, <2>4, <2>8 DEF b
<1>4. QED
  BY <1>1, <1>3 DEF Maybe

(* The first sample of a motion.                                           *)
LEMMA OnsetType ==
    ASSUME NEW n \in Nat, NEW rates, DOMAIN rates = 1 .. n, Fast(rates) # {}
    PROVE  Min(Fast(rates)) \in 1 .. n /\ Max(Fast(rates)) \in 1 .. n
<1>1. IsFiniteSet(1 .. n) /\ Fast(rates) \subseteq 1 .. n
  BY FS_Interval DEF Fast
<1>2. IsFiniteSet(Fast(rates)) /\ \A x \in Fast(rates) : x \in Int
  BY <1>1, FS_Subset
<1>3. QED
  BY <1>1, <1>2, MinExists, MaxExists

LEMMA TurnedType ==
    ASSUME NEW s \in GyroSamples, NEW rates, \A i \in 1 .. Len(s) : rates[i] \in Int,
           NEW first \in 1 .. Len(s), NEW last \in first .. Len(s)
    PROVE  Turned(s, rates, first, last) \in Int
<1> DEFINE areas == [i \in first .. (last - 1) |->
                        (rates[i] + rates[i + 1]) * (s[i + 1].at - s[i].at)]
<1>1. IsFiniteSet(first .. (last - 1)) /\ Len(s) \in Nat
  BY FS_Interval, GyroSample
<1>2. ASSUME NEW i \in first .. (last - 1) PROVE areas[i] \in Int
  <2>1. i \in 1 .. Len(s) /\ i + 1 \in 1 .. Len(s)
    BY <1>1
  <2>2. rates[i] + rates[i + 1] \in Int /\ s[i + 1].at - s[i].at \in Int
    BY <2>1, GyroSample
  <2>3. \A u, v \in Int : u * v \in Int
    OBVIOUS
  <2>4. QED
    BY <2>2, <2>3
<1>3. DOMAIN areas = first .. (last - 1)
  OBVIOUS
<1>4. Turned(s, rates, first, last) = (SumFunctionOnSet(areas, DOMAIN areas) * 573) \div 200000
  BY DEF Turned, SumFunction
<1> HIDE DEF areas
<1>5. SumFunctionOnSet(areas, DOMAIN areas) \in Int
  BY <1>1, <1>2, <1>3, SumType
<1>6. \A u \in Int : (u * 573) \div 200000 \in Int
  OBVIOUS
<1>7. QED
  BY <1>4, <1>5, <1>6

LEMMA IntegratedType ==
    ASSUME NEW s \in GyroSamples
    PROVE  /\ Integrated(s).angle \in Int
           /\ Integrated(s).from \in Maybe(Int) /\ Integrated(s).until \in Maybe(Int)
           /\ Known(Integrated(s).from) => Integrated(s).from \in Int /\ Integrated(s).until \in Int
<1> DEFINE rates == Debiased(s, s[1].at)
           onset == Min(Fast(rates))
           rest == RestAfter(s, rates, onset)
           last == IF Known(rest) THEN rest ELSE Len(s)
<1>1. CASE Fast(rates) = {}
  <2>1. Integrated(s) = NoMotion
    BY <1>1 DEF Integrated
  <2>2. QED
    BY <2>1 DEF NoMotion, Maybe, Known
<1>2. CASE Fast(rates) # {}
  <2>1. Integrated(s) = [angle |-> Turned(s, rates, onset, last), from |-> s[onset].at, until |-> s[last].at]
    BY <1>2 DEF Integrated
  <2>2. DOMAIN rates = 1 .. Len(s) /\ Len(s) \in Nat /\ \A i \in 1 .. Len(s) : rates[i] \in Int
    BY DebiasedType, GyroSample
  <2> HIDE DEF rates
  <2>3. onset \in 1 .. Len(s)
    BY <1>2, <2>2, OnsetType
  <2> HIDE DEF onset
  <2>4. rest \in Maybe(onset .. Len(s))
    BY <2>3, RestType
  <2> HIDE DEF rest
  <2>5. last \in onset .. Len(s)
    BY <2>2, <2>3, <2>4 DEF Known, Maybe
  <2> HIDE DEF last
  <2>6. Turned(s, rates, onset, last) \in Int
    BY <2>2, <2>3, <2>5, TurnedType
  <2>7. s[onset].at \in Int /\ s[last].at \in Int
    BY <2>2, <2>3, <2>5, GyroSample
  <2>8. QED
    BY <2>1, <2>6, <2>7 DEF Maybe
<1>3. QED
  BY <1>1, <1>2

TakeType(t) ==
    /\ t.kind \in ChallengeType /\ t.began \in Int /\ t.ended \in Int
    /\ t.asked.target \in Nat /\ t.asked.least \in Nat \ {0} /\ t.asked.most \in Nat \ {0}
    /\ t.gyro \in GyroSamples /\ t.rotation \in Maybe(Int) /\ t.correlation \in Maybe(Int)
    /\ t.film \in Footage

LEMMA TakeInputType == ASSUME NEW t \in TakeInput PROVE TakeType(t)
<1>1. t.asked \in AnglesAsked
  BY DEF TakeInput
<1>2. QED
  BY <1>1 DEF TakeInput, TakeType, AnglesAsked

OutcomeType(o) ==
    /\ o.result \in {"PASS", "INCONCLUSIVE", "FAIL"}
    /\ o.score \in Score /\ o.sensorScore \in Score /\ o.gyroGood \in BOOLEAN
    /\ o.angle \in Maybe(Int) /\ o.from \in Maybe(Int) /\ o.until \in Maybe(Int)
    /\ Known(o.from) => o.from \in Int /\ o.until \in Int

LEMMA ChallengeScoreType ==
    ASSUME NEW t, TakeType(t), NEW s \in GyroSamples, s # <<>>, NEW motion,
           motion.angle \in Int, NEW observed \in Int
    PROVE  ChallengeScore(t, s, motion, observed) \in Int /\ SensorScore(t, s, motion) \in Int
<1>1. DirectionOfMotion(observed) \in Int
  BY DEF DirectionOfMotion, One, Pct
<1>2. AngleScore(observed, t.asked) \in Int
  <2> DEFINE least == t.asked.least
             most == t.asked.most
             target == t.asked.target
             span == AtLeast(most - least, Degrees(1))
  <2>1. least \in Nat \ {0} /\ most \in Nat \ {0} /\ target \in Nat
    BY DEF TakeType
  <2>2. AngleScore(observed, t.asked) =
          IF observed <= 0 THEN 0
          ELSE IF observed < least THEN AtMost(Pct(70), (Pct(70) * observed) \div least)
          ELSE IF observed > most
          THEN AtLeast(0, Pct(75) - ((observed - most) * One) \div most)
          ELSE Pct(80) + Part(20, One - AtMost(One, (AbsOf(observed - target) * One) \div span))
    BY DEF AngleScore
  <2>3. span \in Nat \ {0}
    BY <2>1 DEF AtLeast, Degrees
  <2> HIDE DEF least, most, target, span
  <2>4. Pct(70) * observed \in Int /\ (observed - most) * One \in Int
        /\ AbsOf(observed - target) * One \in Int
    BY <2>1 DEF Pct, One, AbsOf
  <2>5. (Pct(70) * observed) \div least \in Int /\ ((observed - most) * One) \div most \in Int
        /\ (AbsOf(observed - target) * One) \div span \in Int
    BY <2>1, <2>3, <2>4, DivType
  <2>6. AtMost(Pct(70), (Pct(70) * observed) \div least) \in Int
    BY <2>5, PctType, PartType, ExtremeInt
  <2>7. AtLeast(0, Pct(75) - ((observed - most) * One) \div most) \in Int
    <3> DEFINE over == ((observed - most) * One) \div most
    <3>1. over \in Int
      BY <2>5
    <3> HIDE DEF over
    <3>2. AtLeast(0, Pct(75) - over) \in Int
      BY <3>1 DEF AtLeast, Pct
    <3>3. QED
      BY <3>2 DEF over
  <2>8. Pct(80) + Part(20, One - AtMost(One, (AbsOf(observed - target) * One) \div span)) \in Int
    <3> DEFINE off == (AbsOf(observed - target) * One) \div span
    <3>1. off \in Int /\ One \in Int
      BY <2>5, ScoreOps
    <3> HIDE DEF off
    <3>2. Pct(80) + Part(20, One - AtMost(One, off)) \in Int
      BY <3>1 DEF Part, Pct, AtMost
    <3>3. QED
      BY <3>2 DEF off
  <2>9. QED
    BY <2>2, <2>6, <2>7, <2>8
<1>3. Agreement(t, motion.angle) \in Int
  <2>1. ASSUME RotationKnown(t)
        PROVE  AtLeast(0, One - (SensorDifference(t, motion.angle) * One) \div AgreementTolerance) \in Int
    <3>1. t.rotation \in Int
      BY <2>1 DEF TakeType, RotationKnown, Known, Maybe
    <3>2. SensorDifference(t, motion.angle) \in Int
      BY <3>1 DEF SensorDifference, AbsOf
    <3>3. SensorDifference(t, motion.angle) * One \in Int /\ AgreementTolerance \in Nat \ {0}
      BY <3>2 DEF One, AgreementTolerance, Degrees
    <3>4. One - (SensorDifference(t, motion.angle) * One) \div AgreementTolerance \in Int
      BY <3>3, DivType, ScoreOps
    <3>5. QED
      BY <3>4, PctType, PartType, ExtremeInt
  <2>2. QED
    BY <2>1 DEF Agreement, Pct
<1>4. Timing(motion) \in Int
  <2>1. One \in Int /\ Pct(55) \in Int
    BY ScoreOps, PctType
  <2>2. Timing(motion) \in {One, Pct(55)}
    BY DEF Timing
  <2>3. QED
    BY <2>1, <2>2
<1>5. Smoothness(s) \in Int
  <2> DEFINE smooth == {i \in DOMAIN s : s[i].rate >= -30}
  <2>1. IsFiniteSet(DOMAIN s) /\ smooth \subseteq DOMAIN s /\ Len(s) \in Nat \ {0}
    <3>1. Len(s) # 0
      BY DEF GyroSamples
    <3>2. QED
      BY <3>1, GyroSample
  <2>2. Cardinality(smooth) * One \in Int
    <3> HIDE DEF smooth
    <3>1. Cardinality(smooth) \in Nat
      BY <2>1, FS_Subset, FS_CardinalityType
    <3>2. QED
      BY <3>1, ScoreOps
  <2>3. Smoothness(s) = (Cardinality(smooth) * One) \div Len(s)
    BY DEF Smoothness
  <2>4. QED
    BY <2>1, <2>2, <2>3, DivType
<1>6. ChallengeScore(t, s, motion, observed) \in Int
  <2> DEFINE d == DirectionOfMotion(observed)
             a == AngleScore(observed, t.asked)
             g == Agreement(t, motion.angle)
             w == Timing(motion)
             m == Smoothness(s)
  <2>1. d \in Int /\ a \in Int /\ g \in Int /\ w \in Int /\ m \in Int
    BY <1>1, <1>2, <1>3, <1>4, <1>5
  <2>2. ChallengeScore(t, s, motion, observed) =
          Part(45, d) + Part(20, a) + Part(10, g) + Part(10, w) + Part(15, m)
    BY DEF ChallengeScore
  <2> HIDE DEF d, a, g, w, m
  <2>3. Part(45, d) + Part(20, a) + Part(10, g) + Part(10, w) + Part(15, m) \in Int
    BY <2>1 DEF Part
  <2>4. QED
    BY <2>2, <2>3
<1>7. SensorScore(t, s, motion) \in Int
  <2>1. Part(60, Agreement(t, motion.angle)) \in Int
    BY <1>3, PctType, PartType, ExtremeInt
  <2>2. Part(40, IF SampleQuality(s) = "GOOD" THEN One ELSE Pct(60)) \in Int
    BY ScoreOps DEF Part, Pct
  <2>3. QED
    BY <2>1, <2>2 DEF SensorScore
<1>8. QED
  BY <1>6, <1>7

LEMMA ValidatedType ==
    ASSUME NEW t, TakeType(t)
    PROVE  OutcomeType(Validated(t))
<1> DEFINE s == Within(t.gyro, t.began, t.ended)
           motion == Integrated(s)
           observed == Observed(t, motion.angle)
           score == ChallengeScore(t, s, motion, observed)
<1>1. s \in GyroSamples
  BY WithinType DEF TakeType, GyroSamples
<1>2. 0 \in Score
  BY ScoreOps DEF Score
<1>3. CASE Len(s) < MinGyroSamples
  <2>1. Validated(t) = [NotValidated EXCEPT !.gyroGood = SampleQuality(s) = "GOOD"]
    BY <1>3 DEF Validated
  <2>2. QED
    BY <1>2, <2>1 DEF NotValidated, OutcomeType, Maybe, Known
<1>4. CASE ~(Len(s) < MinGyroSamples)
  <2>1. Validated(t) =
          [result |-> ResultOf(t, motion, observed, score), score |-> Clamp(score),
           sensorScore |-> Clamp(SensorScore(t, s, motion)),
           gyroGood |-> SampleQuality(s) = "GOOD",
           angle |-> observed, from |-> motion.from, until |-> motion.until]
    BY <1>4 DEF Validated
  <2>2. s # <<>>
    BY <1>1, <1>4 DEF MinGyroSamples
  <2> HIDE DEF s
  <2>3. /\ motion.angle \in Int /\ motion.from \in Maybe(Int) /\ motion.until \in Maybe(Int)
        /\ Known(motion.from) => motion.from \in Int /\ motion.until \in Int
    BY <1>1, IntegratedType
  <2> HIDE DEF motion
  <2>4. observed \in Int
    BY <2>3 DEF Observed, RotationKnown, TakeType, Known, Maybe
  <2> HIDE DEF observed
  <2>5. score \in Int /\ SensorScore(t, s, motion) \in Int
    BY <1>1, <2>2, <2>3, <2>4, ChallengeScoreType
  <2> HIDE DEF score
  <2>6. Clamp(score) \in Score /\ Clamp(SensorScore(t, s, motion)) \in Score
    BY <2>5, ScoreOps
  <2>7. ResultOf(t, motion, observed, score) \in {"PASS", "INCONCLUSIVE", "FAIL"}
    BY DEF ResultOf, ResultOfScore
  <2>8. QED
    BY <2>1, <2>3, <2>4, <2>6, <2>7 DEF OutcomeType, Maybe
<1>5. QED
  BY <1>3, <1>4

-----------------------------------------------------------------------------
(* What the analysis of a video measures.                                  *)
LEMMA ShareOfType ==
    ASSUME NEW part, IsFiniteSet(part), NEW whole \in Int
    PROVE  /\ ShareOf(part, whole) \in Int
           /\ Cardinality(part) <= AtLeast(1, whole) => ShareOf(part, whole) \in Score
<1> DEFINE n == Cardinality(part)
           m == AtLeast(1, whole)
<1>1. n \in Nat /\ m \in Nat \ {0}
  BY FS_CardinalityType DEF AtLeast
<1>2. ShareOf(part, whole) = (n * One) \div m
  BY DEF ShareOf
<1> HIDE DEF n, m
<1>3. n * One \in Int
  BY <1>1, ScoreOps
<1>4. (n * One) \div m \in Int
  BY <1>1, <1>3, DivType
<1>5. n <= m => (n * One) \div m \in Score
  BY <1>1, ShareBound
<1>6. QED
  BY <1>2, <1>4, <1>5 DEF n, m

LEMMA DuplicateShareType ==
    ASSUME NEW frames, Len(frames) \in Nat
    PROVE  DuplicateShare(frames) \in Score
<1> DEFINE n == Len(frames)
<1>1. IsFiniteSet(2 .. n) /\ Cardinality(2 .. n) = IF 2 > n THEN 0 ELSE n - 2 + 1
  BY FS_Interval
<1>2. Repeated(frames) \subseteq 2 .. n
  BY DEF Repeated, Pairs
<1>3. /\ IsFiniteSet(Repeated(frames)) /\ Cardinality(Repeated(frames)) <= Cardinality(2 .. n)
      /\ Cardinality(Repeated(frames)) \in Nat
  BY <1>1, <1>2, FS_Subset, FS_CardinalityType
<1>4. Cardinality(Repeated(frames)) <= AtLeast(1, n - 1) /\ n - 1 \in Int
  BY <1>1, <1>3 DEF AtLeast
<1>5. QED
  BY <1>3, <1>4, ShareOfType DEF DuplicateShare

LEMMA ClarityType == ASSUME NEW sharpness \in Nat PROVE Clarity(sharpness) \in Score
<1>1. CASE sharpness >= 30
  BY <1>1, ScoreOps DEF Clarity, Score
<1>2. CASE ~(sharpness >= 30) /\ sharpness >= 10
  <2> DEFINE y == Pct(35) * (sharpness - 10)
             q == y \div 20
  <2>1. Clarity(sharpness) = Pct(65) + q
    BY <1>2 DEF Clarity
  <2> DEFINE w == 20
             top == 21000
  <2>2. y \in Nat /\ w \in Nat \ {0} /\ top \in Nat /\ y <= w * top /\ q = y \div w
    BY <1>2 DEF Pct
  <2> HIDE DEF y, w, top, q
  <2>3. q \in 0 .. top
    BY <2>2, DivBound
  <2>4. Pct(65) + q \in Int /\ 0 <= Pct(65) + q /\ Pct(65) + q <= 60000
    BY <2>3 DEF Pct, top
  <2>5. QED
    BY <2>1, <2>4, ScoreRange
<1>3. CASE ~(sharpness >= 10)
  <2> DEFINE y == Pct(40) * sharpness
             q == y \div 10
  <2>1. Clarity(sharpness) = Pct(25) + q
    BY <1>3 DEF Clarity
  <2> DEFINE w == 10
             top == 24000
  <2>2. y \in Nat /\ w \in Nat \ {0} /\ top \in Nat /\ y <= w * top /\ q = y \div w
    BY <1>3 DEF Pct
  <2> HIDE DEF y, w, top, q
  <2>3. q \in 0 .. top
    BY <2>2, DivBound
  <2>4. Pct(25) + q \in Int /\ 0 <= Pct(25) + q /\ Pct(25) + q <= 60000
    BY <2>3 DEF Pct, top
  <2>5. QED
    BY <2>1, <2>4, ScoreRange
<1>4. QED
  BY <1>1, <1>2, <1>3

LEMMA ContinuityType ==
    ASSUME NEW film \in Footage, NEW frames \in Seq(VideoFrame)
    PROVE  Continuity(film, frames) \in Score
<1> DEFINE cut == {i \in Pairs(frames) : frames[i].cut}
           dark == {i \in DOMAIN frames : frames[i].black}
           cuts == AtMost(One, ShareOf(cut, AtLeast(1, (Len(frames) - 1) \div 3)))
           black == ShareOf(dark, Len(frames))
           same == DuplicateShare(frames)
           structural == Clamp(One - Part(45, same) - Part(30, cuts)
                               - Part(15, black) - Part(10, film.invalid))
           clear == Pct(75) + Part(25, Clarity(film.sharpness))
<1>1. Continuity(film, frames) = Times(structural, clear)
  BY DEF Continuity
<1>2. Len(frames) \in Nat /\ IsFiniteSet(DOMAIN frames) /\ DOMAIN frames = 1 .. Len(frames)
  BY SequenceOf
<1>3. IsFiniteSet(cut) /\ IsFiniteSet(dark)
  <2>1. cut \subseteq DOMAIN frames
    BY <1>2 DEF Pairs
  <2>2. QED
    BY <1>2, <2>1, FS_Subset
<1> HIDE DEF cut, dark
<1>4. cuts \in Int
  <2>1. AtLeast(1, (Len(frames) - 1) \div 3) \in Int
    BY <1>2 DEF AtLeast
  <2>2. ShareOf(cut, AtLeast(1, (Len(frames) - 1) \div 3)) \in Int
    BY <1>3, <2>1, ShareOfType
  <2>3. QED
    BY <2>2, ScoreOps, ExtremeInt
<1>5. black \in Int
  BY <1>2, <1>3, ShareOfType
<1>6. same \in Int /\ film.invalid \in Int
  <2>1. same \in Score /\ film.invalid \in Score
    BY <1>2, DuplicateShareType DEF Footage
  <2>2. QED
    BY <2>1 DEF Score
<1> HIDE DEF cuts, black, same
<1>7. structural \in Score
  <2>1. One - Part(45, same) - Part(30, cuts) - Part(15, black) - Part(10, film.invalid) \in Int
    BY <1>4, <1>5, <1>6, ScoreOps, SMTT(30) DEF Part
  <2>2. QED
    BY <2>1, ScoreOps
<1> HIDE DEF structural
<1>8. clear \in Score
  <2> DEFINE c == Part(25, Clarity(film.sharpness))
  <2>1. film.sharpness \in Nat
    BY DEF Footage
  <2>2. Clarity(film.sharpness) \in Score
    BY <2>1, ClarityType
  <2>3. c \in Int /\ 0 <= c /\ c <= Pct(25)
    BY <2>2, PartBound
  <2> HIDE DEF c
  <2>4. Pct(75) + c \in Int /\ 0 <= Pct(75) + c /\ Pct(75) + c <= 60000
    BY <2>3 DEF Pct
  <2>5. Pct(75) + c \in Score
    BY <2>4, ScoreRange
  <2>6. QED
    BY <2>5 DEF c
<1>9. QED
  <2> HIDE DEF clear
  <2>1. QED
    BY <1>1, <1>7, <1>8, TimesScore

LEMMA RobustType ==
    ASSUME NEW s \in Seq(Int)
    PROVE  Robust(s) \in Seq(Int)
<1> DEFINE center == Median(s)
           spread == Median([i \in DOMAIN s |-> AbsOf(s[i] - center)])
           kept == {i \in DOMAIN s : 100 * AbsOf(s[i] - center) <= AtLeast(2500, 519 * spread)}
<1>1. Picked(s, kept) \in Seq(Int)
  <2>1. kept \in SUBSET (DOMAIN s)
    OBVIOUS
  <2> HIDE DEF kept
  <2>2. QED
    BY <2>1, PickedType
<1>2. Robust(s) = s \/ Robust(s) = Picked(s, kept)
  BY DEF Robust, Passing
<1>3. QED
  BY <1>1, <1>2

LEMMA SumOfSequence ==
    ASSUME NEW s \in Seq(Int)
    PROVE  SumFunction(s) \in Int
<1>1. IsFiniteSet(DOMAIN s) /\ \A i \in DOMAIN s : s[i] \in Int
  BY SequenceOf
<1>2. QED
  BY <1>1, SumType DEF SumFunction

RowType(row) ==
    /\ row.status \in VisualStatus
    /\ row.confidence \in Score /\ row.continuity \in Score
    /\ row.duplicate \in Score /\ row.invalid \in Score
    /\ row.angle \in Maybe(Nat) /\ row.start \in Maybe(Int) /\ row.end \in Maybe(Int)

LEMMA BlankRowType == ASSUME NEW status \in VisualStatus PROVE RowType(BlankRow(status))
BY ScoreOps DEF BlankRow, RowType, Maybe, Score

RowFields == {"status", "direction", "angle", "start", "end", "confidence", "quality", "continuity",
              "duplicate", "invalid", "freeze", "window"}
LEMMA VideoRowType ==
    ASSUME NEW t, TakeType(t), NEW o
    PROVE  RowType(VideoRow(t, o)) /\ DOMAIN VideoRow(t, o) = RowFields
<1> DEFINE film == t.film
           window == AnalysisWindow(t, o)
           frames == FramesIn(t, window)
           continuity == Continuity(film, frames)
           duplicate == DuplicateShare(frames)
           Measured(status) ==
               [BlankRow(status) EXCEPT !.continuity = continuity, !.duplicate = duplicate,
                   !.invalid = film.invalid, !.freeze = Freeze(frames), !.window = window]
           quality == QualityOf(film, continuity)
           found == Passing(Tail(frames), LAMBDA f : Known(f.moved))
           usable == Passing(found, LAMBDA f : f.moved.inliers >= MinInliers)
           inliers == Mean([i \in DOMAIN usable |-> usable[i].moved.inliers])
           coverage == Mean([i \in DOMAIN usable |-> usable[i].moved.coverage])
           shifts == Robust([i \in DOMAIN usable |-> usable[i].moved.angle])
           spins == Robust([i \in DOMAIN usable |-> usable[i].moved.spin])
           spinning == SpinDominates(t.kind, SumFunction(shifts), SumFunction(spins))
           angles == IF spinning THEN [i \in DOMAIN spins |-> -spins[i]] ELSE shifts
           total == SumFunction(angles)
           confidence ==
               Clamp(Part(20, AtMost(One, (film.features * One) \div (2 * MinFeatures)))
                     + Part(30, inliers) + Part(25, Support(angles, total))
                     + Part(15, coverage) + Part(10, continuity))
           flowing == Passing(usable, LAMBDA f : f.moved.flows)
           row == [Measured(StatusOfMotion(t.kind, total, confidence)) EXCEPT
                   !.direction = DirectionOf(t.kind, total), !.angle = AbsOf(total), !.quality = quality,
                   !.confidence = confidence,
                   !.start = IF flowing = <<>> THEN NoMeasure ELSE flowing[1].at,
                   !.end = IF flowing = <<>> THEN NoMeasure ELSE flowing[Len(flowing)].at]
<1>1. VideoRow(t, o) =
        IF Len(frames) < 3 \/ film.invalid > MaxInvalid THEN Measured("INCONCLUSIVE")
        ELSE IF film.features < MinFeatures \/ Len(usable) < 2
        THEN [Measured("INCONCLUSIVE") EXCEPT !.quality = quality]
        ELSE row
  BY DEF VideoRow
<1>a. DOMAIN VideoRow(t, o) = RowFields
  <2>1. \A status : DOMAIN Measured(status) = RowFields
    BY DEF BlankRow, RowFields
  <2> DEFINE status == StatusOfMotion(t.kind, total, confidence)
             direction == DirectionOf(t.kind, total)
             angle == AbsOf(total)
             begins == IF flowing = <<>> THEN NoMeasure ELSE flowing[1].at
             ends == IF flowing = <<>> THEN NoMeasure ELSE flowing[Len(flowing)].at
             base == Measured("INCONCLUSIVE")
             seen == Measured(status)
  <2>2. row = [seen EXCEPT !.direction = direction, !.angle = angle, !.quality = quality,
                  !.confidence = confidence, !.start = begins, !.end = ends]
    OBVIOUS
  <2>3. DOMAIN base = RowFields /\ DOMAIN seen = RowFields
    BY <2>1
  <2> HIDE DEF row, seen, base, Measured, status, direction, angle, quality, confidence, begins, ends
  <2>4. DOMAIN row = RowFields /\ DOMAIN [base EXCEPT !.quality = quality] = RowFields
    BY <2>2, <2>3
  <2>5. VideoRow(t, o) \in {base, [base EXCEPT !.quality = quality], row}
    BY <1>1 DEF base
  <2>6. QED
    BY <2>3, <2>4, <2>5
<1>2. film \in Footage /\ film.frames \in Seq(VideoFrame) /\ film.invalid \in Score /\ film.features \in Nat
  BY DEF TakeType, Footage
<1>3. frames \in Seq(VideoFrame) /\ Len(frames) \in Nat
  <2>1. frames \in Seq(VideoFrame)
    BY <1>2, WithinType DEF FramesIn
  <2> HIDE DEF frames
  <2>2. QED
    BY <2>1
<1> HIDE DEF film, window, frames
<1>4. continuity \in Score /\ duplicate \in Score
  BY <1>2, <1>3, ContinuityType, DuplicateShareType
<1> HIDE DEF continuity, duplicate, quality
<1>5. \A status \in VisualStatus : RowType(Measured(status))
  BY <1>2, <1>4, ScoreOps DEF BlankRow, RowType, Maybe, Score
<1>6. RowType([Measured("INCONCLUSIVE") EXCEPT !.quality = quality])
  BY <1>2, <1>4, ScoreOps DEF BlankRow, RowType, Maybe, Score, VisualStatus
<1>7. ASSUME ~(Len(frames) < 3), ~(Len(usable) < 2)
      PROVE  RowType(row)
  <2>1. Tail(frames) \in Seq(VideoFrame)
    BY <1>3, <1>7
  <2>2. found \in Seq(VideoFrame) /\ \A i \in DOMAIN found : Known(found[i].moved)
    <3> DEFINE P == {i \in DOMAIN Tail(frames) : Known(Tail(frames)[i].moved)}
    <3>1. found = Picked(Tail(frames), P)
      BY DEF Passing
    <3>2. /\ found \in Seq(VideoFrame) /\ Len(found) = Cardinality(P)
          /\ \A k \in 1 .. Cardinality(P) : \E i \in P : found[k] = Tail(frames)[i]
      <4>1. P \in SUBSET (DOMAIN Tail(frames))
        OBVIOUS
      <4> HIDE DEF P, found
      <4>2. QED
        BY <2>1, <3>1, <4>1, PickedType, ZenonT(30)
    <3>3. DOMAIN found = 1 .. Cardinality(P)
      BY <3>2, SequenceOf
    <3> HIDE DEF found
    <3>4. QED
      BY <3>2, <3>3
  <2> HIDE DEF found
  <2>3. usable \in Seq(VideoFrame) /\ \A i \in DOMAIN usable : Known(usable[i].moved)
    <3> DEFINE P == {i \in DOMAIN found : found[i].moved.inliers >= MinInliers}
    <3>1. usable = Picked(found, P)
      BY DEF Passing
    <3>2. /\ usable \in Seq(VideoFrame) /\ Len(usable) = Cardinality(P)
          /\ \A k \in 1 .. Cardinality(P) : \E i \in P : usable[k] = found[i]
      <4>1. P \in SUBSET (DOMAIN found)
        OBVIOUS
      <4> HIDE DEF P, usable
      <4>2. QED
        BY <2>2, <3>1, <4>1, PickedType
    <3>3. DOMAIN usable = 1 .. Cardinality(P)
      BY <3>2, SequenceOf
    <3> HIDE DEF usable
    <3>4. QED
      BY <2>2, <3>2, <3>3
  <2> HIDE DEF usable
  <2>4. /\ IsFiniteSet(DOMAIN usable) /\ DOMAIN usable = 1 .. Len(usable) /\ Len(usable) \in Nat
        /\ DOMAIN usable # {}
    BY <1>7, <2>3, SequenceOf
  <2>5. \A i \in DOMAIN usable : usable[i].at \in Int /\ usable[i].moved \in GlobalMotion
    <3>1. \A i \in DOMAIN usable : usable[i] \in VideoFrame
      BY <2>3, SequenceOf
    <3>2. QED
      BY <2>3, <3>1 DEF VideoFrame, Maybe, Known
  <2>6. inliers \in Int /\ coverage \in Int
    <3> DEFINE a == [i \in DOMAIN usable |-> usable[i].moved.inliers]
               b == [i \in DOMAIN usable |-> usable[i].moved.coverage]
    <3>1. \A i \in DOMAIN usable : a[i] \in Score /\ b[i] \in Score
      BY <2>5 DEF GlobalMotion
    <3>2. DOMAIN a = DOMAIN usable /\ DOMAIN b = DOMAIN usable
      OBVIOUS
    <3> HIDE DEF a, b
    <3>3. Mean(a) \in Score /\ Mean(b) \in Score
      BY <2>4, <3>1, <3>2, MeanScore
    <3>4. QED
      BY <3>3 DEF a, b, Score
  <2>7. shifts \in Seq(Int) /\ spins \in Seq(Int)
    <3> DEFINE a == [i \in DOMAIN usable |-> usable[i].moved.angle]
               b == [i \in DOMAIN usable |-> usable[i].moved.spin]
    <3>1. a \in Seq(Int) /\ b \in Seq(Int)
      BY <2>4, <2>5 DEF GlobalMotion
    <3> HIDE DEF a, b
    <3>2. Robust(a) \in Seq(Int) /\ Robust(b) \in Seq(Int)
      BY <3>1, RobustType
    <3>3. QED
      BY <3>2 DEF a, b
  <2> HIDE DEF inliers, coverage, shifts, spins, spinning
  <2>8. angles \in Seq(Int)
    <3>1. /\ DOMAIN spins = 1 .. Len(spins) /\ Len(spins) \in Nat
          /\ \A i \in DOMAIN spins : spins[i] \in Int
      BY <2>7, SequenceOf
    <3>2. [i \in DOMAIN spins |-> -spins[i]] \in Seq(Int)
      BY <3>1
    <3>3. QED
      BY <2>7, <3>2
  <2> HIDE DEF angles
  <2>9. total \in Int
    BY <2>8, SumOfSequence
  <2> HIDE DEF total
  <2>10. Support(angles, total) \in Int
    <3> DEFINE told == {i \in DOMAIN angles : AbsOf(angles[i]) >= 5}
               agree == {i \in told : (angles[i] > 0) = (total >= 0)}
    <3>1. IsFiniteSet(told) /\ IsFiniteSet(agree)
      <4>1. IsFiniteSet(DOMAIN angles)
        BY <2>8, SequenceOf
      <4>2. told \subseteq DOMAIN angles /\ agree \subseteq DOMAIN angles
        OBVIOUS
      <4> HIDE DEF told, agree
      <4>3. QED
        BY <4>1, <4>2, FS_Subset
    <3>2. Support(angles, total) = ShareOf(agree, Cardinality(told))
      BY DEF Support
    <3> HIDE DEF told, agree
    <3>3. Cardinality(told) \in Int
      BY <3>1, FS_CardinalityType
    <3>4. QED
      BY <3>1, <3>2, <3>3, ShareOfType
  <2>11. confidence \in Score
    <3> DEFINE f == AtMost(One, (film.features * One) \div (2 * MinFeatures))
               u == Support(angles, total)
    <3>1. f \in Int
      <4>1. film.features * One \in Int /\ 2 * MinFeatures \in Nat \ {0}
        BY <1>2, ScoreOps DEF MinFeatures
      <4>2. (film.features * One) \div (2 * MinFeatures) \in Int
        BY <4>1, DivType
      <4>3. QED
        BY <4>2, ScoreOps, ExtremeInt
    <3>2. u \in Int /\ continuity \in Int
      BY <1>4, <2>10 DEF Score
    <3>3. confidence = Clamp(Part(20, f) + Part(30, inliers) + Part(25, u) + Part(15, coverage) + Part(10, continuity))
      OBVIOUS
    <3> HIDE DEF f, u, confidence
    <3>4. Part(20, f) + Part(30, inliers) + Part(25, u) + Part(15, coverage) + Part(10, continuity) \in Int
      BY <2>6, <3>1, <3>2 DEF Part
    <3>5. QED
      BY <3>3, <3>4, ScoreOps
  <2> HIDE DEF confidence
  <2>12. AbsOf(total) \in Nat
    BY <2>9, AbsType
  <2>13. flowing # <<>> => flowing[1].at \in Int /\ flowing[Len(flowing)].at \in Int
    <3> DEFINE P == {i \in DOMAIN usable : usable[i].moved.flows}
    <3>1. flowing = Picked(usable, P)
      BY DEF Passing
    <3>2. flowing \in Seq(VideoFrame)
      BY <2>3, <3>1, PickedType
    <3> HIDE DEF flowing
    <3>3. flowing # <<>> => flowing[1] \in VideoFrame /\ flowing[Len(flowing)] \in VideoFrame
      BY <3>2
    <3>4. QED
      BY <3>3 DEF VideoFrame
  <2> HIDE DEF flowing
  <2>14. StatusOfMotion(t.kind, total, confidence) \in VisualStatus
    BY DEF StatusOfMotion, VisualStatus
  <2> DEFINE status == StatusOfMotion(t.kind, total, confidence)
             direction == DirectionOf(t.kind, total)
             freeze == Freeze(frames)
             angle == AbsOf(total)
             begins == IF flowing = <<>> THEN NoMeasure ELSE flowing[1].at
             ends == IF flowing = <<>> THEN NoMeasure ELSE flowing[Len(flowing)].at
  <2>15. begins \in Maybe(Int) /\ ends \in Maybe(Int) /\ angle \in Maybe(Nat)
    BY <2>12, <2>13 DEF Maybe
  <2>16. row = [Measured(status) EXCEPT !.direction = direction, !.angle = angle, !.quality = quality,
                   !.confidence = confidence, !.start = begins, !.end = ends]
    OBVIOUS
  <2> HIDE DEF row, status, direction, freeze, angle, begins, ends
  <2>17. QED
    BY <1>2, <1>4, <2>11, <2>14, <2>15, <2>16 DEF BlankRow, RowType, status
<1>8. QED
  <2> HIDE DEF row, Measured
  <2>1. RowType(VideoRow(t, o))
    BY <1>1, <1>5, <1>6, <1>7 DEF VisualStatus
  <2>2. QED
    BY <1>a, <2>1

-----------------------------------------------------------------------------
(* What the comparison of phone and camera calculates.                     *)
LEMMA DivNat == ASSUME NEW a \in Nat, NEW b \in Nat \ {0} PROVE a \div b \in Nat
<1>1. a <= b * a
  <2>1. b - 1 \in Nat
    OBVIOUS
  <2>2. (b - 1) * a \in Nat
    BY <2>1
  <2>3. b * a = (b - 1) * a + a
    OBVIOUS
  <2>4. QED
    BY <2>2, <2>3
<1>2. QED
  BY <1>1, DivBound

LEMMA ProductNat == ASSUME NEW a \in Nat, NEW b \in Nat PROVE a * b \in Nat
OBVIOUS

LEMMA ProductScore ==
    ASSUME NEW w \in Nat, NEW x \in Score
    PROVE  w * x \in Nat /\ w * x <= One * w
<1>1. One \in Nat /\ x \in Nat /\ One - x \in Nat
  BY ScoreOps DEF Score
<1>2. w * (One - x) \in Nat /\ w * x \in Nat
  BY <1>1, ProductNat
<1>3. w * (One - x) = One * w - w * x
  BY <1>1
<1>4. One * w \in Nat
  BY <1>1, ProductNat
<1>5. QED
  BY <1>2, <1>3, <1>4

LEMMA SumNat ==
    ASSUME NEW f, NEW S, IsFiniteSet(S), \A x \in S : f[x] \in Nat
    PROVE  SumFunctionOnSet(f, S) \in Nat
<1>1. SumFunctionOnSet(f, S) \in Int
  BY SumType
<1>2. SumFunctionOnSet(f, {}) <= SumFunctionOnSet(f, S)
  BY SumOfPart
<1>3. QED
  BY <1>1, <1>2, SumEmpty

(* A weighted sum of scores is at most the sum of the weights.             *)
LEMMA WeightedSum ==
    ASSUME NEW S, IsFiniteSet(S), NEW w, NEW g,
           \A x \in S : w[x] \in Nat /\ g[x] \in Nat /\ g[x] <= One * w[x]
    PROVE  /\ SumFunctionOnSet(w, S) \in Nat /\ SumFunctionOnSet(g, S) \in Nat
           /\ SumFunctionOnSet(g, S) <= One * SumFunctionOnSet(w, S)
<1> DEFINE h == [x \in S |-> One * w[x]]
<1>1. \A x \in S : h[x] = One * w[x] /\ h[x] \in Nat
  <2>1. \A x \in S : One * w[x] \in Nat
    BY ScoreOps, ProductNat
  <2>2. QED
    BY <2>1
<1> HIDE DEF h
<1>2. SumFunctionOnSet(w, S) \in Nat /\ SumFunctionOnSet(g, S) \in Nat
  BY SumNat
<1>3. SumFunctionOnSet(h, S) = One * SumFunctionOnSet(w, S)
  BY <1>1, ScoreOps, SumScaled
<1>4. SumFunctionOnSet(g, S) <= SumFunctionOnSet(h, S)
  <2>1. \A x \in S : g[x] \in Int /\ h[x] \in Int /\ g[x] <= h[x]
    BY <1>1
  <2>2. QED
    BY <2>1, SumMonotone
<1>5. QED
  BY <1>2, <1>3, <1>4

LEMMA WeightedMean ==
    ASSUME NEW total \in Nat, NEW weight \in Nat \ {0}, total <= One * weight
    PROVE  total \div weight \in Score
<1>1. One \in Nat
  BY ScoreOps
<1>2. total <= weight * One
  BY <1>1
<1>3. QED
  BY <1>1, <1>2, DivBound DEF Score

LEMMA TwoParts ==
    ASSUME NEW p \in 0 .. 100, NEW q \in 0 .. 100, p + q <= 100, NEW x \in Score, NEW y \in Score
    PROVE  Part(p, x) + Part(q, y) \in Score
<1> DEFINE u == Part(p, x)
           v == Part(q, y)
<1>1. u \in Int /\ 0 <= u /\ u <= Pct(p)
  BY PartBound
<1>2. v \in Int /\ 0 <= v /\ v <= Pct(q)
  BY PartBound
<1> HIDE DEF u, v
<1>3. u + v \in Int /\ 0 <= u + v /\ u + v <= 60000
  BY <1>1, <1>2 DEF Pct
<1>4. u + v \in Score
  BY <1>3, ScoreRange
<1>5. QED
  BY <1>4 DEF u, v

LEMMA SlopeBound ==
    ASSUME NEW x \in Int, NEW from \in Int, NEW to \in Int, NEW high \in Int, NEW low \in Int,
           from < to, from <= x, x <= to, low <= high
    PROVE  /\ Slope(x, from, to, high, low) \in Int
           /\ low <= Slope(x, from, to, high, low) /\ Slope(x, from, to, high, low) <= high
<1> DEFINE y == (high - low) * (x - from)
           d == y \div (to - from)
<1>1. high - low \in Nat /\ x - from \in Nat /\ to - x \in Nat /\ to - from \in Nat \ {0}
  OBVIOUS
<1>2. y \in Nat /\ (high - low) * (to - x) \in Nat
  BY <1>1, ProductNat
<1>3. (to - from) * (high - low) = y + (high - low) * (to - x)
  OBVIOUS
<1>4. y <= (to - from) * (high - low)
  BY <1>2, <1>3
<1> HIDE DEF y
<1>5. d \in 0 .. (high - low)
  BY <1>1, <1>2, <1>4, DivBound
<1> HIDE DEF d
<1>6. high - d \in low .. high
  BY <1>5
<1>7. QED
  BY <1>6 DEF Slope, y, d

EstimateType(e) ==
    /\ e.angle \in Maybe(Nat) /\ e.start \in Maybe(Int) /\ e.end \in Maybe(Int)
    /\ e.confidence \in Score
MeasurementType(m) ==
    EstimateType(m.sensor) /\ EstimateType(m.visual) /\ m.correlation \in Maybe(Int)

LEMMA OffsetScoreType == ASSUME NEW offset \in Int PROVE OffsetScore(offset) \in Score
<1> DEFINE ms == AbsOf(offset)
<1>1. ms \in Nat
  BY AbsType
<1>2. OffsetScore(offset) =
        CASE ms <= 150 -> One
          [] ms \in 151..350 -> Slope(ms, 150, 350, One, Pct(80))
          [] ms \in 351..TimingWeak -> Slope(ms, 350, TimingWeak, Pct(80), Pct(35))
          [] OTHER -> AtLeast(0, Slope(ms, TimingWeak, 2 * TimingWeak, Pct(35), 0))
  BY DEF OffsetScore
<1> HIDE DEF ms
<1>3. TimingWeak = 700 /\ Pct(80) = 48000 /\ Pct(35) = 21000 /\ One = 60000
  BY DEF TimingWeak, Pct, One
<1>4. CASE ms <= 150
  <2>1. TimingWeak = 700
    BY <1>3
  <2>2. OffsetScore(offset) = One
    BY <1>1, <1>2, <1>4, <2>1
  <2>3. QED
    BY <2>2, ScoreRange DEF One
<1>5. CASE ms \in 151..350
  <2> DEFINE v == Slope(ms, 150, 350, One, Pct(80))
  <2>0. Pct(80) \in Int /\ One \in Int /\ 0 <= Pct(80) /\ Pct(80) <= One
    BY <1>3, SMT
  <2>1. v \in Int /\ Pct(80) <= v /\ v <= One
    <3> DEFINE a == Pct(80)
               b == One
    <3>1. a \in Int /\ b \in Int /\ a <= b /\ ms \in Int /\ 150 <= ms /\ ms <= 350
      BY <1>5, <2>0
    <3> HIDE DEF a, b
    <3>2. Slope(ms, 150, 350, b, a) \in Int /\ a <= Slope(ms, 150, 350, b, a) /\ Slope(ms, 150, 350, b, a) <= b
      BY <3>1, SlopeBound
    <3>3. QED
      BY <3>2 DEF a, b
  <2>2. OffsetScore(offset) = v
    BY <1>2, <1>5
  <2> HIDE DEF v
  <2>3. v \in Score
    BY <2>0, <2>1 DEF Score
  <2>4. QED
    BY <2>2, <2>3
<1>6. CASE ms \in 351..TimingWeak
  <2> DEFINE v == Slope(ms, 350, TimingWeak, Pct(80), Pct(35))
  <2>0. /\ Pct(80) \in Int /\ Pct(35) \in Int /\ One \in Int
        /\ 0 <= Pct(35) /\ Pct(35) <= Pct(80) /\ Pct(80) <= One
    BY <1>3, SMT
  <2>1. v \in Int /\ Pct(35) <= v /\ v <= Pct(80)
    <3> DEFINE a == Pct(35)
               b == Pct(80)
               t == TimingWeak
    <3>1. a \in Int /\ b \in Int /\ a <= b /\ t \in Int /\ 350 < t /\ ms \in Int /\ 350 <= ms /\ ms <= t
      BY <1>3, <1>6, <2>0
    <3> HIDE DEF a, b, t
    <3>2. Slope(ms, 350, t, b, a) \in Int /\ a <= Slope(ms, 350, t, b, a) /\ Slope(ms, 350, t, b, a) <= b
      BY <3>1, SlopeBound
    <3>3. QED
      BY <3>2 DEF a, b, t
  <2>2. OffsetScore(offset) = v
    BY <1>2, <1>6
  <2> HIDE DEF v
  <2>3. v \in Score
    BY <2>0, <2>1 DEF Score
  <2>4. QED
    BY <2>2, <2>3
<1>7. CASE ms > 700
  <2> DEFINE y == 21000 * (ms - 700)
             d == y \div 700
  <2>1. OffsetScore(offset) = AtLeast(0, Slope(ms, 700, 1400, 21000, 0))
    BY <1>1, <1>2, <1>3, <1>7
  <2>2. y \in Nat
    BY <1>1, <1>7
  <2>3. Slope(ms, 700, 1400, 21000, 0) = 21000 - d
    BY DEF Slope
  <2> HIDE DEF y
  <2>4. d \in Nat
    BY <2>2, DivNat
  <2> HIDE DEF d
  <2>5. AtLeast(0, 21000 - d) \in Int /\ 0 <= AtLeast(0, 21000 - d) /\ AtLeast(0, 21000 - d) <= 60000
    BY <2>4 DEF AtLeast
  <2>6. QED
    BY <2>1, <2>3, <2>5, ScoreRange
<1>8. QED
  BY <1>1, <1>3, <1>4, <1>5, <1>6, <1>7

LEMMA AngleErrorType ==
    ASSUME NEW m, MeasurementType(m)
    PROVE  AngleError(m) \in Maybe(Nat) /\ (Known(AngleError(m)) => Known(m.sensor.angle))
<1>1. m.sensor.angle \in Maybe(Nat) /\ m.visual.angle \in Maybe(Nat)
  BY DEF MeasurementType, EstimateType
<1>2. CASE Known(m.sensor.angle) /\ Known(m.visual.angle)
  <2>1. m.sensor.angle - m.visual.angle \in Int
    BY <1>1, <1>2 DEF Known, Maybe
  <2>2. AbsOf(m.sensor.angle - m.visual.angle) \in Nat
    BY <2>1, AbsType
  <2>3. QED
    BY <1>2, <2>2 DEF AngleError, Maybe
<1>3. CASE ~(Known(m.sensor.angle) /\ Known(m.visual.angle))
  BY <1>3 DEF AngleError, Maybe, Known
<1>4. QED
  BY <1>2, <1>3

LEMMA MagnitudeType ==
    ASSUME NEW m, MeasurementType(m)
    PROVE  MagnitudeScore(m) \in Maybe(Score)
<1> DEFINE error == AngleError(m)
           relative == (error * One) \div AtLeast(m.sensor.angle, Degrees(1))
           absolute == AbsoluteAngleScore(error)
           least == AtLeast(0, One - (relative * 10) \div 6)
<1>1. MagnitudeScore(m) = IF ~Known(error) THEN NoMeasure ELSE Part(70, absolute) + Part(30, least)
  BY DEF MagnitudeScore
<1>2. error \in Maybe(Nat) /\ m.sensor.angle \in Maybe(Nat) /\ (Known(error) => Known(m.sensor.angle))
  BY AngleErrorType DEF MeasurementType, EstimateType
<1> HIDE DEF error
<1>3. ASSUME Known(error) PROVE Part(70, absolute) + Part(30, least) \in Score
  <2>1. error \in Nat /\ m.sensor.angle \in Nat
    BY <1>2, <1>3 DEF Known, Maybe
  <2>2. absolute \in Score
    <3>1. StrongAngleError = 800 /\ MaxAngleError = 2500
      BY DEF StrongAngleError, MaxAngleError, Degrees
    <3>2. CASE error <= StrongAngleError \/ error >= MaxAngleError
      <4>1. One \in Score /\ 0 \in Score
        BY ScoreRange DEF One
      <4>2. QED
        BY <3>2, <4>1 DEF AbsoluteAngleScore
    <3>3. CASE ~(error <= StrongAngleError \/ error >= MaxAngleError)
      <4> DEFINE v == Slope(error, StrongAngleError, MaxAngleError, One, 0)
      <4>0. /\ StrongAngleError \in Int /\ MaxAngleError \in Int /\ StrongAngleError < MaxAngleError
            /\ error \in StrongAngleError .. MaxAngleError /\ One \in Int /\ 0 <= One
        BY <2>1, <3>1, <3>3, ScoreOps
      <4>1. v \in Int /\ 0 <= v /\ v <= One
        <5> DEFINE a == StrongAngleError
                   b == MaxAngleError
                   c == One
        <5>1. a \in Int /\ b \in Int /\ a < b /\ error \in Int /\ a <= error /\ error <= b /\ c \in Int /\ 0 <= c
          BY <4>0
        <5> HIDE DEF a, b, c
        <5>2. Slope(error, a, b, c, 0) \in Int /\ 0 <= Slope(error, a, b, c, 0) /\ Slope(error, a, b, c, 0) <= c
          BY <5>1, SlopeBound
        <5>3. QED
          BY <5>2 DEF a, b, c
      <4>2. absolute = v
        BY <3>3 DEF AbsoluteAngleScore
      <4> HIDE DEF v, absolute
      <4>3. QED
        BY <4>1, <4>2 DEF Score
    <3>4. QED
      BY <3>2, <3>3
  <2>3. relative \in Nat
    <3>1. error * One \in Nat
      BY <2>1, ScoreOps, ProductNat
    <3>2. AtLeast(m.sensor.angle, Degrees(1)) \in Nat \ {0}
      BY <2>1 DEF AtLeast, Degrees
    <3>3. QED
      BY <3>1, <3>2, DivNat
  <2> HIDE DEF relative, absolute
  <2>4. least \in Score
    <3> DEFINE d == (relative * 10) \div 6
    <3>1. d \in Nat
      BY <2>3, DivNat
    <3> HIDE DEF d
    <3>2. AtLeast(0, One - d) \in Score
      BY <3>1, ScoreOps DEF AtLeast, Score
    <3>3. QED
      BY <3>2 DEF d
  <2> HIDE DEF least, absolute
  <2> DEFINE p == 70
             q == 30
  <2>p. p \in 0 .. 100 /\ q \in 0 .. 100 /\ p + q <= 100
    OBVIOUS
  <2> HIDE DEF p, q
  <2>q. Part(p, absolute) + Part(q, least) \in Score
    BY <2>2, <2>4, <2>p, TwoParts
  <2>5. QED
    BY <2>1, <2>q DEF p, q
<1>4. QED
  BY <1>1, <1>3 DEF Maybe

LEMMA OffsetType ==
    ASSUME NEW m, MeasurementType(m), NEW edge \in {"start", "end"}
    PROVE  Offset(m, edge) \in Maybe(Int)
<1>1. m.sensor[edge] \in Maybe(Int) /\ m.visual[edge] \in Maybe(Int)
  BY DEF MeasurementType, EstimateType
<1>2. QED
  BY <1>1 DEF Offset, Maybe, Known

LEMMA TimingType ==
    ASSUME NEW m, MeasurementType(m)
    PROVE  TimingScore(m) \in Maybe(Score)
<1> DEFINE edges == {e \in {"start", "end"} : Known(Offset(m, e))}
           f == [e \in edges |-> OffsetScore(Offset(m, e))]
<1>1. TimingScore(m) = IF edges = {} THEN NoMeasure ELSE Mean(f)
  BY DEF TimingScore
<1>2. IsFiniteSet(edges)
  <2>1. IsFiniteSet({"start"}) /\ IsFiniteSet({"end"})
    BY FS_Singleton
  <2>2. IsFiniteSet({"start"} \cup {"end"})
    BY <2>1, FS_Union
  <2>3. edges \in SUBSET ({"start"} \cup {"end"})
    OBVIOUS
  <2> HIDE DEF edges
  <2>4. QED
    BY <2>2, <2>3, FS_Subset
<1>3. ASSUME NEW e \in edges PROVE f[e] \in Score
  <2>1. Offset(m, e) \in Int
    BY OffsetType DEF Maybe, Known
  <2>2. QED
    BY <2>1, OffsetScoreType
<1>4. DOMAIN f = edges
  OBVIOUS
<1> HIDE DEF f, edges
<1>5. edges # {} => Mean(f) \in Score
  BY <1>2, <1>3, <1>4, MeanScore
<1>6. QED
  BY <1>1, <1>5 DEF Maybe

LEMMA DurationType ==
    ASSUME NEW m, MeasurementType(m)
    PROVE  DurationScore(m) \in Maybe(Score)
<1> DEFINE lasted(e) == AtLeast(0, e.end - e.start)
           ls == lasted(m.sensor)
           lv == lasted(m.visual)
           longest == AtLeast(1, AtLeast(ls, lv))
           relative == (AbsOf(ls - lv) * 100) \div longest
           rest == AtLeast(0, Pct(100 - relative))
           unknown == \E e \in {m.sensor, m.visual} : ~Known(e.start) \/ ~Known(e.end)
<1>1. DurationScore(m) =
        IF unknown THEN NoMeasure
        ELSE CASE relative <= 15 -> One
               [] relative \in 16..30 -> Pct(85)
               [] relative \in 31..60 -> Pct(45)
               [] OTHER -> rest
  BY DEF DurationScore
<1>2. ASSUME ~unknown PROVE relative \in Nat
  <2>1. m.sensor.end \in Int /\ m.sensor.start \in Int /\ m.visual.end \in Int /\ m.visual.start \in Int
    BY <1>2 DEF MeasurementType, EstimateType, Maybe, Known
  <2>2. ls \in Nat /\ lv \in Nat
    BY <2>1 DEF AtLeast
  <2> HIDE DEF ls, lv
  <2>3. AbsOf(ls - lv) * 100 \in Nat /\ longest \in Nat \ {0}
    BY <2>2 DEF AbsOf, AtLeast
  <2>4. QED
    BY <2>3, DivNat
<1> HIDE DEF relative, unknown
<1>3. ASSUME ~unknown PROVE rest \in Score
  <2>1. rest \in Int /\ 0 <= rest /\ rest <= 60000
    BY <1>2, <1>3 DEF AtLeast, Pct
  <2>2. QED
    BY <2>1, ScoreRange
<1>4. One \in Score /\ Pct(85) \in Score /\ Pct(45) \in Score
  BY ScoreRange DEF One, Pct
<1> HIDE DEF rest
<1>5. QED
  BY <1>1, <1>2, <1>3, <1>4 DEF Maybe

LEMMA ComponentsType ==
    ASSUME NEW m, MeasurementType(m)
    PROVE  \A c \in DOMAIN Weights : Components(m)[c] \in Maybe(Score)
<1>1. DirectionScore(m) \in Score
  <2>1. Pct(50) \in Score /\ 0 \in Score /\ One \in Score
    BY ScoreRange DEF Pct, One
  <2>2. QED
    BY <2>1 DEF DirectionScore
<1>2. CorrelationScore(m) \in Maybe(Score)
  BY ScoreOps DEF CorrelationScore, MeasurementType, Maybe, Known
<1>3. QED
  BY <1>1, <1>2, MagnitudeType, TimingType, DurationType DEF Components, Weights, Maybe

LEMMA WeightsSum ==
    /\ IsFiniteSet(DOMAIN Weights)
    /\ \A c \in DOMAIN Weights : Weights[c] \in Nat \ {0}
    /\ SumFunctionOnSet(Weights, DOMAIN Weights) = 100
<1> DEFINE D == DOMAIN Weights
           D1 == D \ {"direction"}
           D2 == D1 \ {"magnitude"}
           D3 == D2 \ {"timing"}
           D4 == D3 \ {"correlation"}
           D5 == D4 \ {"duration"}
<1>1. D = {"direction", "magnitude", "timing", "correlation", "duration"}
  BY DEF Weights
<1>2. /\ Weights["direction"] = 25 /\ Weights["magnitude"] = 25 /\ Weights["timing"] = 20
      /\ Weights["correlation"] = 20 /\ Weights["duration"] = 10
  BY DEF Weights
<1>3. /\ IsFiniteSet(D) /\ IsFiniteSet(D1) /\ IsFiniteSet(D2) /\ IsFiniteSet(D3) /\ IsFiniteSet(D4)
      /\ D5 = {} /\ "magnitude" \in D1 /\ "timing" \in D2 /\ "correlation" \in D3 /\ "duration" \in D4
  <2>1. /\ D5 = {} /\ D4 = {} \cup {"duration"} /\ D3 = D4 \cup {"correlation"}
        /\ D2 = D3 \cup {"timing"} /\ D1 = D2 \cup {"magnitude"} /\ D = D1 \cup {"direction"}
    BY <1>1
  <2>2. /\ "magnitude" \in D1 /\ "timing" \in D2 /\ "correlation" \in D3 /\ "duration" \in D4
    BY <1>1
  <2> HIDE DEF D, D1, D2, D3, D4, D5
  <2>3. IsFiniteSet(D4)
    BY <2>1, FS_EmptySet, FS_AddElement
  <2>4. IsFiniteSet(D3)
    BY <2>1, <2>3, FS_AddElement
  <2>5. IsFiniteSet(D2)
    BY <2>1, <2>4, FS_AddElement
  <2>6. IsFiniteSet(D1)
    BY <2>1, <2>5, FS_AddElement
  <2>7. IsFiniteSet(D)
    BY <2>1, <2>6, FS_AddElement
  <2>8. QED
    BY <2>1, <2>2, <2>3, <2>4, <2>5, <2>6, <2>7
<1>4. \A c \in D : Weights[c] \in Nat \ {0}
  BY <1>1, <1>2
<1> HIDE DEF D
<1>5. SumFunctionOnSet(Weights, D) = 25 + SumFunctionOnSet(Weights, D1)
  BY <1>1, <1>2, <1>3, <1>4, SumAt
<1>6. SumFunctionOnSet(Weights, D1) = 25 + SumFunctionOnSet(Weights, D2)
  BY <1>2, <1>3, <1>4, SumAt
<1>7. SumFunctionOnSet(Weights, D2) = 20 + SumFunctionOnSet(Weights, D3)
  BY <1>2, <1>3, <1>4, SumAt
<1>8. SumFunctionOnSet(Weights, D3) = 20 + SumFunctionOnSet(Weights, D4)
  BY <1>2, <1>3, <1>4, SumAt
<1>9. SumFunctionOnSet(Weights, D4) = 10 + SumFunctionOnSet(Weights, D5)
  BY <1>2, <1>3, <1>4, SumAt
<1>10. SumFunctionOnSet(Weights, D5) = 0
  BY <1>3, SumEmpty
<1> HIDE DEF D1, D2, D3, D4, D5
<1>11. QED
  BY <1>3, <1>4, <1>5, <1>6, <1>7, <1>8, <1>9, <1>10 DEF D

LEMMA CoverageType ==
    ASSUME NEW m
    PROVE  /\ Coverage(m) \in 0 .. 100
           /\ Present(m) # {} => Coverage(m) \in Nat \ {0}
           /\ IsFiniteSet(Present(m)) /\ Present(m) \subseteq DOMAIN Weights
<1> DEFINE P == Present(m)
           D == DOMAIN Weights
<1>1. P \in SUBSET D
  BY DEF Present
<1>2. \A c \in D : Weights[c] \in Nat /\ Weights[c] \in Int /\ Weights[c] > 0
  BY WeightsSum
<1> HIDE DEF P, D
<1>3. IsFiniteSet(D) /\ SumFunctionOnSet(Weights, D) = 100
  BY WeightsSum DEF D
<1>4. IsFiniteSet(P) /\ \A c \in P : Weights[c] \in Nat /\ Weights[c] \in Int
  BY <1>1, <1>2, <1>3, FS_Subset
<1>5. SumFunctionOnSet(Weights, P) <= 100
  BY <1>1, <1>2, <1>3, SumOfPart
<1>6. SumFunctionOnSet(Weights, P) \in Nat
  BY <1>4, SumNat
<1>7. P # {} => SumFunctionOnSet(Weights, P) > 0
  <2>1. SUFFICES ASSUME NEW c \in P PROVE SumFunctionOnSet(Weights, P) > 0
    OBVIOUS
  <2>2. SumFunctionOnSet(Weights, P) = Weights[c] + SumFunctionOnSet(Weights, P \ {c})
    BY <1>4, SumAt
  <2>3. IsFiniteSet(P \ {c}) /\ \A x \in P \ {c} : Weights[x] \in Nat
    BY <1>4, FS_Subset
  <2>4. SumFunctionOnSet(Weights, P \ {c}) \in Nat
    BY <2>3, SumNat
  <2>5. Weights[c] \in Int /\ Weights[c] > 0
    BY <1>1, <1>2
  <2>6. QED
    BY <2>2, <2>4, <2>5
<1>8. QED
  BY <1>1, <1>4, <1>5, <1>6, <1>7 DEF Coverage, P, D

LEMMA RawScoreType ==
    ASSUME NEW m, MeasurementType(m)
    PROVE  RawScore(m) \in Maybe(Score)
<1> DEFINE P == Present(m)
           g == [c \in P |-> Weights[c] * Components(m)[c]]
           total == SumFunctionOnSet(g, P)
<1>1. RawScore(m) = IF P = {} THEN NoMeasure ELSE total \div Coverage(m)
  BY DEF RawScore
<1>2. IsFiniteSet(P) /\ P \subseteq DOMAIN Weights /\ (P # {} => Coverage(m) \in Nat \ {0})
  BY CoverageType
<1>3. \A c \in P : Weights[c] \in Nat /\ Components(m)[c] \in Score
  BY <1>2, WeightsSum, ComponentsType DEF Present, Known, Maybe
<1>4. \A c \in P : g[c] \in Nat /\ g[c] <= One * Weights[c]
  BY <1>3, ProductScore
<1> HIDE DEF g
<1>5. total \in Nat /\ total <= One * SumFunctionOnSet(Weights, P)
  BY <1>2, <1>3, <1>4, WeightedSum
<1>6. SumFunctionOnSet(Weights, P) = Coverage(m)
  BY DEF Coverage
<1> HIDE DEF P, total
<1>7. ASSUME P # {} PROVE total \div Coverage(m) \in Score
  BY <1>2, <1>5, <1>6, <1>7, WeightedMean
<1>8. QED
  BY <1>1, <1>7 DEF Maybe

LEMMA SqrtType == ASSUME NEW n \in Nat, n <= 100 * 100 PROVE Sqrt(n) \in 0 .. 100
<1> DEFINE roots == {r \in 0 .. 100 : r * r <= n}
           top == Max(roots)
<1>1. IsFiniteSet(roots)
  <2> DEFINE hundred == 100
  <2>1. hundred \in Int /\ roots \in SUBSET (0 .. hundred)
    OBVIOUS
  <2> HIDE DEF roots, hundred
  <2> DEFINE all == 0 .. hundred
  <2>2. IsFiniteSet(all) /\ roots \in SUBSET all
    BY <2>1, FS_Interval
  <2> HIDE DEF all
  <2>3. QED
    BY <2>2, FS_Subset
<1>2. 0 \in roots /\ \A r \in roots : r \in Int
  OBVIOUS
<1>3. top \in roots /\ \A r \in roots : top >= r
  <2> HIDE DEF roots
  <2>1. QED
    BY <1>1, <1>2, MaxExists
<1>4. ASSUME top < 100 PROVE n < (top + 1) * (top + 1)
  <2>1. top + 1 \in 0 .. 100 /\ ~(top + 1 \in roots)
    BY <1>3, <1>4
  <2>2. (top + 1) * (top + 1) \in Int
    BY <2>1
  <2>3. QED
    BY <2>1, <2>2
<1> HIDE DEF top
<1>5. top \in 0 .. 100 /\ top * top <= n /\ n < (top + 1) * (top + 1)
  <2>1. top \in 0 .. 100 /\ top * top <= n
    BY <1>3
  <2>2. CASE top = 100
    BY <2>1, <2>2
  <2>3. QED
    BY <1>4, <2>1, <2>2
<1>6. QED
  BY <1>5 DEF Sqrt

LEMMA SourceConfidenceType ==
    ASSUME NEW m, MeasurementType(m)
    PROVE  SourceConfidence(m) \in Score
<1> DEFINE s == m.sensor.confidence
           v == m.visual.confidence
           geometric == Pct(Sqrt((s \div 600) * (v \div 600)))
           least == AtMost(s, v)
           c == Coverage(m)
<1>1. SourceConfidence(m) = Part(60, geometric) + Part(25, least) + Pct(15 * c) \div 100
  BY DEF SourceConfidence
<1>2. s \in Score /\ v \in Score
  BY DEF MeasurementType, EstimateType
<1>3. c \in 0 .. 100
  BY CoverageType
<1> HIDE DEF s, v, c
<1>4. least \in Score
  BY <1>2, ScoreOps
<1>5. geometric \in Score
  <2> DEFINE a == s \div 600
             b == v \div 600
  <2>1. s \in Nat /\ v \in Nat /\ s <= 600 * 100 /\ v <= 600 * 100
    BY <1>2, ScoreRange
  <2>2. a \in 0 .. 100 /\ b \in 0 .. 100
    BY <2>1, DivBound
  <2> HIDE DEF a, b
  <2>3. a * b \in Nat /\ a * b <= 100 * 100
    <3>1. a * b \in Nat /\ a * (100 - b) \in Nat
      BY <2>2, ProductNat
    <3>2. a * (100 - b) = 100 * a - a * b
      BY <2>2
    <3>3. QED
      BY <2>2, <3>1, <3>2
  <2>4. Sqrt(a * b) \in 0 .. 100
    <3> DEFINE n == a * b
    <3> HIDE DEF n
    <3>1. n \in Nat /\ n <= 100 * 100 => Sqrt(n) \in 0 .. 100
      BY SqrtType
    <3>2. QED
      BY <2>3, <3>1 DEF n
  <2>5. \A r \in 0 .. 100 : Pct(r) \in Int /\ 0 <= Pct(r) /\ Pct(r) <= 60000
    BY DEF Pct
  <2>6. Pct(Sqrt(a * b)) \in Score
    BY <2>4, <2>5, ScoreRange
  <2>7. QED
    BY <2>6 DEF a, b
<1> HIDE DEF geometric, least
<1> DEFINE x == Part(60, geometric)
           y == Part(25, least)
           z == Pct(15 * c) \div 100
<1>6. x \in Int /\ 0 <= x /\ x <= Pct(60)
  BY <1>5, PartBound
<1>7. y \in Int /\ 0 <= y /\ y <= Pct(25)
  BY <1>4, PartBound
<1>8. z \in Int /\ 0 <= z /\ z <= 9000
  BY <1>3 DEF Pct
<1> HIDE DEF x, y, z
<1>9. x + y + z \in Int /\ 0 <= x + y + z /\ x + y + z <= 60000
  BY <1>6, <1>7, <1>8 DEF Pct
<1>10. x + y + z \in Score
  BY <1>9, ScoreRange
<1>11. QED
  BY <1>1, <1>10 DEF x, y, z

LEMMA PartScore == ASSUME NEW p \in 0 .. 100, NEW x \in Score PROVE Part(p, x) \in Score
<1> DEFINE y == Part(p, x)
<1>1. y \in Int /\ 0 <= y /\ y <= Pct(p)
  BY PartBound
<1> HIDE DEF y
<1>2. y <= 60000
  BY <1>1 DEF Pct
<1>3. y \in Score
  BY <1>1, <1>2, ScoreRange
<1>4. QED
  BY <1>3 DEF y

LEMMA FusionConfidenceType ==
    ASSUME NEW m, MeasurementType(m)
    PROVE  FusionConfidence(m) \in Score
<1> DEFINE poor == IF RecoverablePoorVisual(m) THEN 95 ELSE 100
           anomalous == IF ContinuityAnomaly(m) THEN 90 ELSE 100
<1>1. poor \in 0 .. 100 /\ anomalous \in 0 .. 100
  OBVIOUS
<1>2. FusionConfidence(m) = Part(anomalous, Part(poor, SourceConfidence(m)))
  BY DEF FusionConfidence
<1> HIDE DEF poor, anomalous
<1>3. Part(poor, SourceConfidence(m)) \in Score
  BY <1>1, SourceConfidenceType, PartScore
<1>4. QED
  BY <1>1, <1>2, <1>3, PartScore

LEMMA EffectiveType ==
    ASSUME NEW m, MeasurementType(m)
    PROVE  EffectiveScore(m) \in Maybe(Score)
<1> DEFINE raw == RawScore(m)
           factor == Pct(80) + Part(20, FusionConfidence(m))
           capped == AtMost(raw, PartialThreshold - Pct(1))
<1>1. raw \in Maybe(Score)
  BY RawScoreType
<1>2. factor \in Score
  <2> DEFINE p == Part(20, FusionConfidence(m))
  <2>1. p \in Int /\ 0 <= p /\ p <= Pct(20)
    BY FusionConfidenceType, PartBound
  <2> HIDE DEF p
  <2>2. Pct(80) + p \in Int /\ 0 <= Pct(80) + p /\ Pct(80) + p <= 60000
    BY <2>1 DEF Pct
  <2>3. Pct(80) + p \in Score
    BY <2>2, ScoreRange
  <2>4. QED
    BY <2>3 DEF p
<1> HIDE DEF factor
<1>3. EffectiveScore(m) = raw \/ EffectiveScore(m) = 0 \/ EffectiveScore(m) = NoMeasure
      \/ (Known(raw) /\ EffectiveScore(m) \in {capped, Times(raw, factor)})
  BY DEF EffectiveScore, factor
<1> HIDE DEF raw
<1>4. ASSUME Known(raw) PROVE capped \in Score /\ Times(raw, factor) \in Score
  <2>1. raw \in Score
    BY <1>1, <1>4 DEF Known, Maybe
  <2>2. PartialThreshold - Pct(1) \in Nat
    BY DEF PartialThreshold, Pct
  <2>3. QED
    BY <1>2, <2>1, <2>2, ScoreOps, TimesScore
<1>5. 0 \in Score
  BY ScoreRange
<1> HIDE DEF capped
<1>6. QED
  BY <1>1, <1>3, <1>4, <1>5 DEF Maybe

(* What is stored of a comparison.                                         *)
FusedRowType(row) ==
    /\ row.status \in ConsistencyStatus
    /\ row.effective \in Maybe(Score) /\ row.confidence \in Score
    /\ row.angleError \in Maybe(Nat) /\ row.sameDirection \in BOOLEAN
    /\ IsFiniteSet(row.offsets) /\ \A x \in row.offsets : x \in Nat

LEMMA FusedType ==
    ASSUME NEW m, MeasurementType(m)
    PROVE  FusedRowType(Fused(m))
<1> DEFINE edges == {f \in {"start", "end"} : Known(Offset(m, f))}
           offsets == {AbsOf(Offset(m, e)) : e \in edges}
<1>1. IsFiniteSet(offsets)
  <2>1. IsFiniteSet({"start"}) /\ IsFiniteSet({"end"})
    BY FS_Singleton
  <2>2. IsFiniteSet({"start"} \cup {"end"})
    BY <2>1, FS_Union
  <2>3. edges \in SUBSET ({"start"} \cup {"end"})
    OBVIOUS
  <2>4. IsFiniteSet(edges)
    <3> HIDE DEF edges
    <3>1. QED
      BY <2>2, <2>3, FS_Subset
  <2> DEFINE f == [e \in edges |-> AbsOf(Offset(m, e))]
  <2>5. f \in Surjection(edges, offsets)
    BY DEF Surjection
  <2> HIDE DEF edges, offsets, f
  <2>6. QED
    BY <2>4, <2>5, FS_Surjection
<1>2. \A x \in offsets : x \in Nat
  <2>1. \A e \in edges : Offset(m, e) \in Int
    BY OffsetType DEF Maybe, Known
  <2>2. QED
    BY <2>1, AbsType
<1>3. Fused(m).offsets = offsets
  BY DEF Fused
<1> HIDE DEF offsets
<1>4. /\ Fused(m).status = StatusOf(m) /\ Fused(m).effective = EffectiveScore(m)
      /\ Fused(m).confidence = FusionConfidence(m) /\ Fused(m).sameDirection = SameDirection(m)
      /\ Fused(m).angleError = AngleError(m)
  BY DEF Fused
<1>5. StatusOf(m) \in ConsistencyStatus /\ SameDirection(m) \in BOOLEAN
  BY DEF StatusOf, ConsistencyStatus, SameDirection, Directed
<1>6. QED
  BY <1>1, <1>2, <1>3, <1>4, <1>5, EffectiveType, FusionConfidenceType, AngleErrorType DEF FusedRowType

LEMMA SensorCurveType ==
    ASSUME NEW t, TakeType(t), NEW window
    PROVE  SensorCurve(t, window).start \in Maybe(Int) /\ SensorCurve(t, window).end \in Maybe(Int)
<1> DEFINE samples == Within(t.gyro, window[1], window[2])
           rates == Debiased(samples, window[1])
           rest == RestAfter(samples, rates, Min(Fast(rates)))
           last == IF Known(rest) THEN rest ELSE Max(Fast(rates))
<1>1. SensorCurve(t, window) =
        IF Len(samples) < 3 THEN NoCurve
        ELSE IF Fast(rates) = {} THEN [NoCurve EXCEPT !.quality = SampleQuality(samples)]
        ELSE [start |-> samples[Min(Fast(rates))].at, end |-> samples[last].at, quality |-> SampleQuality(samples)]
  BY DEF SensorCurve
<1>2. samples \in GyroSamples
  BY WithinType DEF TakeType, GyroSamples
<1> HIDE DEF samples
<1>3. DOMAIN rates = 1 .. Len(samples) /\ Len(samples) \in Nat /\ \A i \in 1 .. Len(samples) : samples[i].at \in Int
  BY <1>2, DebiasedType, GyroSample
<1> HIDE DEF rates
<1>4. ASSUME Fast(rates) # {} PROVE samples[Min(Fast(rates))].at \in Int /\ samples[last].at \in Int
  <2> DEFINE onset == Min(Fast(rates))
  <2>1. onset \in 1 .. Len(samples) /\ Max(Fast(rates)) \in 1 .. Len(samples)
    BY <1>3, <1>4, OnsetType
  <2>2. rest \in Maybe(onset .. Len(samples))
    <3> HIDE DEF onset
    <3>1. RestAfter(samples, rates, onset) \in Maybe(onset .. Len(samples))
      BY <1>2, <2>1, RestType
    <3>2. QED
      BY <3>1 DEF onset
  <2> HIDE DEF onset, rest
  <2>3. last \in 1 .. Len(samples)
    BY <1>3, <2>1, <2>2 DEF Maybe, Known
  <2>4. QED
    BY <1>3, <2>1, <2>3 DEF onset
<1> HIDE DEF last
<1>5. QED
  BY <1>1, <1>4 DEF NoCurve, Maybe

LEMMA MeasurementTypes ==
    ASSUME NEW t, TakeType(t), OutcomeType(t.outcome), NEW row, RowType(row)
    PROVE  MeasurementType(Measurement(t, row))
<1> DEFINE curve == SensorCurve(t, SensorWindow(t, row))
<1>1. curve.start \in Maybe(Int) /\ curve.end \in Maybe(Int)
  BY SensorCurveType
<1>2. EstimateType(SensorEstimate(t, row))
  <2> DEFINE angle == IF Known(t.outcome.angle) THEN AbsOf(t.outcome.angle) ELSE NoMeasure
  <2>1. angle \in Maybe(Nat)
    BY AbsType DEF OutcomeType, Maybe, Known
  <2>2. /\ SensorEstimate(t, row).angle = angle /\ SensorEstimate(t, row).start = curve.start
        /\ SensorEstimate(t, row).end = curve.end /\ SensorEstimate(t, row).confidence = t.outcome.sensorScore
    BY DEF SensorEstimate
  <2> HIDE DEF curve, angle
  <2>3. QED
    BY <1>1, <2>1, <2>2 DEF EstimateType, OutcomeType
<1>3. EstimateType(VisualEstimate(t, row))
  BY DEF VisualEstimate, EstimateType, RowType
<1>4. Measurement(t, row).correlation \in Maybe(Int)
  BY DEF Measurement, TakeType, Maybe
<1>5. QED
  BY <1>2, <1>3, <1>4 DEF Measurement, MeasurementType

LEMMA FusedTakeType ==
    ASSUME NEW t, TakeType(t), OutcomeType(t.outcome), NEW row, RowType(row)
    PROVE  FusedRowType(FusedTake(t, row))
BY MeasurementTypes, FusedType DEF FusedTake

-----------------------------------------------------------------------------
(* The ranges of what the security analysis finds.                         *)
LEMMA PctScore == \A p \in Int : 0 <= p /\ p <= 100 => Pct(p) \in Score
<1>1. \A p \in Int : 0 <= p /\ p <= 100 => Pct(p) \in Int /\ 0 <= Pct(p) /\ Pct(p) <= 60000
  BY DEF Pct
<1>2. QED
  BY <1>1, ScoreRange

LEMMA CappedScore ==
    ASSUME NEW p \in Nat, NEW cap \in Score
    PROVE  AtMost(cap, Pct(p)) \in Score
<1>1. Pct(p) \in Nat
  BY DEF Pct
<1>2. QED
  BY <1>1, ScoreOps

LEMMA ZeroScore == 0 \in Score /\ One \in Score
BY ScoreRange DEF One

Weighed(indicators) == \A i \in indicators : i.score \in Score /\ i.confidence \in Score

LEMMA WhenType ==
    ASSUME NEW condition, NEW code, NEW score \in Score, NEW confidence \in Score
    PROVE  Weighed(When(condition, code, score, confidence))
BY DEF Weighed, When, Indicator

LEMMA WorstType ==
    ASSUME NEW indicators, Weighed(indicators), NEW floor \in Score
    PROVE  Worst(indicators, floor) \in Score /\ Surest(indicators, floor) \in Score
<1> DEFINE a == {floor} \cup {i.score : i \in indicators}
           b == {floor} \cup {i.confidence : i \in indicators}
<1>1. a \in SUBSET Score /\ a # {} /\ b \in SUBSET Score /\ b # {}
  BY DEF Weighed
<1>2. Worst(indicators, floor) = Max(a) /\ Surest(indicators, floor) = Max(b)
  BY DEF Worst, Surest
<1> HIDE DEF a, b
<1>3. QED
  BY <1>1, <1>2, ExtremeScores

LEMMA LevelType == \A x : Level(x) \in RiskLevel
BY DEF Level, RiskLevel

LEMMA LocationFound ==
    ASSUME NEW s, Len(s) \in Nat, NEW still
    PROVE  Weighed(LocationIndicators(s, still))
<1> DEFINE n == Cardinality(Jumps(s))
           a == When(Mocked(s), "MOCK_LOCATION_DETECTED", One, Pct(98))
           b == When(Jumps(s) # {}, "IMPOSSIBLE_LOCATION_JUMP", JumpScore(n), Pct(90))
           c == When(\E i \in DOMAIN s : s[i].fast, "REPORTED_SPEED_IMPLAUSIBLE", Pct(72), Pct(78))
           d == When(Reversed(s) # {}, "LOCATION_TIMESTAMP_REVERSAL", Pct(58), Pct(65))
           e == When(Known(still) /\ still = TRUE /\ Displacement(s) >= 40,
                     "LOCATION_SENSOR_MISMATCH", Pct(65), Pct(72))
           f == When(SteadyAccuracy(s), "UNNATURALLY_STABLE_ACCURACY", Pct(22), 0)
<1>1. LocationIndicators(s, still) = UNION {a, b, c, d, e, f}
  BY DEF LocationIndicators
<1>2. n \in Nat
  <2>1. IsFiniteSet(2 .. Len(s))
    BY FS_Interval
  <2>2. Jumps(s) \in SUBSET (2 .. Len(s))
    BY DEF Jumps, Hops
  <2>3. IsFiniteSet(Jumps(s))
    <3> DEFINE all == 2 .. Len(s)
    <3> HIDE DEF all
    <3>1. IsFiniteSet(all) /\ Jumps(s) \in SUBSET all => IsFiniteSet(Jumps(s))
      BY FS_Subset
    <3>2. QED
      BY <2>1, <2>2, <3>1 DEF all
  <2>4. QED
    BY <2>3, FS_CardinalityType
<1> HIDE DEF n
<1>3. JumpScore(n) \in Score
  <2>1. 78 + 8 * n \in Nat
    BY <1>2
  <2>2. QED
    BY <2>1, CappedScore, ZeroScore DEF JumpScore
<1>4. Weighed(a) /\ Weighed(b)
  BY <1>3, WhenType, ZeroScore, PctScore
<1>5. Weighed(c) /\ Weighed(d)
  <2> DEFINE fast == \E i \in DOMAIN s : s[i].fast
  <2>1. Pct(72) \in Score /\ Pct(78) \in Score /\ Pct(58) \in Score /\ Pct(65) \in Score
    BY PctScore
  <2> HIDE DEF fast
  <2>2. Weighed(When(fast, "REPORTED_SPEED_IMPLAUSIBLE", Pct(72), Pct(78)))
    BY <2>1, WhenType
  <2>3. Weighed(d)
    BY <2>1, WhenType
  <2>4. QED
    BY <2>2, <2>3 DEF fast
<1>6. Weighed(e) /\ Weighed(f)
  BY WhenType, PctScore, ZeroScore
<1> HIDE DEF a, b, c, d, e, f
<1>7. QED
  BY <1>1, <1>4, <1>5, <1>6 DEF Weighed

LEMMA UsableType ==
    ASSUME NEW fixes \in Seq(LocationFix)
    PROVE  Usable(fixes) \in Seq(LocationFix)
<1> DEFINE P == {i \in DOMAIN fixes : fixes[i].ok}
<1>1. Usable(fixes) = Picked(fixes, P) /\ P \in SUBSET (DOMAIN fixes)
  BY DEF Usable, Passing
<1> DEFINE S == LocationFix
<1>2. fixes \in Seq(S)
  OBVIOUS
<1> HIDE DEF P, S
<1>3. Picked(fixes, P) \in Seq(S)
  BY <1>1, <1>2, PickedType
<1>4. QED
  BY <1>1, <1>3 DEF S

LEMMA LocationRiskType ==
    ASSUME NEW fixes \in Seq(LocationFix), NEW still
    PROVE  Row(LocationRisk(fixes, still))
<1> DEFINE s == Usable(fixes)
           found == LocationIndicators(s, still)
           floor == IF Flagged(s) # {} THEN Pct(65) ELSE Pct(50)
           surest == Surest(found, floor)
           sure == IF Flagged(s) = {} THEN AtMost(surest, Pct(72)) ELSE surest
           worst == Worst(found, 0)
<1>1. \A code, p : p \in Score => Row(NoLocation(code, p))
  <2>1. Pct(50) \in Score
    BY PctScore
  <2>2. QED
    BY <2>1 DEF Row, NoLocation, RiskLevel
<1>2. Len(s) \in Nat
  <2>1. s \in Seq(LocationFix)
    BY UsableType
  <2> HIDE DEF s
  <2>2. QED
    BY <2>1
<1> HIDE DEF s
<1>3. Weighed(found)
  BY <1>2, LocationFound
<1> HIDE DEF found
<1>4. floor \in Score
  BY PctScore
<1> HIDE DEF floor
<1>5. surest \in Score /\ worst \in Score
  BY <1>3, <1>4, ZeroScore, WorstType
<1> HIDE DEF surest, worst
<1>6. sure \in Score
  BY <1>5, PctScore, ScoreOps
<1> HIDE DEF sure
<1>7. Row([level |-> Level(worst), score |-> worst, confidence |-> sure, mock |-> Mocked(s), codes |-> Codes(found)])
  BY <1>5, <1>6, LevelType DEF Row
<1>8. LocationRisk(fixes, still) =
        IF s = <<>>
        THEN IF fixes = <<>> THEN NoLocation("LOCATION_STREAM_UNAVAILABLE", 0)
             ELSE NoLocation("LOCATION_STREAM_MALFORMED", Pct(20))
        ELSE [level |-> Level(worst), score |-> worst, confidence |-> sure, mock |-> Mocked(s), codes |-> Codes(found)]
  BY DEF LocationRisk, s, found, floor, surest, worst, sure
<1>9. 0 \in Score /\ Pct(20) \in Score
  BY ZeroScore, PctScore
<1>10. QED
  BY <1>1, <1>7, <1>8, <1>9

LEMMA DeviceRiskType ==
    ASSUME NEW d, NEW a
    PROVE  DeviceRisk(d, a).score \in Score /\ DeviceRisk(d, a).confidence \in Score
<1> DEFINE found == DeviceIndicators(d)
           score == Worst(found, 0)
           confidence == Surest(found, Pct(25))
           attested == AtLeast(confidence, Pct(95))
<1>1. Weighed(found)
  <2> DEFINE i == When(d.emulator, "EMULATOR_OR_VIRTUAL_DEVICE", Pct(92), Pct(90))
             j == When(d.testKeys, "TEST_KEYS_BUILD", Pct(55), Pct(70))
             k == When(d.root, "ROOT_HEURISTIC", Pct(72), Pct(72))
             l == When(d.debugger, "DEBUGGER_CONNECTED", Pct(35), Pct(65))
  <2>1. found = UNION {i, j, k, l}
    BY DEF DeviceIndicators
  <2>2. Weighed(i) /\ Weighed(j) /\ Weighed(k) /\ Weighed(l)
    BY WhenType, PctScore
  <2> HIDE DEF i, j, k, l, found
  <2>3. QED
    BY <2>1, <2>2 DEF Weighed
<1> HIDE DEF found
<1>2. score \in Score /\ confidence \in Score
  <2>1. Pct(25) \in Score
    BY PctScore
  <2>2. QED
    BY <1>1, <2>1, ZeroScore, WorstType
<1> HIDE DEF score, confidence
<1>3. /\ attested \in Score /\ AtMost(score, Pct(15)) \in Score /\ AtLeast(score, Pct(98)) \in Score
      /\ AtLeast(score, Pct(40)) \in Score /\ AtLeast(confidence, Pct(62)) \in Score
  <2>1. Pct(95) \in Score /\ Pct(15) \in Score /\ Pct(98) \in Score /\ Pct(40) \in Score /\ Pct(62) \in Score
    BY PctScore
  <2>2. QED
    BY <1>2, <2>1, ScoreOps
<1> HIDE DEF attested
<1> DEFINE risk == DeviceRisk(d, a)
<1>4. /\ risk.score \in {score, AtMost(score, Pct(15)), AtLeast(score, Pct(98)), AtLeast(score, Pct(40))}
      /\ risk.confidence \in {confidence, attested, AtLeast(confidence, Pct(62))}
  BY DEF DeviceRisk, found, score, confidence, attested
<1> HIDE DEF risk
<1>5. risk.score \in Score /\ risk.confidence \in Score
  BY <1>2, <1>3, <1>4
<1>6. QED
  BY <1>5 DEF risk

LEMMA GreatestOf3 ==
    ASSUME NEW x \in Score, NEW y \in Score, NEW z \in Score
    PROVE  Max({x, y, z}) \in Score
<1> DEFINE S == {x, y, z}
<1>1. S \in SUBSET Score /\ S # {}
  OBVIOUS
<1> HIDE DEF S
<1>2. Max(S) \in Score
  BY <1>1, ExtremeScores
<1>3. QED
  BY <1>2 DEF S

LEMMA GreatestOf5 ==
    ASSUME NEW v \in Score, NEW w \in Score, NEW x \in Score, NEW y \in Score, NEW z \in Score
    PROVE  Max({v, w, x, y, z}) \in Score
<1> DEFINE S == {v, w, x, y, z}
<1>1. S \in SUBSET Score /\ S # {}
  OBVIOUS
<1> HIDE DEF S
<1>2. Max(S) \in Score
  BY <1>1, ExtremeScores
<1>3. QED
  BY <1>2 DEF S

LEMMA SensorAnomalyType ==
    ASSUME NEW n \in SensorCounts
    PROVE  SensorAnomaly(n) \in Score
<1>1. /\ n.samples \in Nat /\ n.reversals \in Nat /\ n.gaps \in Nat /\ n.outOfRange \in Nat
      /\ n.repeated \in Nat /\ n.windows \in Nat /\ n.malformed \in Nat
  BY DEF SensorCounts
<1> DEFINE reversal == IF n.reversals > 0 THEN AtMost(One, Pct(75 + 5 * n.reversals)) ELSE 0
           gap == IF n.gaps > 0 THEN AtMost(Pct(75), Pct(35 + 8 * n.gaps)) ELSE 0
           regular == IF n.regular THEN Pct(18) ELSE 0
<1>2. reversal \in Score /\ gap \in Score /\ regular \in Score
  <2>1. 75 + 5 * n.reversals \in Nat /\ 35 + 8 * n.gaps \in Nat
    BY <1>1
  <2>2. Pct(75) \in Score /\ Pct(18) \in Score
    BY PctScore
  <2>3. QED
    BY <2>1, <2>2, CappedScore, ZeroScore
<1>3. TimestampScore(n) \in Score
  <2>1. TimestampScore(n) = Max({reversal, gap, regular})
    BY DEF TimestampScore
  <2> HIDE DEF reversal, gap, regular
  <2>2. QED
    BY <1>2, <2>1, GreatestOf3
<1> HIDE DEF reversal, gap, regular
<1>4. RangeScore(n) \in Score
  <2>1. 88 + 2 * n.outOfRange \in Nat
    BY <1>1
  <2>2. AtMost(One, Pct(88 + 2 * n.outOfRange)) \in Score /\ Pct(60) \in Score
    BY <2>1, CappedScore, ZeroScore, PctScore
  <2>3. QED
    BY <2>2, ZeroScore, ScoreOps DEF RangeScore
<1>5. RepetitionScore(n) \in Score
  <2> DEFINE half == AtLeast(1, n.windows \div 2)
             share == (n.repeated * One) \div half
  <2>1. half \in Nat \ {0}
    BY <1>1 DEF AtLeast
  <2>2. n.repeated * One \in Nat
    BY <1>1, ScoreOps, ProductNat
  <2> HIDE DEF half
  <2>3. share \in Nat
    BY <2>1, <2>2, DivNat
  <2> HIDE DEF share
  <2>4. AtMost(One, share) \in Score /\ Pct(55) \in Score
    BY <2>3, ScoreOps, ZeroScore, PctScore
  <2>5. RepetitionScore(n) \in {0, AtLeast(AtMost(One, share), Pct(55)), AtLeast(AtMost(One, share), 0)}
    BY DEF RepetitionScore, share, half
  <2>6. AtLeast(AtMost(One, share), Pct(55)) \in Score /\ AtLeast(AtMost(One, share), 0) \in Score
    BY <2>4, ZeroScore, ScoreOps
  <2>7. QED
    BY <2>5, <2>6, ZeroScore
<1> DEFINE conflict == IF n.conflict THEN Pct(85) ELSE 0
           malformed == IF n.malformed > AtLeast(5, (n.samples + n.malformed) \div 20) THEN Pct(45) ELSE 0
           a == Part(85, TimestampScore(n))
           b == Part(75, RepetitionScore(n))
<1>6. conflict \in Score /\ malformed \in Score
  BY PctScore, ZeroScore
<1>7. a \in Score /\ b \in Score
  BY <1>3, <1>5, PartScore
<1>8. SensorAnomaly(n) = Max({RangeScore(n), conflict, a, b, malformed})
  BY DEF SensorAnomaly
<1> HIDE DEF conflict, malformed, a, b
<1>9. QED
  BY <1>4, <1>6, <1>7, <1>8, GreatestOf5

LEMMA SensorRiskType ==
    ASSUME NEW n \in SensorCounts
    PROVE  Row(SensorRisk(n))
<1> DEFINE extra == AtMost(Pct(45), n.samples * 60)
           sure == AtMost(Pct(95), Pct(45) + extra)
<1>1. extra \in Nat
  <2>1. n.samples \in Nat
    BY DEF SensorCounts
  <2>2. QED
    BY <2>1 DEF AtMost, Pct
<1> HIDE DEF extra
<1>2. sure \in Score
  <2>1. Pct(45) + extra \in Nat
    BY <1>1 DEF Pct
  <2>2. Pct(95) \in Score
    BY PctScore
  <2>3. QED
    BY <2>1, <2>2, ScoreOps
<1>3. SensorRisk(n) =
        IF n.samples + n.malformed = 0 THEN [level |-> "INCONCLUSIVE", score |-> Pct(50), confidence |-> 0]
        ELSE [level |-> Level(SensorAnomaly(n)), score |-> SensorAnomaly(n), confidence |-> sure]
  BY DEF SensorRisk, extra
<1> HIDE DEF sure
<1>4. Pct(50) \in Score /\ 0 \in Score
  BY PctScore, ZeroScore
<1>5. QED
  BY <1>2, <1>3, <1>4, SensorAnomalyType, LevelType DEF Row, RiskLevel

LEMMA ReuseType == ASSUME NEW kinds PROVE Reuse(kinds).score \in Score
<1>1. Pct(82) \in Score /\ Pct(68) \in Score
  BY PctScore
<1>2. QED
  BY <1>1, ZeroScore DEF Reuse

LEMMA ThreeParts ==
    ASSUME NEW p \in 0 .. 100, NEW x \in Score, NEW q \in 0 .. 100, NEW y \in Score,
           NEW r \in 0 .. 100, NEW z \in Score, p + q + r <= 100
    PROVE  Part(p, x) + Part(q, y) + Part(r, z) \in Score
<1> DEFINE u == Part(p, x)
           v == Part(q, y)
           w == Part(r, z)
<1>1. u \in Int /\ 0 <= u /\ u <= Pct(p)
  BY PartBound
<1>2. v \in Int /\ 0 <= v /\ v <= Pct(q)
  BY PartBound
<1>3. w \in Int /\ 0 <= w /\ w <= Pct(r)
  BY PartBound
<1> HIDE DEF u, v, w
<1>4. u + v + w \in Int /\ 0 <= u + v + w /\ u + v + w <= 60000
  BY <1>1, <1>2, <1>3 DEF Pct
<1>5. u + v + w \in Score
  BY <1>4, ScoreRange
<1>6. QED
  BY <1>5 DEF u, v, w

LEMMA CappedSum ==
    ASSUME NEW p \in Nat, NEW q \in 0 .. 100, NEW x \in Score, NEW cap \in 0 .. 100
    PROVE  AtMost(Pct(cap), Pct(p) + Part(q, x)) \in Score
<1> DEFINE y == Part(q, x)
<1>1. y \in Int /\ 0 <= y
  BY PartBound
<1> HIDE DEF y
<1>2. Pct(p) + y \in Nat
  BY <1>1 DEF Pct
<1>3. Pct(cap) \in Score
  BY PctScore
<1>4. AtMost(Pct(cap), Pct(p) + y) \in Score
  BY <1>2, <1>3, ScoreOps
<1>5. QED
  BY <1>4 DEF y

LEMMA ArtifactType == ASSUME NEW f \in FrameScores PROVE Artifact(f) \in Score
<1> DEFINE sum == Part(65, f.rectangle) + Part(20, f.banding) + Part(15, f.moire)
<1>1. f.rectangle \in Score /\ f.banding \in Score /\ f.moire \in Score
  BY DEF FrameScores
<1>2. sum \in Score
  <2> DEFINE p == 65
             q == 20
             r == 15
  <2>1. p \in 0 .. 100 /\ q \in 0 .. 100 /\ r \in 0 .. 100 /\ p + q + r <= 100
    OBVIOUS
  <2> HIDE DEF p, q, r
  <2>2. Part(p, f.rectangle) + Part(q, f.banding) + Part(r, f.moire) \in Score
    BY <1>1, <2>1, ThreeParts
  <2>3. QED
    BY <2>2 DEF p, q, r
<1>3. Artifact(f) = Max({sum, f.banding, f.moire})
  BY DEF Artifact
<1> HIDE DEF sum
<1>4. QED
  BY <1>1, <1>2, <1>3, GreatestOf3

LEMMA ReplayScoreType ==
    ASSUME NEW f \in FrameScores, NEW mismatch \in Score, NEW duplicate \in Score, NEW reuse \in Score
    PROVE  ReplayScore(f, mismatch, duplicate, reuse) \in Score
<1> DEFINE art == Artifact(f)
           a == Part(45, art) + Part(40, mismatch) + Part(15, duplicate)
           b == Part(58, art) + Part(42, duplicate)
           weighed == Max({reuse, a, b})
           capped == IF RectangleOnly(f, mismatch) THEN AtMost(weighed, Pct(55)) ELSE weighed
<1>1. ReplayScore(f, mismatch, duplicate, reuse) = IF reuse >= Pct(98) THEN AtLeast(capped, Pct(98)) ELSE capped
  BY DEF ReplayScore
<1>2. art \in Score
  BY ArtifactType
<1> HIDE DEF art
<1>3. a \in Score
  <2> DEFINE p == 45
             q == 40
             r == 15
  <2>1. p \in 0 .. 100 /\ q \in 0 .. 100 /\ r \in 0 .. 100 /\ p + q + r <= 100
    OBVIOUS
  <2> HIDE DEF p, q, r
  <2>2. Part(p, art) + Part(q, mismatch) + Part(r, duplicate) \in Score
    BY <1>2, <2>1, ThreeParts
  <2>3. QED
    BY <2>2 DEF p, q, r
<1>4. b \in Score
  <2> DEFINE p == 58
             q == 42
  <2>p. p \in 0 .. 100 /\ q \in 0 .. 100 /\ p + q <= 100
    OBVIOUS
  <2> HIDE DEF p, q
  <2>q. Part(p, art) + Part(q, duplicate) \in Score
    BY <1>2, <2>p, TwoParts
  <2>1. QED
    BY <2>q DEF p, q
<1> HIDE DEF a, b
<1>5. weighed \in Score
  BY <1>3, <1>4, GreatestOf3
<1> HIDE DEF weighed
<1>6. Pct(55) \in Score /\ Pct(98) \in Score
  BY PctScore
<1>7. capped \in Score
  BY <1>5, <1>6, ScoreOps
<1> HIDE DEF capped
<1>8. QED
  BY <1>1, <1>6, <1>7, ScoreOps

LEMMA ReplayRiskType ==
    ASSUME NEW f \in FrameScores, NEW mismatch \in Score, NEW duplicate \in Score, NEW reuse \in Score
    PROVE  Row(ReplayRisk(f, mismatch, duplicate, reuse))
<1> DEFINE score == ReplayScore(f, mismatch, duplicate, reuse)
           sure == AtMost(Pct(93), Pct(45 + 4 * f.count) + Part(18, AtLeast(mismatch, reuse)))
           corroborated == reuse >= Pct(80) \/ Families(f, mismatch, duplicate) >= 2
           level == IF score >= Pct(72) /\ corroborated THEN "HIGH"
                    ELSE IF score >= Pct(38) THEN "MODERATE" ELSE "LOW"
<1>1. ReplayRisk(f, mismatch, duplicate, reuse) =
        IF f.count = 0
        THEN [level |-> "INCONCLUSIVE", score |-> Pct(50), confidence |-> 0, mismatch |-> mismatch]
        ELSE [level |-> level, score |-> score, mismatch |-> mismatch, confidence |-> sure]
  BY DEF ReplayRisk
<1>2. score \in Score
  BY ReplayScoreType
<1>3. sure \in Score
  <2> DEFINE x == AtLeast(mismatch, reuse)
             n == 45 + 4 * f.count
  <2>1. x \in Score
    BY ScoreOps
  <2>2. n \in Nat
    BY DEF FrameScores
  <2> DEFINE cap == 93
             q == 18
  <2>3. cap \in 0 .. 100 /\ q \in 0 .. 100
    OBVIOUS
  <2> HIDE DEF x, n, cap, q
  <2>4. AtMost(Pct(cap), Pct(n) + Part(q, x)) \in Score
    BY <2>1, <2>2, <2>3, CappedSum
  <2>5. QED
    BY <2>4 DEF x, n, cap, q
<1>4. level \in RiskLevel
  BY DEF RiskLevel
<1> HIDE DEF score, sure, level
<1>5. Pct(50) \in Score /\ 0 \in Score
  BY PctScore, ZeroScore
<1>6. QED
  BY <1>1, <1>2, <1>3, <1>4, <1>5 DEF Row, RiskLevel

LEMMA DisagreementType ==
    ASSUME NEW row, FusedRowType(row)
    PROVE  Disagreement(row) \in Score /\ RowReplayRisk(row) \in Score
<1>1. Disagreement(row) \in Score
  <2>1. Pct(75) \in Score /\ Pct(45) \in Score /\ Pct(40) \in Score
    BY PctScore
  <2>2. ASSUME Known(row.effective) PROVE Clamp(One - row.effective) \in Score
    <3>1. row.effective \in Int
      BY <2>2 DEF FusedRowType, Maybe, Known, Score
    <3>2. One - row.effective \in Int
      BY <3>1, ScoreOps
    <3>3. QED
      BY <3>2, ScoreOps
  <2>3. QED
    BY <2>1, <2>2, ZeroScore DEF Disagreement
<1> DEFINE x == Disagreement(row)
<1>2. Pct(95) \in Score /\ Pct(55) \in Score /\ Pct(75) \in Score
  BY PctScore
<1>3. RowReplayRisk(row) \in {One, Pct(95), AtMost(x, Pct(55)), AtLeast(x, Pct(75)), x}
  BY DEF RowReplayRisk
<1> HIDE DEF x
<1>4. x \in Score
  BY <1>1 DEF x
<1>5. One \in Score /\ AtMost(x, Pct(55)) \in Score /\ AtLeast(x, Pct(75)) \in Score
  BY <1>2, <1>4, ZeroScore, ScoreOps
<1>6. QED
  BY <1>1, <1>2, <1>3, <1>4, <1>5

LEMMA MismatchType ==
    ASSUME NEW rows, \A i \in DOMAIN rows : FusedRowType(rows[i])
    PROVE  MotionMismatch(rows) \in Score
<1> DEFINE S == {0} \cup {RowReplayRisk(rows[i]) : i \in DOMAIN rows}
<1>1. S \in SUBSET Score /\ S # {}
  BY DisagreementType, ZeroScore
<1>2. MotionMismatch(rows) = Max(S)
  BY DEF MotionMismatch
<1> HIDE DEF S
<1>3. QED
  BY <1>1, <1>2, ExtremeScores

(* What is stored of the security analysis.                                *)
StreamType(stream) ==
    /\ stream.fixes \in Seq(LocationFix) /\ stream.sensors \in SensorCounts /\ stream.frames \in FrameScores
    /\ stream.replacedDuplicate \in Score
SecurityType(s) ==
    /\ Row(s.location) /\ Row(s.sensor) /\ Row(s.replay)
    /\ s.overall \in RiskLevel /\ s.confidence \in Score
    /\ s.device.score \in Score /\ s.device.confidence \in Score

LEMMA AssessedType ==
    ASSUME NEW stream, StreamType(stream), NEW rows, \A i \in DOMAIN rows : FusedRowType(rows[i]),
           NEW duplicate \in Score
    PROVE  SecurityType(Assessed(stream, rows, duplicate))
<1> DEFINE location == LocationRisk(stream.fixes, stream.still)
           sensor == SensorRisk(stream.sensors)
           reuse == Reuse(stream.reused)
           device == DeviceRisk(stream.device, stream.attestation)
           mismatch == MotionMismatch(rows)
           replay == ReplayRisk(stream.frames, mismatch, duplicate, reuse.score)
           sures == <<location.confidence, sensor.confidence, replay.confidence, device.confidence>>
           row == Assessed(stream, rows, duplicate)
<1>1. /\ row.location = location /\ row.sensor = sensor /\ row.replay = replay /\ row.device = device
      /\ row.overall = Overall(location, sensor, replay, device)
      /\ row.confidence = Mean(sures)
  BY DEF Assessed
<1>2. Row(location) /\ Row(sensor) /\ device.score \in Score /\ device.confidence \in Score
  BY LocationRiskType, SensorRiskType, DeviceRiskType DEF StreamType
<1>3. Row(replay)
  <2>1. mismatch \in Score /\ reuse.score \in Score
    BY MismatchType, ReuseType
  <2> HIDE DEF mismatch, reuse
  <2>2. QED
    BY <2>1, ReplayRiskType DEF StreamType
<1> HIDE DEF row, location, sensor, device, replay
<1>4. Overall(location, sensor, replay, device) \in RiskLevel
  BY DEF Overall, RiskLevel
<1>5. Mean(sures) \in Score
  <2> DEFINE S == Score
  <2>1. sures \in Seq(S) /\ Len(sures) = 4
    BY <1>2, <1>3 DEF Row
  <2> HIDE DEF S, sures
  <2>2. IsFiniteSet(DOMAIN sures) /\ DOMAIN sures = 1 .. Len(sures) /\ \A i \in 1 .. Len(sures) : sures[i] \in S
    BY <2>1, SequenceOf
  <2>3. DOMAIN sures # {} /\ \A i \in DOMAIN sures : sures[i] \in S
    BY <2>1, <2>2
  <2>4. QED
    BY <2>2, <2>3, MeanScore DEF S
<1> HIDE DEF sures
<1>6. SecurityType(row)
  BY <1>1, <1>2, <1>3, <1>4, <1>5 DEF SecurityType
<1>7. QED
  BY <1>6 DEF row

-----------------------------------------------------------------------------
(* The ranges of the supporting signals.                                   *)
LEMMA SimilarityType == \A a, b \in Int : Similarity(a, b) \in Score
<1> SUFFICES ASSUME NEW a \in Int, NEW b \in Int PROVE Similarity(a, b) \in Score
  OBVIOUS
<1> DEFINE y == (AbsOf(a - b) * One) \div 30
<1>1. AbsOf(a - b) * One \in Nat
  BY AbsType, ScoreOps, ProductNat
<1>2. y \in Nat
  <2> DEFINE x == AbsOf(a - b) * One
  <2> HIDE DEF x
  <2>1. x \in Nat => x \div 30 \in Nat
    BY DivNat
  <2>2. QED
    BY <1>1, <2>1 DEF x
<1>3. Similarity(a, b) = AtLeast(0, One - y)
  BY DEF Similarity
<1> HIDE DEF y
<1>4. One - y \in Int /\ One - y <= One
  BY <1>2, ScoreOps
<1>5. QED
  BY <1>3, <1>4, ZeroScore, ScoreOps

LEMMA CompareType ==
    ASSUME NEW start, NEW end, IsFiniteSet(DOMAIN start), IsFiniteSet(DOMAIN end),
           \A p \in DOMAIN start : start[p] \in Int, \A p \in DOMAIN end : end[p] \in Int,
           DOMAIN start \cup DOMAIN end # {}
    PROVE  CompareWifi(start, end).risk \in Score /\ CompareWifi(start, end).confidence \in Score
<1> DEFINE common == DOMAIN start \cap DOMAIN end
           all == DOMAIN start \cup DOMAIN end
           jaccard == (Cardinality(common) * One) \div Cardinality(all)
           f == [p \in common |-> Similarity(start[p], end[p])]
           strength == IF common = {} THEN 0 ELSE Mean(f)
           consistency == Part(80, jaccard) + Part(20, strength)
           heard == Min({Cardinality(DOMAIN start), Cardinality(DOMAIN end), 8})
           sure == AtMost(Pct(90), Pct(40 + 4 * heard) + Part(15, jaccard))
<1>1. CompareWifi(start, end).risk = One - consistency /\ CompareWifi(start, end).confidence = sure
  BY DEF CompareWifi, Environment
<1>2. IsFiniteSet(all) /\ common \in SUBSET all
  BY FS_Union
<1>3. \A p \in common : f[p] \in Score
  BY SimilarityType
<1>4. DOMAIN f = common
  OBVIOUS
<1>5. heard \in Nat
  <2> DEFINE S == {Cardinality(DOMAIN start), Cardinality(DOMAIN end), 8}
             one == {Cardinality(DOMAIN start)}
             two == {Cardinality(DOMAIN end)}
             three == {8}
  <2>1. S = one \cup (two \cup three) /\ S # {}
    OBVIOUS
  <2>2. IsFiniteSet(one) /\ IsFiniteSet(two) /\ IsFiniteSet(three)
    BY FS_Singleton
  <2>3. \A x \in S : x \in Nat
    BY FS_CardinalityType
  <2> HIDE DEF S, one, two, three
  <2>4. IsFiniteSet(S)
    BY <2>1, <2>2, FS_Union
  <2>5. Min(S) \in S
    BY <2>1, <2>3, <2>4, MinExists
  <2>6. QED
    BY <2>3, <2>5 DEF S
<1> HIDE DEF f, heard
<1>6. IsFiniteSet(common) /\ Cardinality(common) \in Nat /\ Cardinality(all) \in Nat
      /\ Cardinality(common) <= Cardinality(all) /\ all # {}
  <2> HIDE DEF common, all
  <2>1. all # {}
    BY DEF all
  <2>2. QED
    BY <1>2, <2>1, FS_Subset, FS_CardinalityType
<1> HIDE DEF common, all
<1>7. Cardinality(all) \in Nat \ {0}
  BY <1>2, <1>6, FS_EmptySet
<1>8. jaccard \in Score
  BY <1>6, <1>7, ShareBound
<1>9. strength \in Score
  BY <1>3, <1>4, <1>6, MeanScore, ZeroScore
<1> HIDE DEF jaccard, strength
<1>10. consistency \in Score
  <2> DEFINE p == 80
             q == 20
  <2>p. p \in 0 .. 100 /\ q \in 0 .. 100 /\ p + q <= 100
    OBVIOUS
  <2> HIDE DEF p, q
  <2>q. Part(p, jaccard) + Part(q, strength) \in Score
    BY <1>8, <1>9, <2>p, TwoParts
  <2>1. QED
    BY <2>q DEF p, q
<1>11. sure \in Score
  <2> DEFINE n == 40 + 4 * heard
  <2>1. n \in Nat
    BY <1>5
  <2> DEFINE cap == 90
             q == 15
  <2>2. cap \in 0 .. 100 /\ q \in 0 .. 100
    OBVIOUS
  <2> HIDE DEF n, cap, q
  <2>3. AtMost(Pct(cap), Pct(n) + Part(q, jaccard)) \in Score
    BY <1>8, <2>1, <2>2, CappedSum
  <2>4. QED
    BY <2>3 DEF n, cap, q
<1> HIDE DEF consistency, sure
<1>12. One - consistency \in Score
  BY <1>10, ScoreOps DEF Score
<1>13. QED
  BY <1>1, <1>11, <1>12

LEMMA EnvironmentType ==
    ASSUME NEW w, Known(w) => Len(w) \in Nat /\ \A i \in 1 .. Len(w) : WifiInput(w[i])
    PROVE  EnvironmentSignal(w).risk \in Score /\ EnvironmentSignal(w).confidence \in Score
<1>1. Pct(10) \in Score /\ Pct(15) \in Score /\ 0 \in Score
  BY PctScore, ZeroScore
<1>2. CASE ~Known(w) \/ Len(w) < 2 \/ DOMAIN w[1].points \cup DOMAIN w[Len(w)].points = {}
  BY <1>1, <1>2 DEF EnvironmentSignal, Environment, NoWifi
<1>3. CASE ~(~Known(w) \/ Len(w) < 2 \/ DOMAIN w[1].points \cup DOMAIN w[Len(w)].points = {})
  <2>1. WifiInput(w[1]) /\ WifiInput(w[Len(w)])
    BY <1>3
  <2>2. EnvironmentSignal(w) = CompareWifi(w[1].points, w[Len(w)].points)
    BY <1>3 DEF EnvironmentSignal
  <2> DEFINE start == w[1].points
             end == w[Len(w)].points
  <2>3. /\ IsFiniteSet(DOMAIN start) /\ IsFiniteSet(DOMAIN end) /\ DOMAIN start \cup DOMAIN end # {}
        /\ \A p \in DOMAIN start : start[p] \in Int
        /\ \A p \in DOMAIN end : end[p] \in Int
    BY <1>3, <2>1 DEF WifiInput
  <2>4. EnvironmentSignal(w) = CompareWifi(start, end)
    BY <2>2
  <2> HIDE DEF start, end
  <2>5. QED
    BY <2>3, <2>4, CompareType
<1>4. QED
  BY <1>2, <1>3

LEMMA MedianType ==
    ASSUME NEW s, IsFiniteSet(DOMAIN s), \A i \in DOMAIN s : s[i] \in Score
    PROVE  Median(s) \in Score
<1> DEFINE size == Cardinality(DOMAIN s)
           R == Range(s)
           low == {v \in R : 2 * AtOrBelow(s, v) >= size}
           high == {v \in R : 2 * AtOrBelow(s, v) > size}
<1>1. Median(s) = IF size = 0 THEN 0 ELSE (Min(low) + Min(high)) \div 2
  BY DEF Median
<1>2. R \in SUBSET Score /\ (DOMAIN s # {} => R # {}) /\ \A i \in DOMAIN s : s[i] \in R
  BY DEF Range
<1>3. size \in Nat /\ (size # 0 => DOMAIN s # {})
  BY FS_CardinalityType, FS_EmptySet
<1> HIDE DEF size, R
<1>4. ASSUME size # 0 PROVE Max(R) \in low /\ Max(R) \in high
  <2>1. Max(R) \in R /\ \A y \in R : Max(R) >= y
    <3>1. IsFiniteSet(R) /\ R # {} /\ \A y \in R : y \in Int
      BY <1>2, <1>3, <1>4, ScoresFinite, ScoreRange
    <3>2. QED
      BY <3>1, MaxExists
  <2>2. {i \in DOMAIN s : s[i] <= Max(R)} = DOMAIN s
    <3>1. \A i \in DOMAIN s : s[i] \in R /\ s[i] \in Int
      BY <1>2, ScoreRange
    <3>2. Max(R) \in Int
      BY <1>2, <2>1, ScoreRange
    <3>3. QED
      BY <2>1, <3>1, <3>2
  <2>3. AtOrBelow(s, Max(R)) = size
    BY <2>2 DEF AtOrBelow, size
  <2>4. 2 * size >= size /\ 2 * size > size
    BY <1>3, <1>4
  <2>5. QED
    BY <2>1, <2>3, <2>4
<1>5. low \in SUBSET Score /\ high \in SUBSET Score
  BY <1>2
<1> HIDE DEF low, high
<1>6. ASSUME size # 0 PROVE (Min(low) + Min(high)) \div 2 \in Score
  <2> DEFINE a == Min(low)
             b == Min(high)
  <2>1. a \in Score /\ b \in Score
    BY <1>4, <1>5, <1>6, ExtremeScores
  <2> HIDE DEF a, b
  <2>2. a + b \in Nat /\ a + b <= 2 * One
    BY <2>1, ScoreOps DEF Score
  <2> DEFINE c == a + b
  <2> HIDE DEF c
  <2>3. c \in Nat /\ One \in Nat /\ c <= 2 * One
    BY <2>2, ScoreOps DEF c
  <2>4. c \div 2 \in 0 .. One
    BY <2>3, DivBound
  <2>5. QED
    BY <2>4 DEF a, b, c, Score
<1>7. QED
  BY <1>1, <1>6, ZeroScore

LEMMA AnomalyWeightsSum ==
    /\ IsFiniteSet(DOMAIN AnomalyWeights)
    /\ \A n \in DOMAIN AnomalyWeights : AnomalyWeights[n] \in 0 .. 100
    /\ SumFunctionOnSet(AnomalyWeights, DOMAIN AnomalyWeights) = 100
<1> DEFINE w == AnomalyWeights
           D == DOMAIN w
           D1 == D \ {"sensorAnomaly"}
           D2 == D1 \ {"fusionDisagreement"}
           D3 == D2 \ {"timingResidual"}
           D4 == D3 \ {"angleResidual"}
           D5 == D4 \ {"duplicateFrames"}
           D6 == D5 \ {"locationRisk"}
           D7 == D6 \ {"environmentRisk"}
<1>1. D = {"sensorAnomaly", "fusionDisagreement", "timingResidual", "angleResidual", "duplicateFrames",
           "locationRisk", "environmentRisk"}
  BY DEF AnomalyWeights
<1>2. /\ w["sensorAnomaly"] = 26 /\ w["fusionDisagreement"] = 26 /\ w["timingResidual"] = 14
      /\ w["angleResidual"] = 10 /\ w["duplicateFrames"] = 10 /\ w["locationRisk"] = 9
      /\ w["environmentRisk"] = 5
  BY DEF AnomalyWeights
<1>3. \A n \in D : w[n] \in 0 .. 100 /\ w[n] \in Int
  BY <1>1, <1>2
<1>4. /\ D7 = {} /\ D6 = {} \cup {"environmentRisk"} /\ D5 = D6 \cup {"locationRisk"}
      /\ D4 = D5 \cup {"duplicateFrames"} /\ D3 = D4 \cup {"angleResidual"} /\ D2 = D3 \cup {"timingResidual"}
      /\ D1 = D2 \cup {"fusionDisagreement"} /\ D = D1 \cup {"sensorAnomaly"}
  BY <1>1
<1> HIDE DEF w, D
<1>5. SumFunctionOnSet(w, {}) = 0
  BY SumEmpty
<1>6. IsFiniteSet(D6)
  BY <1>4, FS_EmptySet, FS_AddElement
<1>7. IsFiniteSet(D5)
  <2> HIDE DEF D6
  <2>1. QED
    BY <1>4, <1>6, FS_AddElement
<1>8. IsFiniteSet(D4)
  <2> HIDE DEF D5
  <2>1. QED
    BY <1>4, <1>7, FS_AddElement
<1>9. IsFiniteSet(D3)
  <2> HIDE DEF D4
  <2>1. QED
    BY <1>4, <1>8, FS_AddElement
<1>10. IsFiniteSet(D2)
  <2> HIDE DEF D3
  <2>1. QED
    BY <1>4, <1>9, FS_AddElement
<1>11. IsFiniteSet(D1)
  <2> HIDE DEF D2
  <2>1. QED
    BY <1>4, <1>10, FS_AddElement
<1>12. IsFiniteSet(D)
  <2> HIDE DEF D1
  <2>1. QED
    BY <1>4, <1>11, FS_AddElement
<1>13. /\ "sensorAnomaly" \in D /\ "fusionDisagreement" \in D1 /\ "timingResidual" \in D2 /\ "angleResidual" \in D3
       /\ "duplicateFrames" \in D4 /\ "locationRisk" \in D5 /\ "environmentRisk" \in D6
  BY <1>4
<1>14. SumFunctionOnSet(w, D) = 26 + SumFunctionOnSet(w, D1)
  BY <1>2, <1>3, <1>12, <1>13, SumAt
<1>15. SumFunctionOnSet(w, D1) = 26 + SumFunctionOnSet(w, D2)
  <2> HIDE DEF D1
  <2>1. \A n \in D1 : w[n] \in Int
    BY <1>3 DEF D1
  <2>2. QED
    BY <1>2, <1>11, <1>13, <2>1, SumAt
<1>16. SumFunctionOnSet(w, D2) = 14 + SumFunctionOnSet(w, D3)
  <2>1. \A n \in D2 : w[n] \in Int
    BY <1>3
  <2> HIDE DEF D2
  <2>2. QED
    BY <1>2, <1>10, <1>13, <2>1, SumAt
<1>17. SumFunctionOnSet(w, D3) = 10 + SumFunctionOnSet(w, D4)
  <2>1. \A n \in D3 : w[n] \in Int
    BY <1>3
  <2> HIDE DEF D3
  <2>2. QED
    BY <1>2, <1>9, <1>13, <2>1, SumAt
<1>18. SumFunctionOnSet(w, D4) = 10 + SumFunctionOnSet(w, D5)
  <2>1. \A n \in D4 : w[n] \in Int
    BY <1>3
  <2> HIDE DEF D4
  <2>2. QED
    BY <1>2, <1>8, <1>13, <2>1, SumAt
<1>19. SumFunctionOnSet(w, D5) = 9 + SumFunctionOnSet(w, D6)
  <2>1. \A n \in D5 : w[n] \in Int
    BY <1>3
  <2> HIDE DEF D5
  <2>2. QED
    BY <1>2, <1>7, <1>13, <2>1, SumAt
<1>20. SumFunctionOnSet(w, D6) = 5 + SumFunctionOnSet(w, D7)
  <2>1. \A n \in D6 : w[n] \in Int
    BY <1>3
  <2> HIDE DEF D6
  <2>2. QED
    BY <1>2, <1>6, <1>13, <2>1, SumAt
<1>21. SumFunctionOnSet(w, D) = 100
  <2> HIDE DEF D1, D2, D3, D4, D5, D6, D7
  <2>1. QED
    BY <1>4, <1>5, <1>14, <1>15, <1>16, <1>17, <1>18, <1>19, <1>20
<1>22. QED
  BY <1>3, <1>12, <1>21 DEF D, w

LEMMA AnomalyScoreType ==
    ASSUME NEW c, DOMAIN c = DOMAIN AnomalyWeights, \A n \in DOMAIN c : c[n] \in Score
    PROVE  AnomalyScore(c) \in Score
<1> DEFINE D == DOMAIN c
           f == [n \in D |-> Part(AnomalyWeights[n], c[n])]
           g == [n \in D |-> 600 * AnomalyWeights[n]]
<1>1. IsFiniteSet(D) /\ SumFunctionOnSet(AnomalyWeights, D) = 100
      /\ \A n \in D : AnomalyWeights[n] \in 0 .. 100
  BY AnomalyWeightsSum
<1>2. \A n \in D : f[n] \in Int /\ 0 <= f[n] /\ f[n] <= g[n]
  <2> SUFFICES ASSUME NEW n \in D PROVE f[n] \in Int /\ 0 <= f[n] /\ f[n] <= g[n]
    OBVIOUS
  <2>1. Part(AnomalyWeights[n], c[n]) \in Int /\ 0 <= Part(AnomalyWeights[n], c[n])
        /\ Part(AnomalyWeights[n], c[n]) <= Pct(AnomalyWeights[n])
    BY <1>1, PartBound
  <2>2. Pct(AnomalyWeights[n]) = g[n] /\ f[n] = Part(AnomalyWeights[n], c[n])
    BY DEF Pct
  <2> HIDE DEF f, g
  <2>3. QED
    BY <2>1, <2>2
<1>3. \A n \in D : AnomalyWeights[n] \in Int /\ g[n] = 600 * AnomalyWeights[n] /\ g[n] \in Int
  BY <1>1
<1>4. AnomalyScore(c) = SumFunctionOnSet(f, D)
  BY DEF AnomalyScore, SumFunction
<1> HIDE DEF f, g, D
<1>5. SumFunctionOnSet(g, D) = 600 * SumFunctionOnSet(AnomalyWeights, D)
  <2> DEFINE k == 600
             w == AnomalyWeights
  <2>1. IsFiniteSet(D) /\ k \in Int /\ \A n \in D : w[n] \in Int /\ g[n] = k * w[n]
    BY <1>1, <1>3
  <2> HIDE DEF k, w
  <2>2. SumFunctionOnSet(g, D) = k * SumFunctionOnSet(w, D)
    BY <2>1, SumScaled
  <2>3. QED
    BY <2>2 DEF k, w
<1>6. SumFunctionOnSet(f, D) <= SumFunctionOnSet(g, D)
  BY <1>1, <1>2, <1>3, SumMonotone
<1>7. SumFunctionOnSet(f, D) \in Nat
  BY <1>1, <1>2, SumNat
<1>8. QED
  BY <1>1, <1>4, <1>5, <1>6, <1>7, ScoreRange

LEMMA MedianOfRows ==
    ASSUME NEW rows, IsFiniteSet(DOMAIN rows), \A i \in DOMAIN rows : FusedRowType(rows[i])
    PROVE  /\ MedianOf(rows, LAMBDA r : Known(r.effective), LAMBDA r : Clamp(One - r.effective)) \in Score
           /\ MedianOf(rows, LAMBDA r : r.offsets # {}, TimingResidual) \in Score
           /\ MedianOf(rows, LAMBDA r : Known(r.angleError), AngleResidual) \in Score
<1> DEFINE A == {j \in DOMAIN rows : Known(rows[j].effective)}
           B == {j \in DOMAIN rows : rows[j].offsets # {}}
           C == {j \in DOMAIN rows : Known(rows[j].angleError)}
           a == [i \in A |-> Clamp(One - rows[i].effective)]
           b == [i \in B |-> TimingResidual(rows[i])]
           c == [i \in C |-> AngleResidual(rows[i])]
<1>1. /\ MedianOf(rows, LAMBDA r : Known(r.effective), LAMBDA r : Clamp(One - r.effective)) = Median(a)
      /\ MedianOf(rows, LAMBDA r : r.offsets # {}, TimingResidual) = Median(b)
      /\ MedianOf(rows, LAMBDA r : Known(r.angleError), AngleResidual) = Median(c)
  BY DEF MedianOf
<1>2. IsFiniteSet(A) /\ IsFiniteSet(B) /\ IsFiniteSet(C)
  <2>1. A \subseteq DOMAIN rows /\ B \subseteq DOMAIN rows /\ C \subseteq DOMAIN rows
    OBVIOUS
  <2> HIDE DEF A, B, C
  <2>2. QED
    BY <2>1, FS_Subset
<1>3. \A i \in A : a[i] \in Score
  <2> SUFFICES ASSUME NEW i \in A PROVE Clamp(One - rows[i].effective) \in Score
    OBVIOUS
  <2>1. rows[i].effective \in Int
    BY DEF FusedRowType, Maybe, Known, Score
  <2>2. One - rows[i].effective \in Int
    BY <2>1, ScoreOps
  <2>3. QED
    BY <2>2, ScoreOps
<1>4. \A i \in B : b[i] \in Score
  <2> SUFFICES ASSUME NEW i \in B PROVE TimingResidual(rows[i]) \in Score
    OBVIOUS
  <2> DEFINE S == rows[i].offsets
             y == (Max(S) * One) \div 1800
  <2>1. IsFiniteSet(S) /\ S # {} /\ \A x \in S : x \in Nat
    BY DEF FusedRowType
  <2> HIDE DEF S
  <2>2. Max(S) \in Nat
    BY <2>1, MaxExists
  <2>3. Max(S) * One \in Nat
    BY <2>2, ScoreOps, ProductNat
  <2>4. y \in Int
    <3> DEFINE x == Max(S) * One
               z == 1800
    <3>1. z \in Nat \ {0}
      OBVIOUS
    <3> HIDE DEF x, z
    <3>2. x \in Nat => x \div z \in Nat
      BY <3>1, DivNat
    <3>3. QED
      BY <2>3, <3>2 DEF x, z
  <2>5. TimingResidual(rows[i]) = Clamp(y)
    BY DEF TimingResidual, S
  <2> HIDE DEF y
  <2>6. QED
    BY <2>4, <2>5, ScoreOps
<1>5. \A i \in C : c[i] \in Score
  <2> SUFFICES ASSUME NEW i \in C PROVE AngleResidual(rows[i]) \in Score
    OBVIOUS
  <2> DEFINE normalized == Clamp(rows[i].angleError * 10)
  <2>1. rows[i].angleError * 10 \in Int
    BY DEF FusedRowType, Maybe, Known
  <2>2. normalized \in Score
    BY <2>1, ScoreOps
  <2>3. AngleResidual(rows[i]) = IF rows[i].sameDirection THEN AtMost(normalized, Pct(55)) ELSE normalized
    BY DEF AngleResidual
  <2> HIDE DEF normalized
  <2>4. Pct(55) \in Score
    BY PctScore
  <2>5. AtMost(normalized, Pct(55)) \in Score
    BY <2>2, <2>4, ScoreOps
  <2>6. QED
    BY <2>2, <2>3, <2>5
<1>6. DOMAIN a = A /\ DOMAIN b = B /\ DOMAIN c = C
  OBVIOUS
<1> HIDE DEF a, b, c, A, B, C
<1>7. Median(a) \in Score /\ Median(b) \in Score /\ Median(c) \in Score
  BY <1>2, <1>3, <1>4, <1>5, <1>6, MedianType
<1>8. QED
  BY <1>1, <1>7

LEMMA SupportingType ==
    ASSUME NEW w, Known(w) => Len(w) \in Nat /\ \A i \in 1 .. Len(w) : WifiInput(w[i]),
           NEW stored, Known(stored) => SecurityType(stored), NEW duplicate \in Score,
           NEW rows, IsFiniteSet(DOMAIN rows), \A i \in DOMAIN rows : FusedRowType(rows[i])
    PROVE  /\ SupportingSignals(w, stored, duplicate, rows).score \in Score
           /\ SupportingSignals(w, stored, duplicate, rows).confidence \in Score
<1> DEFINE environment == EnvironmentSignal(w)
           sensor == IF Known(stored) THEN stored["sensor"].score ELSE 0
           location == IF Known(stored) THEN stored["location"].score ELSE 0
           components == AnomalyComponents(sensor, location, duplicate, environment, rows)
           features == 5 + (IF DOMAIN rows = {} THEN 0 ELSE 1) + (IF environment.confidence > 0 THEN 1 ELSE 0)
           row == SupportingSignals(w, stored, duplicate, rows)
<1>1. row.score = AnomalyScore(components) /\ row.confidence = AtMost(Pct(92), Pct(50 + 5 * features))
  BY DEF SupportingSignals
<1>2. environment.risk \in Score /\ environment.confidence \in Score
  BY EnvironmentType
<1>3. sensor \in Score /\ location \in Score
  BY ZeroScore DEF SecurityType, Row
<1>4. 50 + 5 * features \in Nat
  OBVIOUS
<1> HIDE DEF row, environment, sensor, location, features
<1>5. Times(environment.risk, environment.confidence) \in Score
  BY <1>2, TimesScore
<1>6. DOMAIN components = DOMAIN AnomalyWeights /\ \A n \in DOMAIN components : components[n] \in Score
  <2> DEFINE a == MedianOf(rows, LAMBDA r : Known(r.effective), LAMBDA r : Clamp(One - r.effective))
             b == MedianOf(rows, LAMBDA r : r.offsets # {}, TimingResidual)
             c == MedianOf(rows, LAMBDA r : Known(r.angleError), AngleResidual)
             d == Times(environment.risk, environment.confidence)
  <2>1. a \in Score /\ b \in Score /\ c \in Score /\ d \in Score
    BY <1>5, MedianOfRows
  <2>2. components = [sensorAnomaly |-> sensor, fusionDisagreement |-> a, timingResidual |-> b, angleResidual |-> c,
                      duplicateFrames |-> duplicate, locationRisk |-> location, environmentRisk |-> d]
    BY DEF AnomalyComponents
  <2> HIDE DEF a, b, c, d, components
  <2>3. QED
    BY <1>3, <2>1, <2>2 DEF AnomalyWeights
<1> HIDE DEF components
<1>7. AnomalyScore(components) \in Score
  BY <1>6, AnomalyScoreType
<1>8. AtMost(Pct(92), Pct(50 + 5 * features)) \in Score
  <2>1. Pct(92) \in Score
    BY PctScore
  <2>2. QED
    BY <1>4, <2>1, CappedScore
<1>9. QED
  BY <1>1, <1>7, <1>8 DEF row

-----------------------------------------------------------------------------
(* The ranges of the seven signals and of the score that is made of them.  *)
SignalOK(s) ==
    /\ s.status \in SignalStatus /\ s.score \in Score /\ s.confidence \in Score
    /\ s.available = (s.status # "UNAVAILABLE")
TakesType(ts) ==
    ts \in Seq(Range(ts)) /\ \A i \in DOMAIN ts : OutcomeType(ts[i].outcome)
RowsType(rows) == IsFiniteSet(DOMAIN rows) /\ \A i \in DOMAIN rows : RowType(rows[i])
FusedRowsType(rows) == IsFiniteSet(DOMAIN rows) /\ \A i \in DOMAIN rows : FusedRowType(rows[i])

LEMMA SignalType1 ==
    \A metrics : \A status \in SignalStatus : \A score, confidence \in Score :
        SignalOK(Signal(status, score, confidence, metrics))
BY DEF SignalOK, Signal

LEMMA UnavailableType == SignalOK(Unavailable)
BY ZeroScore, SignalType1 DEF Unavailable, SignalStatus

LEMMA StatusOfScoreType == \A x : StatusOfScore(x) \in SignalStatus
BY DEF StatusOfScore, SignalStatus

LEMMA LocationConfidenceType ==
    ASSUME NEW l \in LocationOf PROVE LocationConfidence(l) \in Score
<1> DEFINE a == l.accuracy * One
           b == AtLeast(2 * l.radius, 60)
           y == a \div b
<1>1. a \in Int /\ b \in Nat \ {0}
  <2>1. l.accuracy \in Nat /\ l.radius \in Nat \ {0}
    BY DEF LocationOf
  <2>2. a \in Nat
    BY <2>1, ScoreOps, ProductNat
  <2>3. b \in Nat \ {0}
    BY <2>1 DEF AtLeast
  <2> HIDE DEF a, b
  <2>4. QED
    BY <2>2, <2>3
<1> HIDE DEF a, b
<1>2. y \in Int
  BY <1>1, DivType
<1>3. LocationConfidence(l) = AtLeast(Pct(15), Clamp(One - y))
  BY DEF LocationConfidence, a, b
<1> HIDE DEF y
<1>4. One - y \in Int
  BY <1>2, ScoreOps
<1>5. Clamp(One - y) \in Score /\ Pct(15) \in Score
  BY <1>4, ScoreOps, PctScore
<1>6. QED
  BY <1>3, <1>5, ScoreOps

LEMMA LocationSignalType ==
    ASSUME NEW c, c.location \in Maybe(LocationOf)
    PROVE  SignalOK(LocationSignal(c))
<1> DEFINE l == c.location
           sure == LocationConfidence(l)
           near == AtLeast(Pct(85), One - (Pct(15) * l.distance) \div l.radius)
           metrics == [clearlyOutside |-> ClearlyOutside(l)]
<1>1. LocationSignal(c) =
        IF ~Known(l) THEN Unavailable
        ELSE IF UnusableAccuracy(l)
        THEN Signal("INCONCLUSIVE", Pct(50), AtMost(sure, Pct(35)), metrics)
        ELSE IF ClearlyOutside(l) THEN Signal("FAIL", 0, AtLeast(Pct(80), sure), metrics)
        ELSE IF Borderline(l) THEN Signal("PARTIAL", Pct(65), AtLeast(Pct(50), sure), metrics)
        ELSE Signal("PASS", near, AtLeast(Pct(50), sure), metrics)
  BY DEF LocationSignal
<1>2. ASSUME Known(l) PROVE sure \in Score /\ near \in Score
  <2>1. l \in LocationOf
    BY <1>2 DEF Maybe, Known
  <2> DEFINE x == Pct(15) * l.distance
             r == l.radius
             y == x \div r
  <2>2. x \in Nat /\ r \in Nat \ {0}
    BY <2>1 DEF LocationOf, Pct
  <2> HIDE DEF x, r
  <2>3. y \in Nat
    BY <2>2, DivNat
  <2> HIDE DEF y
  <2>4. One - y \in Int /\ One - y <= One
    BY <2>3, ScoreOps
  <2>5. AtLeast(Pct(85), One - y) \in Score
    <3>1. Pct(85) \in Score
      BY PctScore
    <3>2. QED
      BY <2>4, <3>1, ScoreOps
  <2>6. QED
    BY <2>1, <2>5, LocationConfidenceType DEF x, y, r
<1> HIDE DEF sure, near, metrics, l
<1>3. Pct(50) \in Score /\ Pct(35) \in Score /\ Pct(80) \in Score /\ Pct(65) \in Score
  BY PctScore
<1>4. ASSUME Known(l)
      PROVE  AtMost(sure, Pct(35)) \in Score /\ AtLeast(Pct(80), sure) \in Score /\ AtLeast(Pct(50), sure) \in Score
  BY <1>2, <1>3, <1>4, ScoreOps
<1>5. {"INCONCLUSIVE", "FAIL", "PARTIAL", "PASS"} \subseteq SignalStatus
  BY DEF SignalStatus
<1>6. CASE ~Known(l)
  BY <1>1, <1>6, UnavailableType
<1>7. CASE Known(l)
  <2>1. /\ SignalOK(Signal("INCONCLUSIVE", Pct(50), AtMost(sure, Pct(35)), metrics))
        /\ SignalOK(Signal("FAIL", 0, AtLeast(Pct(80), sure), metrics))
        /\ SignalOK(Signal("PARTIAL", Pct(65), AtLeast(Pct(50), sure), metrics))
        /\ SignalOK(Signal("PASS", near, AtLeast(Pct(50), sure), metrics))
    BY <1>2, <1>3, <1>4, <1>5, <1>7, ZeroScore, SignalType1
  <2>2. QED
    BY <1>1, <1>7, <2>1
<1>8. QED
  BY <1>6, <1>7

LEMMA TimeSignalType == ASSUME NEW c PROVE SignalOK(TimeSignal(c))
<1> DEFINE t == c.time
           x == IF t.end >= t.start THEN One ELSE 0
           y == IF t.start <= t.deadline THEN One ELSE 0
           z == IF AbsOf(t.offset) <= 120 THEN One ELSE Pct(60)
           s == <<x, y, z>>
           score == Mean(s)
           sure == IF t.end >= t.start THEN Pct(90) ELSE Pct(65)
<1>1. TimeSignal(c) = IF ~Known(t) THEN Unavailable ELSE Signal(StatusOfScore(score), score, sure, NoMetrics)
  BY DEF TimeSignal
<1>2. x \in Score /\ y \in Score /\ z \in Score /\ sure \in Score
  BY ZeroScore, PctScore
<1> HIDE DEF x, y, z, sure, t
<1>3. score \in Score
  <2> DEFINE S == Score
  <2>1. s \in Seq(S) /\ Len(s) = 3
    BY <1>2
  <2> HIDE DEF S, s
  <2>2. IsFiniteSet(DOMAIN s) /\ DOMAIN s = 1 .. Len(s) /\ \A i \in 1 .. Len(s) : s[i] \in S
    BY <2>1, SequenceOf
  <2>3. DOMAIN s # {} /\ \A i \in DOMAIN s : s[i] \in S
    BY <2>1, <2>2
  <2>4. QED
    BY <2>2, <2>3, MeanScore DEF S
<1> HIDE DEF score
<1>4. SignalOK(Signal(StatusOfScore(score), score, sure, NoMetrics))
  BY <1>2, <1>3, StatusOfScoreType, SignalType1
<1>5. QED
  BY <1>1, <1>4, UnavailableType

LEMMA TakesFacts ==
    ASSUME NEW ts, TakesType(ts)
    PROVE  /\ IsFiniteSet(DOMAIN ts) /\ Len(ts) \in Nat /\ DOMAIN ts = 1 .. Len(ts)
           /\ Cardinality(DOMAIN ts) = Len(ts)
           /\ ts # <<>> => DOMAIN ts # {} /\ Len(ts) \in Nat \ {0}
           /\ \A i \in DOMAIN ts : OutcomeType(ts[i].outcome)
<1> DEFINE S == Range(ts)
<1>1. ts \in Seq(S) /\ \A i \in DOMAIN ts : OutcomeType(ts[i].outcome)
  BY DEF TakesType
<1> HIDE DEF S
<1>2. IsFiniteSet(DOMAIN ts) /\ DOMAIN ts = 1 .. Len(ts) /\ Len(ts) \in Nat
  BY <1>1, SequenceOf
<1>3. Cardinality(DOMAIN ts) = Len(ts)
  <2> DEFINE n == Len(ts)
  <2>1. n \in Nat /\ DOMAIN ts = 1 .. n
    BY <1>2
  <2> HIDE DEF n
  <2>2. Cardinality(1 .. n) = n
    BY <2>1, FS_Interval
  <2>3. QED
    BY <2>1, <2>2 DEF n
<1>4. ts # <<>> => Len(ts) # 0
  BY <1>1
<1>5. QED
  BY <1>1, <1>2, <1>3, <1>4

LEMMA ContributionType ==
    ASSUME NEW t, OutcomeType(t.outcome)
    PROVE  Contribution(t) \in Score /\ SensorScoreOf(t) \in Score
<1> DEFINE x == t.outcome.score
           h == x \div 2
<1>1. x \in Score /\ t.outcome.sensorScore \in Score
  BY DEF OutcomeType
<1>2. Contribution(t) \in {x, 0, AtMost(Pct(45), h)}
  BY DEF Contribution
<1> HIDE DEF x
<1>3. h \in Nat
  <2>1. x \in Nat
    BY <1>1 DEF Score
  <2>2. QED
    BY <2>1, DivNat
<1> HIDE DEF h
<1>4. AtMost(Pct(45), h) \in Score
  BY <1>3, PctScore, ScoreOps
<1>5. QED
  BY <1>1, <1>2, <1>4, ZeroScore DEF SensorScoreOf

LEMMA MeanOfScores ==
    ASSUME NEW rows, IsFiniteSet(DOMAIN rows), DOMAIN rows # {},
           NEW f, DOMAIN f = DOMAIN rows, \A i \in DOMAIN rows : f[i] \in Score
    PROVE  Mean(f) \in Score
BY MeanScore

LEMMA ChallengeMeans ==
    ASSUME NEW ts, TakesType(ts), ts # <<>>
    PROVE  Completion(ts) \in Score /\ MeanOf(ts, SensorScoreOf) \in Score
<1> DEFINE f == [i \in DOMAIN ts |-> Contribution(ts[i])]
           g == [i \in DOMAIN ts |-> SensorScoreOf(ts[i])]
<1>1. Completion(ts) = Mean(f) /\ MeanOf(ts, SensorScoreOf) = Mean(g)
  BY DEF Completion, MeanOf
<1>2. IsFiniteSet(DOMAIN ts) /\ DOMAIN ts # {} /\ \A i \in DOMAIN ts : OutcomeType(ts[i].outcome)
  BY TakesFacts
<1>3. \A i \in DOMAIN ts : f[i] \in Score /\ g[i] \in Score
  BY <1>2, ContributionType
<1>4. DOMAIN f = DOMAIN ts /\ DOMAIN g = DOMAIN ts
  OBVIOUS
<1> HIDE DEF f, g
<1>5. QED
  BY <1>1, <1>2, <1>3, <1>4, MeanScore

LEMMA ChallengeSignalType ==
    ASSUME NEW c, TakesType(c.takes)
    PROVE  SignalOK(ChallengeSignal(c)) /\ SignalOK(SensorSignal(c))
<1> DEFINE ts == c.takes
           score == Completion(ts)
           sensors == MeanOf(ts, SensorScoreOf)
           failed == Count(ts, FailedTake)
           status == IF failed + Count(ts, UndecidedTake) = 0 /\ score >= Pct(75) THEN "PASS"
                     ELSE IF failed >= 2 THEN "FAIL" ELSE "PARTIAL"
           metrics == [highConfidenceFailures |-> Count(ts, StronglyFailed)]
           positions == {i \in DOMAIN ts : ts[i].outcome.gyroGood}
           good == (Cardinality(positions) * One) \div Len(ts)
           sure == Clamp(Part(75, sensors) + Part(25, good))
<1>1. /\ ChallengeSignal(c) = IF ts = <<>> THEN Unavailable ELSE Signal(status, score, sensors, metrics)
      /\ SensorSignal(c) = IF ts = <<>> THEN Unavailable
                           ELSE Signal(StatusOfScore(sensors), sensors, sure, NoMetrics)
  BY DEF ChallengeSignal, SensorSignal, Count
<1>2. status \in SignalStatus
  BY DEF SignalStatus
<1>3. IsFiniteSet(DOMAIN ts) /\ Cardinality(DOMAIN ts) = Len(ts)
      /\ (ts # <<>> => Len(ts) \in Nat \ {0})
  BY TakesFacts
<1>4. ASSUME ts # <<>> PROVE score \in Score /\ sensors \in Score
  BY <1>4, ChallengeMeans
<1>5. ASSUME ts # <<>> PROVE good \in Score
  <2>1. positions \in SUBSET (DOMAIN ts)
    OBVIOUS
  <2> HIDE DEF positions, ts
  <2>2. Cardinality(positions) \in Nat /\ Cardinality(positions) <= Len(ts)
    BY <1>3, <2>1, FS_Subset, FS_CardinalityType
  <2>3. QED
    BY <1>3, <1>5, <2>2, ShareBound
<1> HIDE DEF ts, score, sensors, status, metrics, good
<1>6. ASSUME ts # <<>> PROVE sure \in Score
  <2>1. sensors \in Score /\ good \in Score
    BY <1>4, <1>5, <1>6
  <2> DEFINE p == 75
             q == 25
  <2>p. p \in 0 .. 100 /\ q \in 0 .. 100 /\ p + q <= 100
    OBVIOUS
  <2> HIDE DEF p, q
  <2>q. Part(p, sensors) + Part(q, good) \in Score
    BY <2>1, <2>p, TwoParts
  <2>2. Clamp(Part(p, sensors) + Part(q, good)) \in Score
    BY <2>q, ScoreOps DEF Score
  <2>3. QED
    BY <2>2 DEF p, q
<1> HIDE DEF sure
<1>7. ts # <<>> => /\ SignalOK(Signal(status, score, sensors, metrics))
                     /\ SignalOK(Signal(StatusOfScore(sensors), sensors, sure, NoMetrics))
  BY <1>2, <1>4, <1>6, StatusOfScoreType, SignalType1
<1>8. QED
  BY <1>1, <1>7, UnavailableType

LEMMA RowMeans ==
    ASSUME NEW rows, RowsType(rows), DOMAIN rows # {}
    PROVE  /\ MeanOf(rows, LAMBDA r : r.confidence) \in Score
           /\ MeanOf(rows, LAMBDA r : r.continuity) \in Score
           /\ MostOf(rows, LAMBDA r : r.duplicate) \in Score
           /\ MostOf(rows, LAMBDA r : r.invalid) \in Score
<1> DEFINE f == [i \in DOMAIN rows |-> rows[i].confidence]
           g == [i \in DOMAIN rows |-> rows[i].continuity]
           h == [i \in DOMAIN rows |-> rows[i].duplicate]
           k == [i \in DOMAIN rows |-> rows[i].invalid]
<1>1. /\ MeanOf(rows, LAMBDA r : r.confidence) = Mean(f) /\ MeanOf(rows, LAMBDA r : r.continuity) = Mean(g)
      /\ MostOf(rows, LAMBDA r : r.duplicate) = Max(Range(h)) /\ MostOf(rows, LAMBDA r : r.invalid) = Max(Range(k))
  BY DEF MeanOf, MostOf, Greatest
<1>2. IsFiniteSet(DOMAIN rows) /\ \A i \in DOMAIN rows : RowType(rows[i])
  BY DEF RowsType
<1>3. /\ \A i \in DOMAIN rows : f[i] \in Score /\ g[i] \in Score
      /\ Range(h) \in SUBSET Score /\ Range(k) \in SUBSET Score /\ Range(h) # {} /\ Range(k) # {}
  BY <1>2 DEF RowType, Range
<1>4. DOMAIN f = DOMAIN rows /\ DOMAIN g = DOMAIN rows
  OBVIOUS
<1> HIDE DEF f, g, h, k
<1>5. Mean(f) \in Score /\ Mean(g) \in Score
  BY <1>2, <1>3, <1>4, MeanScore
<1>6. Max(Range(h)) \in Score /\ Max(Range(k)) \in Score
  BY <1>3, ExtremeScores
<1>7. QED
  BY <1>1, <1>5, <1>6

LEMMA MotionSignalType ==
    ASSUME NEW c, NEW rows, RowsType(rows)
    PROVE  SignalOK(MotionSignal(c, rows))
<1> DEFINE sure == MeanOf(rows, LAMBDA r : r.confidence)
           done == {i \in DOMAIN rows : rows[i].status = "SUCCESS"}
           all == DOMAIN rows
           share == (Cardinality(done) * One) \div Cardinality(all)
           score == Clamp(Part(65, share) + Part(35, sure))
           status == IF Cardinality(done) = 0 THEN "INCONCLUSIVE" ELSE StatusOfScore(score)
<1>1. MotionSignal(c, rows) =
        IF DOMAIN rows = {} \/ Cardinality(DOMAIN rows) < Len(c.takes) THEN Unavailable
        ELSE IF \E i \in DOMAIN rows : rows[i].status = "PROCESSING"
        THEN Signal("INCONCLUSIVE", 0, 0, NoMetrics)
        ELSE Signal(status, score, sure, NoMetrics)
  BY DEF MotionSignal, Count
<1>2. done \in SUBSET all /\ IsFiniteSet(all) /\ all = DOMAIN rows
  BY DEF RowsType
<1> HIDE DEF done, all
<1>3. ASSUME DOMAIN rows # {} PROVE sure \in Score
  BY <1>3, RowMeans
<1>4. ASSUME DOMAIN rows # {} PROVE share \in Score
  <2>1. Cardinality(done) \in Nat /\ Cardinality(all) \in Nat /\ Cardinality(done) <= Cardinality(all)
    BY <1>2, FS_Subset, FS_CardinalityType
  <2>2. Cardinality(all) \in Nat \ {0}
    BY <1>2, <1>4, <2>1, FS_EmptySet
  <2>3. QED
    BY <2>1, <2>2, ShareBound
<1> HIDE DEF sure, share
<1>5. ASSUME DOMAIN rows # {} PROVE score \in Score
  <2> DEFINE p == 65
             q == 35
  <2>0. p \in 0 .. 100 /\ q \in 0 .. 100 /\ p + q <= 100
    OBVIOUS
  <2> HIDE DEF p, q, score
  <2>1. Part(p, share) + Part(q, sure) \in Score
    BY <1>3, <1>4, <1>5, <2>0, TwoParts
  <2> USE DEF p, q, score
  <2>2. QED
    BY <2>1, ScoreOps DEF Score
<1>6. status \in SignalStatus /\ "INCONCLUSIVE" \in SignalStatus
  BY StatusOfScoreType DEF SignalStatus
<1> HIDE DEF score, status
<1>7. SignalOK(Signal("INCONCLUSIVE", 0, 0, NoMetrics))
  BY <1>6, ZeroScore, SignalType1
<1>8. ASSUME DOMAIN rows # {} PROVE SignalOK(Signal(status, score, sure, NoMetrics))
  BY <1>3, <1>5, <1>6, <1>8, SignalType1
<1>9. QED
  BY <1>1, <1>7, <1>8, UnavailableType

LEMMA SceneSignalType ==
    ASSUME NEW rows, RowsType(rows)
    PROVE  SignalOK(SceneSignal(rows))
<1> DEFINE continuity == MeanOf(rows, LAMBDA r : r.continuity)
           duplicate == MostOf(rows, LAMBDA r : r.duplicate)
           invalid == MostOf(rows, LAMBDA r : r.invalid)
           sure == MeanOf(rows, LAMBDA r : r.confidence)
           major == continuity < Pct(40) \/ MostOf(rows, LAMBDA r : r.freeze) >= 2000 \/ duplicate >= Pct(50)
           score == Clamp(Part(70, continuity) + Part(15, One - duplicate) + Part(15, One - invalid))
           status == IF major THEN "FAIL" ELSE StatusOfScore(score)
           metrics == [majorDiscontinuity |-> major]
<1>1. SceneSignal(rows) = IF DOMAIN rows = {} THEN Unavailable ELSE Signal(status, score, sure, metrics)
  BY DEF SceneSignal
<1>2. ASSUME DOMAIN rows # {}
      PROVE  continuity \in Score /\ duplicate \in Score /\ invalid \in Score /\ sure \in Score
  BY <1>2, RowMeans
<1> HIDE DEF continuity, duplicate, invalid, sure
<1>3. ASSUME DOMAIN rows # {} PROVE score \in Score
  <2> DEFINE d == One - duplicate
             e == One - invalid
  <2>1. d \in Int /\ e \in Int /\ continuity \in Int
    <3>1. continuity \in Int /\ duplicate \in Int /\ invalid \in Int
      BY <1>2, <1>3, ScoreRange
    <3>2. QED
      BY <3>1, ScoreOps
  <2> HIDE DEF d, e
  <2>2. Part(70, continuity) + Part(15, d) + Part(15, e) \in Int
    BY <2>1 DEF Part
  <2>3. QED
    BY <2>2, ScoreOps DEF d, e
<1>4. status \in SignalStatus
  BY StatusOfScoreType DEF SignalStatus
<1> HIDE DEF score, status, metrics
<1>5. ASSUME DOMAIN rows # {} PROVE SignalOK(Signal(status, score, sure, metrics))
  BY <1>2, <1>3, <1>4, <1>5, SignalType1
<1>6. QED
  BY <1>1, <1>5, UnavailableType

LEMMA FusedMeans ==
    ASSUME NEW rows, FusedRowsType(rows), DOMAIN rows # {}
    PROVE  MeanOf(rows, Effective) \in Score /\ MeanOf(rows, LAMBDA r : r.confidence) \in Score
<1> DEFINE f == [i \in DOMAIN rows |-> Effective(rows[i])]
           g == [i \in DOMAIN rows |-> rows[i].confidence]
<1>1. MeanOf(rows, Effective) = Mean(f) /\ MeanOf(rows, LAMBDA r : r.confidence) = Mean(g)
  BY DEF MeanOf
<1>2. IsFiniteSet(DOMAIN rows) /\ \A i \in DOMAIN rows : FusedRowType(rows[i])
  BY DEF FusedRowsType
<1>3. \A i \in DOMAIN rows : f[i] \in Score /\ g[i] \in Score
  BY <1>2, ZeroScore DEF FusedRowType, Effective, Maybe, Known
<1>4. DOMAIN f = DOMAIN rows /\ DOMAIN g = DOMAIN rows
  OBVIOUS
<1> HIDE DEF f, g
<1>5. QED
  BY <1>1, <1>2, <1>3, <1>4, MeanScore

LEMMA FusionSignalType ==
    ASSUME NEW c, NEW rows, FusedRowsType(rows)
    PROVE  SignalOK(FusionSignal(c, rows))
<1> DEFINE score == Clamp(MeanOf(rows, Effective))
           sure == MeanOf(rows, LAMBDA r : r.confidence)
           status == StatusOfConsistency[Consistency(rows)]
           metrics == [consistencyStatus |-> Consistency(rows),
                       mismatchReasons |-> UNION {rows[i].reasons : i \in DOMAIN rows}]
<1>1. FusionSignal(c, rows) =
        IF DOMAIN rows = {} \/ Cardinality(DOMAIN rows) < Len(c.takes) THEN Unavailable
        ELSE IF \E i \in DOMAIN rows : rows[i].stage # "COMPLETE" THEN Signal("INCONCLUSIVE", 0, 0, NoMetrics)
        ELSE Signal(status, score, sure, metrics)
  BY DEF FusionSignal
<1>2. status \in SignalStatus /\ "INCONCLUSIVE" \in SignalStatus
  <2>1. Consistency(rows) \in {"MISMATCH", "INCONCLUSIVE", "PARTIALLY_CONSISTENT", "CONSISTENT"}
    BY DEF Consistency
  <2>2. QED
    BY <2>1 DEF StatusOfConsistency, SignalStatus
<1>3. ASSUME DOMAIN rows # {} PROVE score \in Score /\ sure \in Score
  BY <1>3, FusedMeans, ScoreOps DEF Score
<1> HIDE DEF score, sure, status, metrics
<1>4. SignalOK(Signal("INCONCLUSIVE", 0, 0, NoMetrics))
  BY <1>2, ZeroScore, SignalType1
<1>5. ASSUME DOMAIN rows # {} PROVE SignalOK(Signal(status, score, sure, metrics))
  BY <1>2, <1>3, <1>5, SignalType1
<1>6. QED
  BY <1>1, <1>4, <1>5, UnavailableType

SignalsOK(signals) == \A s \in SignalType : SignalOK(signals[s])

LEMMA SignalsType ==
    ASSUME NEW c, NEW rows, NEW fusion_, c.location \in Maybe(LocationOf), TakesType(c.takes),
           RowsType(rows), FusedRowsType(fusion_)
    PROVE  SignalsOK(SignalsOf(c, rows, fusion_))
<1> DEFINE e == SignalsOf(c, rows, fusion_)
<1>1. /\ e["LOCATION"] = LocationSignal(c) /\ e["SESSION_TIME"] = TimeSignal(c)
      /\ e["CHALLENGE_COMPLETION"] = ChallengeSignal(c) /\ e["SENSOR_QUALITY"] = SensorSignal(c)
      /\ e["VISUAL_MOTION"] = MotionSignal(c, rows) /\ e["SCENE_CONTINUITY"] = SceneSignal(rows)
      /\ e["VISUAL_INERTIAL_CONSISTENCY"] = FusionSignal(c, fusion_)
  BY DEF SignalsOf
<1> HIDE DEF e
<1>2. \A s \in SignalType : SignalOK(e[s])
  BY <1>1, LocationSignalType, TimeSignalType, ChallengeSignalType, MotionSignalType, SceneSignalType,
     FusionSignalType DEF SignalType
<1>3. QED
  BY <1>2 DEF SignalsOK, e

LEMMA SignalTypeFinite == IsFiniteSet(SignalType)
<1> DEFINE A == {} \cup {"LOCATION"}
           B == A \cup {"SESSION_TIME"}
           C == B \cup {"CHALLENGE_COMPLETION"}
           D == C \cup {"SENSOR_QUALITY"}
           E == D \cup {"VISUAL_MOTION"}
           F == E \cup {"SCENE_CONTINUITY"}
           G == F \cup {"VISUAL_INERTIAL_CONSISTENCY"}
<1>1. G = SignalType
  BY DEF SignalType
<1>2. IsFiniteSet(A)
  BY FS_EmptySet, FS_AddElement
<1> HIDE DEF A
<1>3. IsFiniteSet(B)
  BY <1>2, FS_AddElement
<1> HIDE DEF B
<1>4. IsFiniteSet(C)
  BY <1>3, FS_AddElement
<1> HIDE DEF C
<1>5. IsFiniteSet(D)
  BY <1>4, FS_AddElement
<1> HIDE DEF D
<1>6. IsFiniteSet(E)
  BY <1>5, FS_AddElement
<1> HIDE DEF E
<1>7. IsFiniteSet(F)
  BY <1>6, FS_AddElement
<1> HIDE DEF F
<1>8. IsFiniteSet(G)
  BY <1>7, FS_AddElement
<1>9. QED
  BY <1>1, <1>8

(* The weights of the signals there are, and what the signals are worth.   *)
LEMMA WorthType ==
    ASSUME NEW signals, SignalsOK(signals)
    PROVE  /\ IsFiniteSet(Available(signals)) /\ Available(signals) \subseteq SignalType
           /\ AvailableWeight(signals) \in Nat /\ AvailableWeight(signals) <= 100
           /\ Worth(signals) \in Nat /\ Worth(signals) <= One * AvailableWeight(signals)
<1> DEFINE S == Available(signals)
           w == Policy.weights
           g == [s \in SignalType |-> w[s] * signals[s].score]
<1>1. S \in SUBSET SignalType
  BY DEF Available
<1>2. Worth(signals) = SumFunctionOnSet(g, S) /\ AvailableWeight(signals) = SumFunctionOnSet(w, S)
  BY DEF Worth, Weighted, AvailableWeight
<1>3. \A s \in SignalType : w[s] \in Nat /\ signals[s].score \in Score
  BY PolicyAssumption DEF SignalsOK, SignalOK
<1>4. DOMAIN w = SignalType /\ SumFunction(w) = 100
  BY PolicyAssumption
<1>5. SumFunctionOnSet(w, SignalType) = 100
  BY <1>4 DEF SumFunction
<1>6. \A s \in SignalType : g[s] \in Nat /\ g[s] <= One * w[s]
  <2> SUFFICES ASSUME NEW s \in SignalType PROVE g[s] \in Nat /\ g[s] <= One * w[s]
    OBVIOUS
  <2>1. g[s] = w[s] * signals[s].score
    OBVIOUS
  <2> DEFINE a == w[s]
             b == signals[s].score
  <2>2. a \in Nat /\ b \in Score /\ g[s] = a * b
    BY <1>3, <2>1
  <2> HIDE DEF a, b, g
  <2>3. g[s] \in Nat /\ g[s] <= One * a
    BY <2>2, ProductScore
  <2>4. QED
    BY <2>3 DEF a
<1> HIDE DEF S, w, g
<1>7. IsFiniteSet(S)
  BY <1>1, SignalTypeFinite, FS_Subset
<1>8. \A s \in S : w[s] \in Nat /\ g[s] \in Nat /\ g[s] <= One * w[s]
  BY <1>1, <1>3, <1>6
<1>9. /\ SumFunctionOnSet(w, S) \in Nat /\ SumFunctionOnSet(g, S) \in Nat
      /\ SumFunctionOnSet(g, S) <= One * SumFunctionOnSet(w, S)
  BY <1>7, <1>8, WeightedSum
<1>10. SumFunctionOnSet(w, S) <= SumFunctionOnSet(w, SignalType)
  BY <1>1, <1>3, SignalTypeFinite, SumOfPart
<1>11. QED
  BY <1>1, <1>2, <1>5, <1>7, <1>9, <1>10 DEF S

LEMMA RawScoreOfType ==
    ASSUME NEW signals, SignalsOK(signals)
    PROVE  RawScoreOf(signals) \in Score
<1> DEFINE total == Worth(signals)
           weight == AvailableWeight(signals)
<1>1. total \in Nat /\ weight \in Nat /\ total <= One * weight
  BY WorthType
<1>2. RawScoreOf(signals) = IF weight = 0 THEN 0 ELSE total \div weight
  BY DEF RawScoreOf
<1> HIDE DEF total, weight
<1>3. weight # 0 => total \div weight \in Score
  BY <1>1, WeightedMean
<1>4. QED
  BY <1>2, <1>3, ZeroScore

LEMMA ResolvedType ==
    /\ \A signals : Resolved(signals) \in Verdicts
    /\ \A verdict \in Verdicts : \A rules : Constrained(verdict, rules) \in Verdicts
<1>1. \A verdict \in Verdicts : \A rules : Constrained(verdict, rules) \in Verdicts
  BY DEF Constrained, Verdicts
<1>2. \A signals : BaseVerdict(signals) \in Verdicts
  BY DEF BaseVerdict, Verdicts
<1>3. "INCONCLUSIVE" \in Verdicts
  BY DEF Verdicts
<1>4. QED
  BY <1>1, <1>2, <1>3 DEF Resolved
=============================================================================
