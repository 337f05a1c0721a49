-------------------------- MODULE PoolTablesProofs --------------------------
(***************************************************************************)
(* What is proved of PoolTables for any chain, any pairs and any number of *)
(* blocks: types, the cursor, what checkpoints do to the sums of the rows, *)
(* and that the sums are the node's pools.  The liquidity history has a    *)
(* module of its own (LpHistoryProofs).                                    *)
(*                                                                         *)
(* First, facts about sums of amounts, for any finite set of rows: what a  *)
(* row more adds, that a sum can be split, that it depends on nothing      *)
(* else.  They go by induction over finite sets, which here is always the  *)
(* same argument: a smallest set that fails, and one element less.         *)
(***************************************************************************)
EXTENDS PoolTables, FiniteSetTheorems, TLAPS

Triple == Int \X Int \X Int

(* Among sets of elements of a finite set there is one that has no member  *)
(* with one element less.                                                  *)
LEMMA SmallestSet ==
    ASSUME NEW S, IsFiniteSet(S), NEW B \in SUBSET SUBSET S, B # {}
    PROVE  \E s \in B : \A x \in s : s \ {x} \notin B
<1>1. IsWellFoundedOn(StrictSubsetOrdering(S), SUBSET S)
  BY FS_StrictSubsetOrderingWellFounded, FS_FiniteSubsetsOfFinite
<1>2. PICK s \in B : \A t \in B : ~(<<t, s>> \in StrictSubsetOrdering(S))
  BY <1>1, WFMin
<1>3. ASSUME NEW x \in s, s \ {x} \in B PROVE FALSE
  <2>1. <<s \ {x}, s>> \in StrictSubsetOrdering(S)
    BY <1>3 DEF StrictSubsetOrdering
  <2> QED  BY <2>1, <1>2, <1>3
<1> QED  BY <1>3

(* Amounts form a commutative group. *)
LEMMA PlusMinus ==
    /\ Zero \in Triple
    /\ \A a, b \in Triple : /\ Plus(a, b) \in Triple /\ Minus(a, b) \in Triple
                            /\ Plus(a, b) = Plus(b, a)
                            /\ Plus(a, Zero) = a
                            /\ Minus(Plus(a, b), b) = a
                            /\ Plus(b, Minus(a, b)) = a
    /\ \A a, b, c \in Triple : Plus(a, Plus(b, c)) = Plus(Plus(a, b), c)
<1>1. \A a, b, c, x, y, z \in Int : /\ Plus(<<a, b, c>>, <<x, y, z>>) = <<a + x, b + y, c + z>>
                                    /\ Minus(<<a, b, c>>, <<x, y, z>>) = <<a - x, b - y, c - z>>
  BY DEF Plus, Minus
<1>2. \A t \in Triple : \E a, b, c \in Int : t = <<a, b, c>>
  <2> TAKE t \in Triple
  <2>1. t = <<t[1], t[2], t[3]>> /\ t[1] \in Int /\ t[2] \in Int /\ t[3] \in Int
    BY DEF Triple
  <2> QED  BY <2>1
<1>3. \A a, b, c \in Int : <<a, b, c>> \in Triple
  BY DEF Triple
<1>4. Zero = <<0, 0, 0>>
  BY DEF Zero
<1>5. ASSUME NEW a \in Triple, NEW b \in Triple
      PROVE /\ Plus(a, b) \in Triple /\ Minus(a, b) \in Triple
            /\ Plus(a, b) = Plus(b, a)
            /\ Plus(a, Zero) = a
            /\ Minus(Plus(a, b), b) = a
            /\ Plus(b, Minus(a, b)) = a
  <2>0. PICK i \in Int, j \in Int, k \in Int : a = <<i, j, k>>
    BY <1>2
  <2>1. PICK x \in Int, y \in Int, z \in Int : a = <<i, j, k>> /\ b = <<x, y, z>>
    BY <1>2, <2>0
  <2>2. Plus(a, b) = <<i + x, j + y, k + z>> /\ Minus(a, b) = <<i - x, j - y, k - z>>
    BY <2>1, <1>1
  <2>3. Plus(b, a) = <<x + i, y + j, z + k>> /\ Plus(a, Zero) = <<i + 0, j + 0, k + 0>>
    BY <2>1, <1>1, <1>4
  <2>4. Minus(Plus(a, b), b) = <<i + x - x, j + y - y, k + z - z>>
    <3>1. i + x \in Int /\ j + y \in Int /\ k + z \in Int
      OBVIOUS
    <3>2. Minus(<<i + x, j + y, k + z>>, <<x, y, z>>) = <<i + x - x, j + y - y, k + z - z>>
      BY <3>1, <1>1
    <3> QED  BY <2>1, <2>2, <3>2
  <2>5. Plus(b, Minus(a, b)) = <<x + (i - x), y + (j - y), z + (k - z)>>
    BY <2>1, <2>2, <1>1
  <2>6. Plus(a, b) \in Triple /\ Minus(a, b) \in Triple
    BY <2>2, <1>3
  <2> QED  BY <2>1, <2>2, <2>3, <2>4, <2>5, <2>6
<1>6. ASSUME NEW a \in Triple, NEW b \in Triple, NEW c \in Triple
      PROVE Plus(a, Plus(b, c)) = Plus(Plus(a, b), c)
  <2>0. PICK i \in Int, j \in Int, k \in Int : a = <<i, j, k>>
    BY <1>2
  <2>1. PICK x \in Int, y \in Int, z \in Int : b = <<x, y, z>>
    BY <1>2
  <2>2. PICK u \in Int, v \in Int, w \in Int : c = <<u, v, w>>
    BY <1>2
  <2>3. Plus(a, Plus(b, c)) = <<i + (x + u), j + (y + v), k + (z + w)>>
    <3>1. Plus(b, c) = <<x + u, y + v, z + w>>
      BY <2>1, <2>2, <1>1
    <3>2. x + u \in Int /\ y + v \in Int /\ z + w \in Int
      OBVIOUS
    <3> QED  BY <2>0, <3>1, <3>2, <1>1
  <2>4. Plus(Plus(a, b), c) = <<(i + x) + u, (j + y) + v, (k + z) + w>>
    <3>1. Plus(a, b) = <<i + x, j + y, k + z>>
      BY <2>0, <2>1, <1>1
    <3>2. i + x \in Int /\ j + y \in Int /\ k + z \in Int
      OBVIOUS
    <3> QED  BY <2>2, <3>1, <3>2, <1>1
  <2> QED  BY <2>3, <2>4
<1> QED  BY <1>3, <1>4, <1>5, <1>6

(* The same, one law at a time. *)
LEMMA PlusType == ASSUME NEW a \in Triple, NEW b \in Triple PROVE Plus(a, b) \in Triple
BY PlusMinus
LEMMA PlusComm == ASSUME NEW a \in Triple, NEW b \in Triple PROVE Plus(a, b) = Plus(b, a)
BY PlusMinus
LEMMA PlusAssoc ==
    ASSUME NEW a \in Triple, NEW b \in Triple, NEW c \in Triple
    PROVE  Plus(a, Plus(b, c)) = Plus(Plus(a, b), c)
BY PlusMinus
LEMMA PlusZero == ASSUME NEW a \in Triple PROVE Plus(a, Zero) = a
BY PlusMinus

----------------------------------------------------------------------------
(* A fold takes one element of the set after the other; the function that  *)
(* does it for all subsets exists.                                         *)
Pick(s) == CHOOSE x \in s : TRUE
Step(f, g, s) == IF s = {} THEN Zero ELSE Plus(f[Pick(s)], g[s \ {Pick(s)}])
IsFold(g, f, S) == g = [s \in SUBSET S |-> Step(f, g, s)]

LEMMA TotalIsFold ==
    ASSUME NEW f, NEW S
    PROVE  Total(f, S) = (CHOOSE g : IsFold(g, f, S))[S]
BY DEF Total, FoldFunctionOnSet, MapThenFoldSet, IsFold, Step, Pick

LEMMA FoldUnique ==
    ASSUME NEW f, NEW T, IsFiniteSet(T), NEW S \in SUBSET T, NEW g, NEW h, IsFold(g, f, S), IsFold(h, f, T)
    PROVE  g[S] = h[S]
<1> DEFINE B == {s \in SUBSET S : g[s] # h[s]}
<1>1. SUFFICES ASSUME B # {} PROVE FALSE
  OBVIOUS
<1>2. IsFiniteSet(S)
  BY FS_Subset
<1>3. PICK s \in B : \A x \in s : s \ {x} \notin B
  BY <1>1, <1>2, SmallestSet
<1>4. g[s] = Step(f, g, s) /\ h[s] = Step(f, h, s)
  BY DEF IsFold
<1>5. s # {}
  BY <1>4 DEF Step
<1>6. Pick(s) \in s
  BY <1>5 DEF Pick
<1>7. g[s \ {Pick(s)}] = h[s \ {Pick(s)}]
  BY <1>3, <1>6
<1> QED  BY <1>4, <1>5, <1>7 DEF Step

LEMMA NatInduction1 ==
    ASSUME NEW N \in SUBSET Nat, 0 \in N, \A n \in N : n + 1 \in N
    PROVE  N = Nat
<1> SUFFICES ASSUME N # Nat PROVE FALSE
  OBVIOUS
<1> DEFINE T == Nat \ N
           R == {pq \in Nat \X Nat : pq[1] < pq[2]}
<1>1. OpToRel(<, Nat) = R
  BY DEF OpToRel
<1>2. IsWellFoundedOn(R, Nat)
  BY <1>1, NatLessThanWellFounded
<1>3. T # {} /\ T \subseteq Nat
  OBVIOUS
<1>4. \E x \in T : \A y \in T : ~(<<y, x>> \in R)
  <2> HIDE DEF T, R
  <2> QED  BY <1>2, <1>3, WFMin
<1>5. PICK x \in T : \A y \in T : ~(<<y, x>> \in R)
  BY <1>4
<1>6. x \in Nat /\ x - 1 \in Nat /\ <<x - 1, x>> \in R
  OBVIOUS
<1>7. x - 1 \in N
  BY <1>5, <1>6
<1>8. x - 1 + 1 \in N
  BY <1>7
<1> QED  BY <1>6, <1>8

LEMMA FoldExists ==
    ASSUME NEW f, NEW S, IsFiniteSet(S)
    PROVE  \E g : IsFold(g, f, S)
<1> DEFINE Small(n) == {s \in SUBSET S : Cardinality(s) <= n}
           Upto(g, n) == g = [s \in Small(n) |-> Step(f, g, s)]
           N == {n \in Nat : \E g : Upto(g, n)}
<1>1. \A s \in SUBSET S : IsFiniteSet(s) /\ Cardinality(s) \in Nat /\ Cardinality(s) <= Cardinality(S)
  BY FS_Subset, FS_CardinalityType
<1>2. \A s \in SUBSET S : s # {} => Pick(s) \in s /\ s \ {Pick(s)} \in SUBSET S /\ Cardinality(s \ {Pick(s)}) = Cardinality(s) - 1
  <2> TAKE s \in SUBSET S
  <2> HAVE s # {}
  <2>1. Pick(s) \in s
    BY DEF Pick
  <2> QED  BY <1>1, <2>1, FS_RemoveElement
<1>3. 0 \in N
  <2> DEFINE g == [s \in Small(0) |-> Zero]
  <2>1. \A s \in Small(0) : s = {}
    BY <1>1, FS_EmptySet
  <2>2. Upto(g, 0)
    BY <2>1 DEF Step
  <2> QED  BY <2>2
<1>4. ASSUME NEW n \in N PROVE n + 1 \in N
  <2>1. PICK g : Upto(g, n)
    OBVIOUS
  <2> DEFINE h == [s \in Small(n + 1) |-> Step(f, g, s)]
  <2>2. \A s \in Small(n) : h[s] = g[s]
    BY <2>1, <1>1
  <2>3. \A s \in Small(n + 1) : s # {} => s \ {Pick(s)} \in Small(n)
    BY <1>1, <1>2
  <2>4. \A s \in Small(n + 1) : Step(f, g, s) = Step(f, h, s)
    BY <2>2, <2>3 DEF Step
  <2>5. Upto(h, n + 1)
    BY <2>4
  <2>6. \E h1 : Upto(h1, n + 1)
    <3> HIDE DEF Upto, h
    <3> QED  BY <2>5
  <2> HIDE DEF Upto, Small, h
  <2> QED  BY <2>6
<1>5. N = Nat
  <2> HIDE DEF N
  <2>1. N \subseteq Nat
    BY DEF N
  <2> QED  BY <1>3, <1>4, <2>1, NatInduction1
<1>6. PICK g : Upto(g, Cardinality(S))
  BY <1>5, <1>1
<1>7. Small(Cardinality(S)) = SUBSET S
  BY <1>1
<1> QED  BY <1>6, <1>7 DEF IsFold

(* The sum of nothing, and of a set with one element more. *)
LEMMA TotalStep ==
    ASSUME NEW f, NEW S, IsFiniteSet(S)
    PROVE  /\ Total(f, {}) = Zero
           /\ S # {} => Pick(S) \in S /\ Total(f, S) = Plus(f[Pick(S)], Total(f, S \ {Pick(S)}))
<1>1. PICK g : IsFold(g, f, S) /\ Total(f, S) = g[S]
  <2>1. \E g : IsFold(g, f, S)
    BY FoldExists
  <2>2. IsFold(CHOOSE g : IsFold(g, f, S), f, S)
    BY <2>1
  <2> QED  BY <2>2, TotalIsFold
<1>2. g[S] = Step(f, g, S)
  BY <1>1 DEF IsFold
<1>3. Total(f, {}) = Zero
  <2>1. IsFiniteSet({})
    BY FS_EmptySet
  <2>2. \E h : IsFold(h, f, {})
    BY <2>1, FoldExists
  <2>3. IsFold(CHOOSE h : IsFold(h, f, {}), f, {})
    BY <2>2
  <2>4. (CHOOSE h : IsFold(h, f, {}))[{}] = Zero
    BY <2>3 DEF IsFold, Step
  <2> QED  BY <2>4, TotalIsFold
<1>4. ASSUME S # {}
      PROVE  Pick(S) \in S /\ Total(f, S) = Plus(f[Pick(S)], Total(f, S \ {Pick(S)}))
  <2> DEFINE R == S \ {Pick(S)}
  <2>1. Pick(S) \in S
    BY <1>4 DEF Pick
  <2>2. IsFiniteSet(R) /\ R \in SUBSET S
    BY FS_Subset
  <2>3. \E h : IsFold(h, f, R)
    BY <2>2, FoldExists
  <2>4. PICK h : IsFold(h, f, R) /\ Total(f, R) = h[R]
    <3>1. IsFold(CHOOSE h : IsFold(h, f, R), f, R)
      BY <2>3
    <3> QED  BY <3>1, TotalIsFold
  <2>5. h[R] = g[R]
    <3> HIDE DEF R
    <3> QED  BY <2>2, <2>4, <1>1, FoldUnique
  <2>6. Total(f, S) = Plus(f[Pick(S)], g[R])
    BY <1>1, <1>2, <1>4 DEF Step
  <2> QED  BY <2>1, <2>4, <2>5, <2>6
<1> QED  BY <1>3, <1>4

(* A sum of amounts is an amount. *)
LEMMA TotalType ==
    ASSUME NEW f, NEW S, IsFiniteSet(S), \A i \in S : f[i] \in Triple
    PROVE  Total(f, S) \in Triple
<1> DEFINE B == {s \in SUBSET S : Total(f, s) \notin Triple}
<1>1. SUFFICES ASSUME B # {} PROVE FALSE
  OBVIOUS
<1>2. PICK s \in B : \A x \in s : s \ {x} \notin B
  BY <1>1, SmallestSet
<1>3. IsFiniteSet(s)
  BY FS_Subset
<1>4. s # {}
  BY <1>3, TotalStep, PlusMinus
<1>5. Pick(s) \in s /\ Total(f, s) = Plus(f[Pick(s)], Total(f, s \ {Pick(s)}))
  BY <1>3, <1>4, TotalStep
<1>6. Total(f, s \ {Pick(s)}) \in Triple
  BY <1>2, <1>5
<1>7. f[Pick(s)] \in Triple
  BY <1>5
<1>8. Total(f, s) \in Triple
  BY <1>5, <1>6, <1>7, PlusType
<1> QED  BY <1>8

(* It does not matter which element is added last. *)
LEMMA TotalAdd ==
    ASSUME NEW f, NEW S, IsFiniteSet(S), NEW x, x \notin S, \A i \in S \cup {x} : f[i] \in Triple
    PROVE  Total(f, S \cup {x}) = Plus(Total(f, S), f[x])
<1> DEFINE U == S \cup {x}
           B == {s \in SUBSET U : \E y \in U \ s : Total(f, s \cup {y}) # Plus(Total(f, s), f[y])}
<1>0. IsFiniteSet(U)
  BY FS_AddElement
<1>1. SUFFICES ASSUME B # {} PROVE FALSE
  BY S \in SUBSET U /\ x \in U \ S
<1>2. PICK s \in B : \A z \in s : s \ {z} \notin B
  <2>1. B \in SUBSET SUBSET U
    OBVIOUS
  <2> HIDE DEF B, U
  <2> QED  BY <1>0, <1>1, <2>1, SmallestSet
<1>3. PICK y \in U \ s : Total(f, s \cup {y}) # Plus(Total(f, s), f[y])
  OBVIOUS
<1> DEFINE J == s \cup {y}
           c == Pick(J)
<1>4. IsFiniteSet(s) /\ IsFiniteSet(J) /\ s \in SUBSET U /\ J # {} /\ J \in SUBSET U
  <2>1. s \in SUBSET U /\ J \in SUBSET U
    OBVIOUS
  <2> HIDE DEF U, B, J
  <2>2. IsFiniteSet(s) /\ IsFiniteSet(J)
    BY <2>1, <1>0, FS_Subset
  <2> QED  BY <2>1, <2>2 DEF J
<1>5. c \in J /\ Total(f, J) = Plus(f[c], Total(f, J \ {c}))
  <2> HIDE DEF J
  <2> QED  BY <1>4, TotalStep
<1>6. \A t \in SUBSET U : Total(f, t) \in Triple
  <2> TAKE t \in SUBSET U
  <2>1. IsFiniteSet(t) /\ \A i \in t : f[i] \in Triple
    BY <1>0, FS_Subset
  <2> QED  BY <2>1, TotalType
<1>7. CASE c = y
  <2>1. J \ {c} = s
    BY <1>7
  <2>2. Total(f, J) = Plus(f[y], Total(f, s))
    BY <2>1, <1>5, <1>7
  <2>3. Total(f, s) \in Triple /\ f[y] \in Triple
    BY <1>4, <1>6
  <2>4. Total(f, J) = Plus(Total(f, s), f[y])
    <3> HIDE DEF J
    <3> QED  BY <2>2, <2>3, PlusComm
  <2> QED  BY <2>4, <1>3
<1>8. CASE c # y
  <2> DEFINE K == s \ {c}
  <2>1. c \in s
    BY <1>5, <1>8
  <2>2. K \notin B /\ K \in SUBSET U
    BY <2>1, <1>2, <1>4
  <2>3. \A z \in U \ K : Total(f, K \cup {z}) = Plus(Total(f, K), f[z])
    BY <2>2
  <2>4. Total(f, K \cup {y}) = Plus(Total(f, K), f[y])
    BY <2>3
  <2>5. Total(f, K \cup {c}) = Plus(Total(f, K), f[c])
    BY <2>1, <2>3, <1>4
  <2>6. K \cup {c} = s /\ K \cup {y} = J \ {c}
    BY <2>1, <1>8
  <2> DEFINE k == Total(f, K)
  <2>7. f[c] \in Triple /\ f[y] \in Triple /\ k \in Triple
    BY <1>6, <2>2, <2>1, <1>4
  <2>8. Total(f, J) = Plus(f[c], Plus(k, f[y])) /\ Total(f, s) = Plus(k, f[c])
    BY <1>5, <2>4, <2>5, <2>6
  <2>9. Total(f, J) = Plus(Total(f, s), f[y])
    <3> HIDE DEF k, J, c
    <3>1. Plus(f[c], Plus(k, f[y])) = Plus(Plus(f[c], k), f[y])
      BY <2>7, PlusAssoc
    <3>2. Plus(f[c], k) = Plus(k, f[c])
      BY <2>7, PlusComm
    <3> QED  BY <2>8, <3>1, <3>2
  <2> QED  BY <2>9, <1>3
<1> QED  BY <1>7, <1>8

(* A sum depends on the amounts of its set and on nothing else. *)
LEMMA TotalSame ==
    ASSUME NEW f, NEW h, NEW S, IsFiniteSet(S), \A i \in S : f[i] = h[i]
    PROVE  Total(f, S) = Total(h, S)
<1> DEFINE B == {s \in SUBSET S : Total(f, s) # Total(h, s)}
<1>1. SUFFICES ASSUME B # {} PROVE FALSE
  OBVIOUS
<1>2. PICK s \in B : \A x \in s : s \ {x} \notin B
  BY <1>1, SmallestSet
<1>3. IsFiniteSet(s)
  BY FS_Subset
<1>4. s # {}
  BY <1>3, TotalStep
<1>5. Pick(s) \in s /\ /\ Total(f, s) = Plus(f[Pick(s)], Total(f, s \ {Pick(s)}))
                      /\ Total(h, s) = Plus(h[Pick(s)], Total(h, s \ {Pick(s)}))
  BY <1>3, <1>4, TotalStep
<1>6. Total(f, s \ {Pick(s)}) = Total(h, s \ {Pick(s)})
  BY <1>2, <1>5
<1> QED  BY <1>5, <1>6

(* Sums of sets without a common element can be added. *)
LEMMA TotalUnion ==
    ASSUME NEW f, NEW S, IsFiniteSet(S), NEW T, IsFiniteSet(T), S \cap T = {},
           \A i \in S \cup T : f[i] \in Triple
    PROVE  Total(f, S \cup T) = Plus(Total(f, S), Total(f, T))
<1> DEFINE B == {s \in SUBSET T : Total(f, S \cup s) # Plus(Total(f, S), Total(f, s))}
<1>1. SUFFICES ASSUME B # {} PROVE FALSE
  OBVIOUS
<1>2. PICK s \in B : \A x \in s : s \ {x} \notin B
  BY <1>1, SmallestSet
<1>3. IsFiniteSet(s)
  BY FS_Subset
<1>4. Total(f, S) \in Triple
  BY TotalType
<1>5. s # {}
  <2>1. Total(f, {}) = Zero /\ S \cup {} = S
    BY TotalStep, FS_EmptySet
  <2>2. Plus(Total(f, S), Zero) = Total(f, S)
    BY <1>4, PlusZero
  <2>3. {} \notin B
    BY <2>1, <2>2
  <2> QED  BY <2>3
<1>6. PICK x \in s : TRUE
  BY <1>5
<1> DEFINE r == s \ {x}
<1>7. Total(f, S \cup r) = Plus(Total(f, S), Total(f, r))
  BY <1>2
<1>8. IsFiniteSet(r) /\ IsFiniteSet(S \cup r)
  BY <1>3, FS_RemoveElement, FS_Union
<1>9. Total(f, r \cup {x}) = Plus(Total(f, r), f[x])
  <2>1. x \notin r /\ \A i \in r \cup {x} : f[i] \in Triple
    OBVIOUS
  <2> HIDE DEF r
  <2> QED  BY <2>1, <1>8, TotalAdd
<1>10. Total(f, (S \cup r) \cup {x}) = Plus(Total(f, S \cup r), f[x])
  <2>1. x \notin S \cup r /\ \A i \in (S \cup r) \cup {x} : f[i] \in Triple
    OBVIOUS
  <2> HIDE DEF r
  <2> QED  BY <2>1, <1>8, TotalAdd
<1>11. r \cup {x} = s /\ (S \cup r) \cup {x} = S \cup s
  OBVIOUS
<1>12. Total(f, r) \in Triple /\ f[x] \in Triple
  <2>1. \A i \in r : f[i] \in Triple
    OBVIOUS
  <2> HIDE DEF r
  <2> QED  BY <2>1, <1>8, TotalType
<1>13. Total(f, S \cup s) = Plus(Total(f, S), Total(f, s))
  <2>1. Total(f, S \cup s) = Plus(Plus(Total(f, S), Total(f, r)), f[x])
    BY <1>7, <1>10, <1>11
  <2>2. Plus(Total(f, S), Plus(Total(f, r), f[x])) = Plus(Plus(Total(f, S), Total(f, r)), f[x])
    BY <1>12, <1>4, PlusAssoc
  <2>3. Total(f, s) = Plus(Total(f, r), f[x])
    BY <1>9, <1>11
  <2> QED  BY <2>1, <2>2, <2>3
<1> QED  BY <1>13

(* The sum of one amount, and of two. *)
LEMMA TotalOne == ASSUME NEW f, NEW x, f[x] \in Triple PROVE Total(f, {x}) = f[x]
<1>1. IsFiniteSet({x}) /\ {x} # {}
  BY FS_Singleton
<1>2. Pick({x}) = x /\ {x} \ {x} = {}
  BY DEF Pick
<1>3. Total(f, {x}) = Plus(f[x], Zero)
  BY <1>1, <1>2, TotalStep
<1> QED  BY <1>3, PlusZero

LEMMA TotalTwo ==
    ASSUME NEW f, NEW x, NEW y, x # y, f[x] \in Triple, f[y] \in Triple
    PROVE  Total(f, {x, y}) = Plus(f[x], f[y])
<1>1. IsFiniteSet({x}) /\ y \notin {x} /\ \A i \in {x} \cup {y} : f[i] \in Triple
  BY FS_Singleton
<1>2. Total(f, {x} \cup {y}) = Plus(Total(f, {x}), f[y])
  BY <1>1, TotalAdd
<1>3. {x} \cup {y} = {x, y}
  OBVIOUS
<1> QED  BY <1>2, <1>3, TotalOne

(* A sum does not depend on what the amounts are indexed by. *)
LEMMA TotalReindexed ==
    ASSUME NEW S, NEW T, IsFiniteSet(T), NEW b \in Bijection(S, T), NEW f, NEW h,
           \A i \in S : f[i] \in Triple /\ f[i] = h[b[i]]
    PROVE  Total(f, S) = Total(h, T)
<1> DEFINE Im(s) == {b[i] : i \in s}
           B == {s \in SUBSET S : Total(f, s) # Total(h, Im(s))}
<1>1. /\ \A i \in S : b[i] \in T
      /\ \A i, j \in S : b[i] = b[j] => i = j
      /\ \A t \in T : \E i \in S : b[i] = t
      /\ b \in Injection(S, T)
  BY DEF Bijection, Injection, Surjection, IsInjective
<1>2. IsFiniteSet(S) /\ Im(S) = T
  BY <1>1, FS_Injection
<1>3. SUFFICES ASSUME B # {} PROVE FALSE
  BY <1>2, S \in SUBSET S
<1>4. PICK s \in B : \A x \in s : s \ {x} \notin B
  <2>1. B \in SUBSET SUBSET S
    OBVIOUS
  <2> HIDE DEF B
  <2> QED  BY <1>2, <1>3, <2>1, SmallestSet
<1>5. s # {}
  <2>1. Im({}) = {}
    OBVIOUS
  <2>2. Total(f, {}) = Zero /\ Total(h, {}) = Zero
    BY FS_EmptySet, TotalStep
  <2> QED  BY <2>1, <2>2
<1>6. PICK x \in s : TRUE
  BY <1>5
<1> DEFINE r == s \ {x}
<1>7. Total(f, r) = Total(h, Im(r))
  BY <1>4
<1>8. IsFiniteSet(r) /\ x \notin r /\ r \cup {x} = s /\ r \in SUBSET S /\ x \in S
  <2>1. r \in SUBSET S
    OBVIOUS
  <2>2. IsFiniteSet(r)
    <3> HIDE DEF r
    <3> QED  BY <2>1, <1>2, FS_Subset
  <2> QED  BY <2>1, <2>2
<1>9. IsFiniteSet(Im(r)) /\ b[x] \notin Im(r) /\ Im(r) \cup {b[x]} = Im(s)
  <2>1. Im(r) \in SUBSET T
    BY <1>1, <1>8
  <2>2. IsFiniteSet(Im(r))
    <3> HIDE DEF Im, r
    <3> QED  BY <2>1, FS_Subset
  <2>3. b[x] \notin Im(r)
    BY <1>1, <1>8
  <2>4. Im(r) \cup {b[x]} = Im(s)
    BY <1>8
  <2> QED  BY <2>2, <2>3, <2>4
<1>10. Total(f, s) = Plus(Total(f, r), f[x])
  <2>1. \A i \in r \cup {x} : f[i] \in Triple
    BY <1>8
  <2>2. Total(f, r \cup {x}) = Plus(Total(f, r), f[x])
    <3> HIDE DEF r
    <3> QED  BY <2>1, <1>8, TotalAdd
  <2> QED  BY <2>2, <1>8
<1>11. Total(h, Im(s)) = Plus(Total(h, Im(r)), h[b[x]])
  <2>1. \A t \in Im(r) \cup {b[x]} : h[t] \in Triple
    BY <1>8
  <2>2. Total(h, Im(r) \cup {b[x]}) = Plus(Total(h, Im(r)), h[b[x]])
    <3> HIDE DEF Im, r
    <3> QED  BY <2>1, <1>9, TotalAdd
  <2> QED  BY <2>2, <1>9
<1> QED  BY <1>7, <1>8, <1>10, <1>11

(* SetToSeq lists every element once. *)
LEMMA SetToSeqLists ==
    ASSUME NEW S, IsFiniteSet(S)
    PROVE  /\ Cardinality(S) \in Nat
           /\ SetToSeq(S) \in Bijection(1..Cardinality(S), S)
           /\ SetToSeq(S) \in Seq(S) /\ Len(SetToSeq(S)) = Cardinality(S)
<1> DEFINE n == Cardinality(S)
<1>1. ExistsBijection(1..n, S) /\ n \in Nat
  BY FS_CardinalityType
<1>2. PICK f \in [1..n -> S] : IsInjective(f)
  BY <1>1 DEF ExistsBijection, Bijection, Injection, IsInjective
<1>3. SetToSeq(S) \in [1..n -> S] /\ IsInjective(SetToSeq(S))
  BY <1>2 DEF SetToSeq
<1>4. SetToSeq(S) \in Injection(1..n, S)
  BY <1>3 DEF Injection, IsInjective
<1>5. Cardinality(1..n) = n
  BY <1>1, FS_Interval
<1>6. SetToSeq(S) \in Surjection(1..n, S)
  <2>1. \A g \in Injection(1..n, S) : Cardinality(1..n) = Cardinality(S) <=> g \in Surjection(1..n, S)
    BY FS_Injection
  <2> QED  BY <2>1, <1>4, <1>5
<1> QED  BY <1>1, <1>3, <1>4, <1>6 DEF Bijection

(* Rearrangements of sums. *)
LEMMA Rearranged ==
    ASSUME NEW at \in Triple, NEW a \in Triple, NEW b \in Triple, NEW e \in Triple
    PROVE  /\ Plus(Plus(Minus(at, a), b), e) = Plus(Minus(Plus(at, e), a), b)
           /\ Minus(Plus(at, e), Plus(a, e)) = Minus(at, a)
           /\ Plus(Plus(Minus(at, Plus(a, e)), b), e) = Plus(Minus(at, a), b)
           /\ Plus(Plus(Minus(at, a), b), e) = Plus(Minus(at, a), Plus(b, e))
           /\ Minus(at, Zero) = at /\ Minus(at, at) = Zero
<1>1. \A t \in Triple : t[1] \in Int /\ t[2] \in Int /\ t[3] \in Int /\ t = <<t[1], t[2], t[3]>>
  BY DEF Triple
<1>2. \A t, u : /\ Plus(t, u)[1] = t[1] + u[1] /\ Plus(t, u)[2] = t[2] + u[2] /\ Plus(t, u)[3] = t[3] + u[3]
                /\ Minus(t, u)[1] = t[1] - u[1] /\ Minus(t, u)[2] = t[2] - u[2] /\ Minus(t, u)[3] = t[3] - u[3]
  BY DEF Plus, Minus
<1>3. \A t, u \in Triple : Plus(t, u) \in Triple /\ Minus(t, u) \in Triple
  BY PlusMinus
<1>4. \A t, u \in Triple : t[1] = u[1] /\ t[2] = u[2] /\ t[3] = u[3] => t = u
  BY <1>1
<1>5. Plus(Plus(Minus(at, a), b), e) = Plus(Minus(Plus(at, e), a), b)
  <2> DEFINE l == Plus(Plus(Minus(at, a), b), e)
             r == Plus(Minus(Plus(at, e), a), b)
  <2>1. l \in Triple /\ r \in Triple
    BY <1>3
  <2>2. l[1] = r[1] /\ l[2] = r[2] /\ l[3] = r[3]
    BY <1>1, <1>2
  <2>3. l = r
    <3> HIDE DEF l, r
    <3> QED  BY <2>1, <2>2, <1>4
  <2> QED  BY <2>3
<1>6. Minus(Plus(at, e), Plus(a, e)) = Minus(at, a)
  <2> DEFINE l == Minus(Plus(at, e), Plus(a, e))
             r == Minus(at, a)
  <2>1. l \in Triple /\ r \in Triple
    BY <1>3
  <2>2. l[1] = r[1] /\ l[2] = r[2] /\ l[3] = r[3]
    BY <1>1, <1>2
  <2>3. l = r
    <3> HIDE DEF l, r
    <3> QED  BY <2>1, <2>2, <1>4
  <2> QED  BY <2>3
<1>7. Plus(Plus(Minus(at, Plus(a, e)), b), e) = Plus(Minus(at, a), b)
  <2> DEFINE l == Plus(Plus(Minus(at, Plus(a, e)), b), e)
             r == Plus(Minus(at, a), b)
  <2>1. l \in Triple /\ r \in Triple
    BY <1>3
  <2>2. l[1] = r[1] /\ l[2] = r[2] /\ l[3] = r[3]
    BY <1>1, <1>2
  <2>3. l = r
    <3> HIDE DEF l, r
    <3> QED  BY <2>1, <2>2, <1>4
  <2> QED  BY <2>3
<1>8. Plus(Plus(Minus(at, a), b), e) = Plus(Minus(at, a), Plus(b, e))
  BY <1>3, PlusAssoc
<1>9. Minus(at, Zero) = at /\ Minus(at, at) = Zero
  <2>1. Zero \in Triple /\ Zero[1] = 0 /\ Zero[2] = 0 /\ Zero[3] = 0
    BY PlusMinus DEF Zero
  <2>2. Minus(at, Zero)[1] = at[1] /\ Minus(at, Zero)[2] = at[2] /\ Minus(at, Zero)[3] = at[3]
    BY <1>1, <1>2, <2>1
  <2>3. Minus(at, at)[1] = 0 /\ Minus(at, at)[2] = 0 /\ Minus(at, at)[3] = 0
    BY <1>1, <1>2
  <2> QED  BY <1>3, <1>4, <2>1, <2>2, <2>3
<1> QED  BY <1>5, <1>6, <1>7, <1>8, <1>9

-----------------------------------------------------------------------------
(* The tables. *)

Positive == {t \in Triple : t[1] > 0 /\ t[2] > 0 /\ t[3] > 0}
RowType  == [height : 1..MaxHeight, pair : Pair, amt : Triple]
TxType   == [type : {"create_pair", "initial_provide", "provide", "withdraw", "swap"},
             pair : Pair, amt : Triple]
Exists(h, p) == pool[h][p] # NoPool
At(h, p)     == IF Exists(h, p) THEN pool[h][p] ELSE Zero

(* The chain: every block changes one pair, and a pair stays. *)
Chain ==
    /\ tip \in 0..MaxHeight
    /\ pool \in [0..MaxHeight -> [Pair -> {NoPool} \cup Positive]]
    /\ \A p \in Pair : ~Exists(0, p)
    /\ \A h \in 1..tip : \E q \in Pair :
          /\ Exists(h, q) /\ pool[h][q] # pool[h - 1][q]
          /\ \A p \in Pair \ {q} : pool[h][p] = pool[h - 1][p]
    /\ \A g, h \in 0..tip : g <= h => \A p \in Pair : Exists(g, p) => Exists(h, p)

(* The parser: what it works on follows the cursor, what it quarantined is *)
(* behind it, and the pairs up to the cursor are in their table.           *)
Cursor ==
    /\ synced \in 0..tip /\ cur \in 0..tip /\ cur <= synced + 1
    /\ held \subseteq 1..synced
    /\ pairs \subseteq Pair
    /\ \A p \in Pair : Exists(synced, p) => p \in pairs

(* The rows: of pairs that exist at their heights; behind the cursor, as   *)
(* long as inserts did not overlap.                                        *)
Table ==
    /\ rows \in Seq(RowType)
    /\ \A i \in DOMAIN rows :
          /\ rows[i].height <= tip /\ Exists(rows[i].height, rows[i].pair)
          /\ rows[i].pair \in pairs
          /\ ~hist.raced => rows[i].height <= synced

(* The checkpoint builder goes on only with a target above the cursor it   *)
(* read, and inserts every pair the node knows there.                      *)
Builder ==
    /\ build \in [at : {"off", "validate", "generate", "insert", "done", "failed", "refused"},
                  target : 0..MaxHeight, dbHeight : 0..MaxHeight, txs : SUBSET TxType, pairs : SUBSET Pair]
    /\ build.at = "validate" => build.target # 0
    /\ build.at \in {"generate", "insert"} =>
          build.dbHeight < build.target /\ build.target <= tip /\ build.dbHeight <= synced
    /\ build.at = "insert" =>
          /\ IsFiniteSet(build.txs)
          /\ \A p \in Pair : Exists(build.target, p) => p \in pairs \cup build.pairs
          /\ \A tx \in build.txs : Exists(build.target, tx.pair) /\ tx.pair \in pairs \cup build.pairs
    /\ faults \in 0..MaxFaults

(* The history variables. *)
Remembered ==
    /\ hist.counted \in 0..Len(rows) /\ hist.read \in 0..Len(rows)
    /\ hist.seen \subseteq 1..synced /\ hist.absorbed \subseteq 1..synced
    /\ hist.misstated \subseteq Pair
    /\ hist.late \subseteq DOMAIN rows
    /\ hist.raced \in BOOLEAN

Typed == Chain /\ Cursor /\ Table /\ Builder /\ Remembered

(* What the builder will insert makes up, pair by pair, for what was       *)
(* missing when it counted, unless it cannot insert or misstates the pair. *)
StoredRows == {CP!toParsedTxModel(build.target, tx) : tx \in build.txs}
Due(p)     == Total([r \in StoredRows |-> r.amt], {r \in StoredRows : r.pair = p})
Counted(p) == Total(Amounts(rows), {i \in 1..hist.counted : rows[i].pair = p /\ rows[i].height <= build.target})
MakesUp ==
    build.at = "insert" /\ (\A tx \in build.txs : CP!Storable(tx)) =>
        \A p \in Pair : Misstates(p) \/ Plus(Counted(p), Due(p)) = At(build.target, p)

(* As long as the cursor stays where the builder read it, only replays     *)
(* have stored rows since it counted.                                      *)
Since(p) == Total(Amounts(rows), {i \in hist.counted + 1..Len(rows) : rows[i].pair = p})
OnlyReplays ==
    build.at = "insert" /\ ~hist.raced /\ synced = build.dbHeight =>
        /\ held \subseteq hist.seen
        /\ \A p \in Pair : Since(p) = Effects(hist.seen \ held, p)

IInv == Typed /\ MakesUp /\ OnlyReplays /\ PoolsAddUp

----------------------------------------------------------------------------
(* Facts about a block and about stored rows. *)

(* Neither the marker of a missing pool nor nothing is a pool. *)
LEMMA NotEmpty == ASSUME NEW t \in Int \X Int \X Int PROVE t # <<>>
OBVIOUS
LEMMA PoolIsPositive ==
    ASSUME NEW t \in Positive PROVE t # NoPool /\ t # Zero /\ t \in Triple
<1>1. t \in Int \X Int \X Int /\ t[1] > 0
  BY DEF Positive, Triple
<1>2. t # <<>>
  BY <1>1, NotEmpty
<1>3. t # Zero
  <2>1. Zero[1] = 0
    BY DEF Zero
  <2> QED  BY <1>1, <2>1
<1> QED  BY <1>1, <1>2, <1>3 DEF NoPool, CP!NoPool, Triple

LEMMA AtType == ASSUME Chain, NEW h \in 0..tip, NEW p \in Pair PROVE At(h, p) \in Triple
<1>1. pool[h][p] \in {NoPool} \cup Positive
  BY BoundsAssumption DEF Chain
<1> QED  BY <1>1, PoolIsPositive, PlusMinus DEF At, Exists

(* What a block does: it changes the pair it touches by its effect, and no *)
(* other.                                                                  *)
LEMMA Block ==
    ASSUME Chain, NEW h \in 1..tip
    PROVE  /\ h \in 1..MaxHeight /\ h - 1 \in 0..tip
           /\ Touched(h) \in Pair /\ Exists(h, Touched(h))
           /\ \A p \in Pair : /\ Effect(h, p) \in Triple
                              /\ At(h, p) = Plus(At(h - 1, p), Effect(h, p))
                              /\ p # Touched(h) => pool[h][p] = pool[h - 1][p] /\ Effect(h, p) = Zero
<1>1. h \in 1..MaxHeight /\ h - 1 \in 0..tip /\ h \in 0..tip /\ h - 1 <= h
  BY BoundsAssumption DEF Chain
<1>2. PICK q \in Pair : /\ Exists(h, q) /\ pool[h][q] # pool[h - 1][q]
                       /\ \A p \in Pair \ {q} : pool[h][p] = pool[h - 1][p]
  BY DEF Chain
<1>3. Touched(h) = q
  BY <1>2 DEF Touched
<1>4. ASSUME NEW p \in Pair
      PROVE /\ Effect(h, p) \in Triple
            /\ At(h, p) = Plus(At(h - 1, p), Effect(h, p))
            /\ p # q => Effect(h, p) = Zero
  <2>1. At(h, p) \in Triple /\ At(h - 1, p) \in Triple
    BY <1>1, AtType
  <2>2. Exists(h - 1, p) => Exists(h, p)
    BY <1>1 DEF Chain
  <2>3. CASE Exists(h, p)
    <3>1. Effect(h, p) = Minus(At(h, p), At(h - 1, p))
      BY <2>3 DEF Effect, Before, At, Exists
    <3>2. p # q => At(h, p) = At(h - 1, p)
      BY <1>2 DEF At, Exists
    <3> QED  BY <3>1, <3>2, <2>1, PlusMinus, Rearranged
  <2>4. CASE ~Exists(h, p)
    <3>1. Effect(h, p) = Zero /\ At(h, p) = Zero /\ At(h - 1, p) = Zero
      BY <2>2, <2>4 DEF Effect, At, Exists
    <3> QED  BY <3>1, PlusMinus
  <2> QED  BY <2>3, <2>4
<1> QED  BY <1>1, <1>2, <1>3, <1>4

(* The rows of a pair in a table, and what they add up to. *)
Of(r, p)     == {i \in DOMAIN r : r[i].pair = p}
SumAll(r, p) == Total(Amounts(r), Of(r, p))

LEMMA RowsFinite ==
    ASSUME NEW r \in Seq(RowType), NEW I \in SUBSET DOMAIN r
    PROVE  IsFiniteSet(I) /\ (\A i \in I : Amounts(r)[i] \in Triple) /\ Total(Amounts(r), I) \in Triple
<1>1. IsFiniteSet(1..Len(r)) /\ DOMAIN r = 1..Len(r)
  BY FS_Interval
<1>2. IsFiniteSet(I)
  BY <1>1, FS_Subset
<1>3. \A i \in I : Amounts(r)[i] \in Triple
  <2> TAKE i \in I
  <2>1. r[i] \in RowType
    BY <1>1
  <2>2. r[i].amt \in Triple
    BY <2>1 DEF RowType
  <2>3. Amounts(r)[i] = r[i].amt
    BY DEF Amounts
  <2> QED  BY <2>2, <2>3
<1> QED  BY <1>2, <1>3, TotalType

(* Appending rows leaves all sums of the old ones, and adds the sums of    *)
(* the new ones.                                                           *)
LEMMA Appended ==
    ASSUME NEW r \in Seq(RowType), NEW s \in Seq(RowType)
    PROVE  /\ r \o s \in Seq(RowType) /\ DOMAIN r \subseteq DOMAIN (r \o s)
           /\ Len(r \o s) = Len(r) + Len(s)
           /\ \A i \in DOMAIN r : (r \o s)[i] = r[i]
           /\ \A i \in DOMAIN (r \o s) \ DOMAIN r : i - Len(r) \in DOMAIN s /\ (r \o s)[i] = s[i - Len(r)]
           /\ \A I \in SUBSET DOMAIN r : Total(Amounts(r \o s), I) = Total(Amounts(r), I)
           /\ \A p : Total(Amounts(r \o s), Of(r \o s, p) \ DOMAIN r) = SumAll(s, p)
           /\ \A p : SumAll(r \o s, p) = Plus(SumAll(r, p), SumAll(s, p))
<1> DEFINE t == r \o s
<1>1. /\ t \in Seq(RowType) /\ DOMAIN r \subseteq DOMAIN t /\ Len(t) = Len(r) + Len(s)
      /\ \A i \in DOMAIN r : t[i] = r[i]
      /\ \A i \in DOMAIN t \ DOMAIN r : i - Len(r) \in DOMAIN s /\ t[i] = s[i - Len(r)]
      /\ \A j \in DOMAIN s : j + Len(r) \in DOMAIN t \ DOMAIN r
  OBVIOUS
<1> HIDE DEF t
<1>2. ASSUME NEW I \in SUBSET DOMAIN r PROVE Total(Amounts(t), I) = Total(Amounts(r), I)
  <2>1. \A i \in I : Amounts(t)[i] = Amounts(r)[i]
    BY <1>1 DEF Amounts
  <2> QED  BY <2>1, RowsFinite, TotalSame
<1>3. ASSUME NEW p PROVE Total(Amounts(t), Of(t, p) \ DOMAIN r) = SumAll(s, p)
  <2> DEFINE S == Of(t, p) \ DOMAIN r
             T == Of(s, p)
             b == [i \in S |-> i - Len(r)]
  <2>1. b \in Bijection(S, T)
    <3>1. \A i \in S : b[i] \in T /\ b[i] = i - Len(r) /\ i \in Int
      BY <1>1 DEF Of
    <3>2. \A j \in T : j + Len(r) \in S /\ b[j + Len(r)] = j
      BY <1>1 DEF Of
    <3>3. b \in [S -> T]
      <4> HIDE DEF S, T
      <4> QED  BY <3>1
    <3> HIDE DEF S, T, b
    <3>4. \A i, j \in S : b[i] = b[j] => i = j
      <4> TAKE i \in S, j \in S
      <4>1. b[i] = i - Len(r) /\ b[j] = j - Len(r) /\ i \in Int /\ j \in Int /\ Len(r) \in Int
        BY <3>1
      <4> QED  BY <4>1
    <3>5. b \in Injection(S, T)
      BY <3>3, <3>4 DEF Injection, IsInjective
    <3>6. b \in Surjection(S, T)
      <4>1. \A j \in T : \E i \in S : b[i] = j
        BY <3>2
      <4> QED  BY <3>3, <4>1 DEF Surjection
    <3> QED  BY <3>5, <3>6 DEF Bijection
  <2>2. \A i \in S : Amounts(t)[i] \in Triple /\ Amounts(t)[i] = Amounts(s)[b[i]]
    <3> TAKE i \in S
    <3>1. i \in DOMAIN t \ DOMAIN r /\ b[i] = i - Len(r)
      BY DEF Of
    <3>2. i - Len(r) \in DOMAIN s /\ t[i] = s[i - Len(r)]
      BY <3>1, <1>1
    <3>3. Amounts(t)[i] = t[i].amt /\ Amounts(s)[i - Len(r)] = s[i - Len(r)].amt
      BY <3>1, <3>2 DEF Amounts
    <3>4. Amounts(t)[i] \in Triple
      BY <3>1, <1>1, RowsFinite
    <3> HIDE DEF b, S
    <3> QED  BY <3>1, <3>2, <3>3, <3>4
  <2>3. IsFiniteSet(T)
    BY RowsFinite DEF Of
  <2> HIDE DEF S, T, b
  <2>4. Total(Amounts(t), S) = Total(Amounts(s), T)
    BY <2>1, <2>2, <2>3, TotalReindexed
  <2> QED  BY <2>4 DEF S, T, SumAll
<1>4. ASSUME NEW p PROVE SumAll(t, p) = Plus(SumAll(r, p), SumAll(s, p))
  <2> DEFINE S == Of(r, p)
             T == Of(t, p) \ DOMAIN r
  <2>1. Of(t, p) = S \cup T /\ S \cap T = {} /\ S \in SUBSET DOMAIN r /\ S \cup T \in SUBSET DOMAIN t
    BY <1>1 DEF Of
  <2>2. IsFiniteSet(S) /\ IsFiniteSet(T) /\ \A i \in S \cup T : Amounts(t)[i] \in Triple
    BY <1>1, <2>1, RowsFinite
  <2> HIDE DEF S, T
  <2>3. Total(Amounts(t), S \cup T) = Plus(Total(Amounts(t), S), Total(Amounts(t), T))
    BY <2>1, <2>2, TotalUnion
  <2>4. Total(Amounts(t), S) = Total(Amounts(r), S)
    BY <1>2, <2>1
  <2> QED  BY <2>1, <2>3, <2>4, <1>3 DEF SumAll, S, T
<1>5. \A p : Total(Amounts(t), Of(t, p) \ DOMAIN r) = SumAll(s, p)
  BY <1>3
<1>6. \A p : SumAll(t, p) = Plus(SumAll(r, p), SumAll(s, p))
  BY <1>4
<1>7. \A I \in SUBSET DOMAIN r : Total(Amounts(t), I) = Total(Amounts(r), I)
  BY <1>2
<1> QED  BY <1>1, <1>5, <1>6, <1>7 DEF t

(* All rows are between the first and the last height. *)
LEMMA SumOfAll ==
    ASSUME NEW r \in Seq(RowType), NEW p PROVE SumOf(r, p, 0, MaxHeight) = SumAll(r, p)
<1>1. RowsOf(r, p, 0, MaxHeight) = Of(r, p)
  <2>1. \A i \in DOMAIN r : r[i].height \in 0..MaxHeight
    <3> TAKE i \in DOMAIN r
    <3>1. r[i] \in RowType
      OBVIOUS
    <3>2. r[i].height \in 1..MaxHeight
      BY <3>1 DEF RowType
    <3> QED  BY <3>2, BoundsAssumption
  <2> QED  BY <2>1 DEF RowsOf, Of
<1> QED  BY <1>1 DEF SumOf, SumAll

(* The rows of a block add up to its effect. *)
LEMMA BlockSum ==
    ASSUME Chain, NEW h \in 1..tip
    PROVE  /\ BlockRows(h) \in Seq(RowType) /\ BlockRows(h) # <<>>
           /\ \A i \in DOMAIN BlockRows(h) : BlockRows(h)[i].height = h /\ BlockRows(h)[i].pair = Touched(h)
           /\ \A p \in Pair : SumAll(BlockRows(h), p) = Effect(h, p)
<1> DEFINE q == Touched(h)
           e == Effect(h, q)
<1>1. q \in Pair /\ e \in Triple /\ h \in 1..MaxHeight /\ Zero \in Triple
  BY Block, PlusMinus
<1>2. Row(h, Zero) \in RowType /\ Row(h, e) \in RowType
  BY <1>1 DEF Row, RowType
<1>3. /\ Row(h, Zero).amt = Zero /\ Row(h, Zero).height = h /\ Row(h, Zero).pair = q
      /\ Row(h, e).amt = e /\ Row(h, e).height = h /\ Row(h, e).pair = q
  BY DEF Row
<1>4. BlockRows(h) = <<Row(h, Zero), Row(h, e)>> \/ BlockRows(h) = <<Row(h, e)>>
  BY DEF BlockRows
<1> HIDE DEF e, q
<1>5. ASSUME NEW s \in Seq(RowType), \A i \in DOMAIN s : s[i].pair = q,
             Total(Amounts(s), DOMAIN s) = e
      PROVE  \A p \in Pair : SumAll(s, p) = Effect(h, p)
  <2> TAKE p \in Pair
  <2>1. CASE p = q
    <3>1. Of(s, p) = DOMAIN s
      BY <1>5, <2>1 DEF Of
    <3> QED  BY <3>1, <1>5, <2>1 DEF SumAll, e
  <2>2. CASE p # q
    <3>1. Of(s, p) = {}
      BY <1>5, <2>2 DEF Of
    <3>2. Effect(h, p) = Zero
      BY <2>2, Block DEF q
    <3> QED  BY <3>1, <3>2, FS_EmptySet, TotalStep DEF SumAll
  <2> QED  BY <2>1, <2>2
<1>6. CASE BlockRows(h) = <<Row(h, Zero), Row(h, e)>>
  <2> DEFINE s == <<Row(h, Zero), Row(h, e)>>
  <2>1. s \in Seq(RowType) /\ DOMAIN s = {1, 2} /\ s[1] = Row(h, Zero) /\ s[2] = Row(h, e) /\ s # <<>>
    BY <1>2
  <2> HIDE DEF s
  <2>2. Amounts(s)[1] = Zero /\ Amounts(s)[2] = e
    BY <2>1, <1>3 DEF Amounts
  <2> DEFINE f == Amounts(s)
  <2>3. Total(f, {1, 2}) = Plus(Zero, e)
    <3>1. f[1] = Zero /\ f[2] = e /\ 1 # 2 /\ f[1] \in Triple /\ f[2] \in Triple
      BY <2>2, <1>1
    <3> HIDE DEF f
    <3>2. Total(f, {1, 2}) = Plus(f[1], f[2])
      BY <3>1, TotalTwo
    <3> QED  BY <3>1, <3>2
  <2>4. Total(Amounts(s), DOMAIN s) = e
    BY <2>1, <2>3, <1>1, PlusComm, PlusZero
  <2>5. \A i \in DOMAIN s : s[i].pair = q /\ s[i].height = h
    BY <2>1, <1>3
  <2> QED  BY <2>1, <2>4, <2>5, <1>5, <1>6 DEF s, q
<1>7. CASE BlockRows(h) = <<Row(h, e)>>
  <2> DEFINE s == <<Row(h, e)>>
  <2>1. s \in Seq(RowType) /\ DOMAIN s = {1} /\ s[1] = Row(h, e) /\ s # <<>>
    BY <1>2
  <2> HIDE DEF s
  <2>2. Amounts(s)[1] = e
    BY <2>1, <1>3 DEF Amounts
  <2>3. Total(Amounts(s), DOMAIN s) = e
    BY <2>1, <2>2, <1>1, TotalOne
  <2>4. \A i \in DOMAIN s : s[i].pair = q /\ s[i].height = h
    BY <2>1, <1>3
  <2> QED  BY <2>1, <2>3, <2>4, <1>5, <1>7 DEF s, q
<1> QED  BY <1>4, <1>6, <1>7

----------------------------------------------------------------------------
(* The steps, grouped by what they change. *)
Commits ==
    /\ build.at = "insert" /\ CP!InsertRuns /\ CP!Inserted
    /\ build' \in {[build EXCEPT !.at = "done"], CP!NoBuild}
    /\ faults' \in {faults, faults + 1} /\ faults' \in 0..MaxFaults
    /\ UNCHANGED <<pool, tip, held, cur, lp, task>> /\ Remember
Prepares ==
    /\ \/ \E h \in 1..MaxHeight : CP!Launch(h)
       \/ CP!validateAndGetDbHeight
       \/ CP!generateCheckpointData
       \/ build'.at # "insert" /\ build' \in {[build EXCEPT !.at = "failed"], CP!NoBuild}
    /\ faults' \in 0..MaxFaults
    /\ UNCHANGED <<pool, tip, rows, pairs, synced, held, cur, lp, task>> /\ Remember
SumsUp ==
    /\ LH!Start \/ LH!Execute \/ LH!Read \/ LH!UpdateLpHistory \/ LH!Stops
    /\ faults' \in 0..MaxFaults
    /\ UNCHANGED <<pool, tip, rows, pairs, synced, held, cur, build>> /\ Remember

LEMMA Steps ==
    ASSUME Typed, [Next]_vars
    PROVE  \/ Grow \/ BeginRun \/ ParserInsert \/ Quarantine \/ \E h \in held : Replay(h)
           \/ Commits \/ Prepares \/ SumsUp \/ UNCHANGED vars
<1>0. faults \in 0..MaxFaults /\ (faults < MaxFaults => faults + 1 \in 0..MaxFaults)
  BY BoundsAssumption DEF Typed, Builder
<1>1. CASE \E h \in 1..MaxHeight : Builds(CP!Launch(h))
  BY <1>0, <1>1 DEF Builds, CP!Launch, Prepares
<1>2. CASE Builds(CP!validateAndGetDbHeight)
  BY <1>0, <1>2 DEF Builds, CP!validateAndGetDbHeight, Prepares
<1>3. CASE Builds(CP!generateCheckpointData)
  BY <1>0, <1>3 DEF Builds, CP!generateCheckpointData, Prepares
<1>4. CASE Builds(CP!Insert)
  BY <1>0, <1>4 DEF Builds, CP!Insert, Commits
<1>5. CASE Builds(CP!InsertRefused)
  BY <1>0, <1>5 DEF Builds, CP!InsertRefused, Prepares, Typed, Builder
<1>6. CASE Builds(CP!BuildFails)
  BY <1>0, <1>6 DEF Builds, CP!BuildFails, CP!Fault, CP!NoBuild, Commits, Prepares
<1>7. CASE Builds(CP!Ends)
  BY <1>0, <1>7 DEF Builds, CP!Ends, CP!NoBuild, Prepares
<1>8. CASE \/ Aggregates(LH!Start) \/ Aggregates(LH!Execute) \/ Aggregates(LH!Read)
           \/ Aggregates(LH!UpdateLpHistory)
  BY <1>0, <1>8 DEF Aggregates, LH!Start, LH!Execute, LH!Read, LH!UpdateLpHistory, SumsUp
<1>9. CASE Aggregates(LH!Stops)
  BY <1>0, <1>9 DEF Aggregates, LH!Stops, LH!Fault, SumsUp
<1> QED  BY <1>1, <1>2, <1>3, <1>4, <1>5, <1>6, <1>7, <1>8, <1>9 DEF Next

(* A new block changes one pair, to another pool. *)
LEMMA GrowStep ==
    ASSUME Chain, Grow
    PROVE  /\ tip + 1 \in 1..MaxHeight /\ tip' = tip + 1
           /\ \E p \in Pair, v \in Positive :
                 v # pool[tip][p] /\ pool' = [pool EXCEPT ![tip + 1] = [pool[tip] EXCEPT ![p] = v]]
<1>1. tip \in Nat /\ tip + 1 \in 1..MaxHeight /\ tip \in 0..MaxHeight
  BY BoundsAssumption DEF Grow, Chain
<1>2. PICK p \in Pair :
         \/ /\ pool[tip][p] = NoPool
            /\ pool' = [pool EXCEPT ![tip + 1] = [pool[tip] EXCEPT ![p] = Created]]
         \/ /\ pool[tip][p] # NoPool
            /\ \E d \in Deltas :
                 LET after == Plus(pool[tip][p], d)
                 IN /\ \A k \in 1..3 : after[k] > 0
                    /\ pool' = [pool EXCEPT ![tip + 1] = [pool[tip] EXCEPT ![p] = after]]
  BY DEF Grow
<1>3. CASE pool[tip][p] = NoPool
  <2>1. Created \in Positive
    BY DEF Created, Positive, Triple
  <2>2. Created # NoPool
    BY <2>1, PoolIsPositive
  <2> QED  BY <1>1, <1>2, <1>3, <2>1, <2>2 DEF Grow
<1>4. CASE pool[tip][p] # NoPool
  <2>1. PICK d \in Deltas :
           /\ \A k \in 1..3 : Plus(pool[tip][p], d)[k] > 0
           /\ pool' = [pool EXCEPT ![tip + 1] = [pool[tip] EXCEPT ![p] = Plus(pool[tip][p], d)]]
    BY <1>2, <1>4
  <2> DEFINE v == Plus(pool[tip][p], d)
  <2>2. d \in Triple /\ d # Zero
    BY DeltasAssumption DEF Triple, Amount, Zero
  <2>3. pool[tip][p] \in Triple
    BY <1>1, <1>4, PoolIsPositive DEF Chain
  <2>4. v \in Triple /\ v # pool[tip][p]
    <3>1. v \in Triple /\ Minus(v, d) = pool[tip][p]
      BY <2>2, <2>3, PlusMinus
    <3>2. Minus(v, v) = Zero
      BY <3>1, Rearranged
    <3>3. Plus(d, pool[tip][p]) = v /\ Minus(Plus(d, pool[tip][p]), pool[tip][p]) = d
      BY <2>2, <2>3, PlusMinus
    <3> HIDE DEF v
    <3>4. Minus(v, pool[tip][p]) = d
      BY <3>3
    <3> QED  BY <3>1, <3>2, <3>4, <2>2
  <2>5. v[1] > 0 /\ v[2] > 0 /\ v[3] > 0
    BY <2>1
  <2>6. v \in Positive
    <3> HIDE DEF v
    <3> QED  BY <2>4, <2>5 DEF Positive
  <2> QED  BY <1>1, <2>1, <2>4, <2>6 DEF Grow
<1> QED  BY <1>3, <1>4

(* What the node once knows it keeps. *)
LEMMA PoolKept ==
    ASSUME Typed, [Next]_vars
    PROVE  /\ tip <= tip' /\ tip \in Nat /\ tip' \in Nat
           /\ \A h \in 0..tip : pool'[h] = pool[h]
<1>1. tip \in 0..MaxHeight /\ tip \in Nat
  BY BoundsAssumption DEF Typed, Chain
<1>2. CASE Grow
  <2>1. PICK p \in Pair, v \in Positive :
           /\ v # pool[tip][p] /\ pool' = [pool EXCEPT ![tip + 1] = [pool[tip] EXCEPT ![p] = v]]
           /\ tip' = tip + 1
    BY <1>2, GrowStep DEF Typed
  <2>2. \A h \in 0..tip : h \in 0..MaxHeight /\ h # tip + 1
    BY <1>1, BoundsAssumption
  <2> QED  BY <1>1, <2>1, <2>2 DEF Typed, Chain
<1>3. CASE UNCHANGED <<pool, tip>>
  BY <1>1, <1>3
<1> QED
  BY <1>2, <1>3, Steps DEF BeginRun, ParserInsert, Quarantine, Replay, Commits, Prepares, SumsUp, vars

LEMMA EffectsKept ==
    ASSUME Typed, [Next]_vars
    PROVE  \A h \in 0..tip, p \in Pair :
              At(h, p)' = At(h, p) /\ Exists(h, p)' = Exists(h, p) /\ (h # 0 => Effect(h, p)' = Effect(h, p))
<1> TAKE h \in 0..tip, p \in Pair
<1>1. pool'[h] = pool[h] /\ (h # 0 => pool'[h - 1] = pool[h - 1])
  BY PoolKept
<1> QED  BY <1>1 DEF At, Exists, Effect, Before, NoPool, CP!NoPool

LEMMA ChainNext == ASSUME Typed, [Next]_vars PROVE Chain'
<1>1. CASE UNCHANGED <<pool, tip>>
  BY <1>1 DEF Typed, Chain, Exists, NoPool, CP!NoPool
<1>2. CASE Grow
  <2>1. /\ tip \in Nat /\ tip + 1 \in 1..MaxHeight /\ tip' = tip + 1 /\ tip \in 0..MaxHeight
        /\ tip + 1 \in 0..MaxHeight /\ pool \in [0..MaxHeight -> [Pair -> {NoPool} \cup Positive]]
    BY <1>2, GrowStep, BoundsAssumption DEF Typed, Chain
  <2>2. PICK p \in Pair, v \in Positive :
           v # pool[tip][p] /\ pool' = [pool EXCEPT ![tip + 1] = [pool[tip] EXCEPT ![p] = v]]
    BY <1>2, GrowStep DEF Typed
  <2>3. pool' \in [0..MaxHeight -> [Pair -> {NoPool} \cup Positive]]
    BY <2>1, <2>2
  <2>4. /\ \A h \in 0..tip : pool'[h] = pool[h]
        /\ pool'[tip + 1][p] = v /\ \A q \in Pair \ {p} : pool'[tip + 1][q] = pool[tip][q]
    BY <2>1, <2>2, PoolKept
  <2>5. v # NoPool
    BY PoolIsPositive
  <2>6. \A q \in Pair : ~Exists(0, q)'
    BY <2>1, <2>4 DEF Typed, Chain, Exists, NoPool, CP!NoPool
  <2>7. ASSUME NEW h \in 1..tip'
        PROVE  \E q \in Pair :
                  /\ Exists(h, q)' /\ pool'[h][q] # pool'[h - 1][q]
                  /\ \A r \in Pair \ {q} : pool'[h][r] = pool'[h - 1][r]
    <3>1. CASE h = tip + 1
      <4>1. h - 1 = tip /\ tip \in 0..tip
        BY <2>1, <3>1
      <4> QED  BY <3>1, <4>1, <2>2, <2>4, <2>5 DEF Exists, NoPool, CP!NoPool
    <3>2. CASE h # tip + 1
      <4>1. h \in 1..tip /\ h \in 0..tip /\ h - 1 \in 0..tip
        BY <2>1, <3>2
      <4> QED  BY <4>1, <2>4 DEF Typed, Chain, Exists, NoPool, CP!NoPool
    <3> QED  BY <3>1, <3>2
  <2>8. ASSUME NEW g \in 0..tip', NEW h \in 0..tip', g <= h, NEW q \in Pair, Exists(g, q)'
        PROVE  Exists(h, q)'
    <3>1. CASE g = tip + 1
      <4>1. h = g
        BY <2>1, <3>1, <2>8
      <4> QED  BY <4>1, <2>8
    <3>2. CASE g # tip + 1 /\ h # tip + 1
      <4>1. g \in 0..tip /\ h \in 0..tip
        BY <2>1, <3>2
      <4> QED  BY <4>1, <2>4, <2>8 DEF Typed, Chain, Exists, NoPool, CP!NoPool
    <3>3. CASE g # tip + 1 /\ h = tip + 1
      <4>1. g \in 0..tip /\ tip \in 0..tip /\ g <= tip
        BY <2>1, <3>3
      <4>2. Exists(tip, q)
        BY <4>1, <2>4, <2>8 DEF Typed, Chain, Exists, NoPool, CP!NoPool
      <4>3. pool'[h][q] # NoPool
        BY <4>2, <3>3, <2>4, <2>5 DEF Exists
      <4> QED  BY <4>3 DEF Exists, NoPool, CP!NoPool
    <3> QED  BY <3>1, <3>2, <3>3
  <2> QED  BY <2>1, <2>3, <2>6, <2>7, <2>8 DEF Chain, NoPool, CP!NoPool
<1> QED
  BY <1>1, <1>2, Steps DEF BeginRun, ParserInsert, Quarantine, Replay, Commits, Prepares, SumsUp, vars

----------------------------------------------------------------------------
(* The builder's module and the aggregator's see the same amounts. *)
LEMMA SameSums ==
    /\ CP!Zero = Zero /\ LH!Zero = Zero
    /\ \A a, b : CP!Plus(a, b) = Plus(a, b) /\ CP!Minus(a, b) = Minus(a, b) /\ LH!Plus(a, b) = Plus(a, b)
    /\ \A r : CP!Amounts(r) = Amounts(r) /\ LH!Amounts(r) = Amounts(r)
BY DEF CP!Zero, LH!Zero, Zero, CP!Plus, Plus, CP!Minus, Minus, LH!Plus, CP!Amounts, LH!Amounts, Amounts

LEMMA SameTotals ==
    ASSUME NEW f, NEW I PROVE CP!Total(f, I) = Total(f, I) /\ LH!Total(f, I) = Total(f, I)
BY DEF CP!Total, CP!FoldFunctionOnSet, CP!MapThenFoldSet, CP!Plus, CP!Zero,
       LH!Total, LH!FoldFunctionOnSet, LH!MapThenFoldSet, LH!Plus, LH!Zero,
       Total, FoldFunctionOnSet, MapThenFoldSet, Plus, Zero

LEMMA SameSumOf ==
    ASSUME NEW r, NEW p, NEW a, NEW b PROVE CP!SumOf(r, p, a, b) = SumOf(r, p, a, b)
<1>1. CP!RowsOf(r, p, a, b) = RowsOf(r, p, a, b)
  BY DEF CP!RowsOf, RowsOf
<1> QED  BY <1>1, SameSums, SameTotals DEF CP!SumOf, SumOf

LEMMA FiniteImage == ASSUME NEW S, IsFiniteSet(S), NEW f PROVE IsFiniteSet({f[x] : x \in S})
<1> DEFINE g == [x \in S |-> f[x]]
<1>1. g \in Surjection(S, {f[x] : x \in S})
  BY DEF Surjection
<1> QED  BY <1>1, FS_Surjection

(* What the builder makes of one pair. *)
MadeFor(h, p) ==
    IF p \in CP!Parsed(h) THEN CP!createDiffTx(p, pool[h][p], CP!SumOf(rows, p, 0, h))
                          ELSE CP!createNewPairTxs(p, pool[h][p])

LEMMA PairTxs ==
    ASSUME Typed, NEW h \in 0..tip, NEW p \in CP!Existing(h)
    PROVE  /\ p \in Pair /\ Exists(h, p) /\ pool[h][p] \in Positive
           /\ SumOf(rows, p, 0, h) \in Triple
           /\ MadeFor(h, p) \subseteq TxType /\ IsFiniteSet(MadeFor(h, p))
           /\ \A tx \in MadeFor(h, p) : tx.pair = p
<1> DEFINE src == pool[h][p]
           rdb == SumOf(rows, p, 0, h)
           diff == Minus(src, rdb)
<1>1. p \in Pair /\ Exists(h, p)
  BY DEF CP!Existing, Exists, NoPool
<1>2. src \in Positive /\ src \in Triple
  <2>1. h \in 0..MaxHeight
    BY BoundsAssumption DEF Typed, Chain
  <2>2. pool[h][p] \in {NoPool} \cup Positive
    BY <2>1, <1>1 DEF Typed, Chain
  <2> QED  BY <1>1, <2>2, PoolIsPositive DEF Exists
<1>3. rdb \in Triple
  <2>1. RowsOf(rows, p, 0, h) \in SUBSET DOMAIN rows
    BY DEF RowsOf
  <2> QED  BY <2>1, RowsFinite DEF SumOf, Typed, Table
<1>4. diff \in Triple /\ Zero \in Triple
  <2> HIDE DEF src, rdb
  <2> QED  BY <1>2, <1>3, PlusMinus
<1>5. CASE p \in CP!Parsed(h)
  <2>1. MadeFor(h, p) = CP!createDiffTx(p, src, rdb)
    BY <1>5, SameSumOf DEF MadeFor
  <2> HIDE DEF src, rdb
  <2>2. \/ MadeFor(h, p) = {}
        \/ \E type \in {"withdraw", "provide", "swap"} : MadeFor(h, p) = {[type |-> type, pair |-> p, amt |-> diff]}
    BY <2>1, SameSums DEF CP!createDiffTx, CP!Tx
  <2> HIDE DEF diff
  <2>3. CASE MadeFor(h, p) = {}
    BY <2>3, <1>1, <1>2, <1>3, FS_EmptySet DEF src, rdb
  <2>4. ASSUME NEW type \in {"withdraw", "provide", "swap"}, MadeFor(h, p) = {[type |-> type, pair |-> p, amt |-> diff]}
        PROVE  MadeFor(h, p) \subseteq TxType /\ IsFiniteSet(MadeFor(h, p)) /\ \A tx \in MadeFor(h, p) : tx.pair = p
    <3>1. [type |-> type, pair |-> p, amt |-> diff] \in TxType
      BY <1>1, <1>4 DEF TxType
    <3>2. IsFiniteSet(MadeFor(h, p))
      BY <2>4, FS_Singleton
    <3> QED  BY <2>4, <3>1, <3>2
  <2> QED  BY <2>2, <2>3, <2>4, <1>1, <1>2, <1>3 DEF src, rdb
<1>6. CASE p \notin CP!Parsed(h)
  <2>1. MadeFor(h, p) = {[type |-> "create_pair", pair |-> p, amt |-> Zero],
                         [type |-> "initial_provide", pair |-> p, amt |-> src]}
    BY <1>6, SameSums DEF MadeFor, CP!createNewPairTxs, CP!Tx
  <2> HIDE DEF src, rdb
  <2>2. MadeFor(h, p) \subseteq TxType
    BY <2>1, <1>1, <1>2, <1>4 DEF TxType
  <2>3. IsFiniteSet(MadeFor(h, p))
    <3>1. \A x, y : IsFiniteSet({x, y})
      <4> TAKE x, y
      <4>1. {x, y} = {x} \cup {y} /\ IsFiniteSet({x})
        BY FS_Singleton
      <4>2. IsFiniteSet({x} \cup {y})
        BY <4>1, FS_AddElement
      <4> QED  BY <4>1, <4>2
    <3> QED  BY <2>1, <3>1
  <2>4. \A tx \in MadeFor(h, p) : tx.pair = p
    BY <2>1
  <2> QED  BY <2>2, <2>3, <2>4, <1>1, <1>2, <1>3 DEF src, rdb
<1> QED  BY <1>5, <1>6

LEMMA AllTxs ==
    ASSUME Typed, NEW h \in 0..tip
    PROVE  /\ CP!NewTxs(h) \subseteq TxType /\ IsFiniteSet(CP!NewTxs(h))
           /\ \A tx \in CP!NewTxs(h) : tx.pair \in CP!Existing(h) /\ tx \in MadeFor(h, tx.pair)
           /\ \A p \in CP!Existing(h) : MadeFor(h, p) \subseteq CP!NewTxs(h)
<1>1. CP!NewTxs(h) = UNION {MadeFor(h, p) : p \in CP!Existing(h)}
  BY DEF CP!NewTxs, MadeFor
<1>2. IsFiniteSet(CP!Existing(h))
  BY PairAssumption, FS_Subset DEF CP!Existing
<1> DEFINE f == [p \in CP!Existing(h) |-> MadeFor(h, p)]
           M == {f[p] : p \in CP!Existing(h)}
<1>3. IsFiniteSet(M)
  <2> HIDE DEF f
  <2> QED  BY <1>2, FiniteImage
<1>4. \A T \in M : IsFiniteSet(T)
  BY PairTxs
<1>5. M = {MadeFor(h, p) : p \in CP!Existing(h)}
  OBVIOUS
<1>6. IsFiniteSet(UNION M)
  <2> HIDE DEF M
  <2> QED  BY <1>3, <1>4, FS_UNION
<1> HIDE DEF M, f
<1> QED  BY <1>1, <1>5, <1>6, PairTxs

(* What the builder inserts are rows, one for each transaction at most. *)
LEMMA Stored ==
    ASSUME Typed, build.at = "insert"
    PROVE  /\ IsFiniteSet(StoredRows) /\ CP!NewRows = SetToSeq(StoredRows)
           /\ StoredRows \subseteq RowType
           /\ \A r \in StoredRows : r.height = build.target /\ Exists(build.target, r.pair) /\ r.pair \in pairs \cup build.pairs
<1>1. IsFiniteSet(build.txs) /\ build.txs \subseteq TxType /\ build.target \in 1..MaxHeight
  BY BoundsAssumption DEF Typed, Builder, Cursor
<1> DEFINE f == [tx \in build.txs |-> CP!toParsedTxModel(build.target, tx)]
<1>2. IsFiniteSet({f[tx] : tx \in build.txs})
  <2> HIDE DEF f
  <2> QED  BY <1>1, FiniteImage
<1>3. {f[tx] : tx \in build.txs} = StoredRows
  BY DEF StoredRows
<1> HIDE DEF f
<1>4. ASSUME NEW tx \in build.txs PROVE CP!toParsedTxModel(build.target, tx) \in RowType
  <2>1. tx \in TxType
    BY <1>1
  <2>2. tx.pair \in Pair /\ tx.amt \in Int \X Int \X Int
    BY <2>1 DEF TxType, Triple
  <2>3. CP!StoredAmt(tx) \in Int \X Int \X Int
    BY <2>2 DEF CP!StoredAmt
  <2> QED  BY <1>1, <2>2, <2>3 DEF CP!toParsedTxModel, RowType, Triple
<1>5. StoredRows \subseteq RowType
  BY <1>4 DEF StoredRows
<1>6. \A r \in StoredRows : r.height = build.target /\ Exists(build.target, r.pair) /\ r.pair \in pairs \cup build.pairs
  BY DEF StoredRows, CP!toParsedTxModel, Typed, Builder
<1>7. CP!NewRows = SetToSeq(StoredRows)
  <2>1. CP!Cardinality(StoredRows) = Cardinality(StoredRows)
    BY DEF CP!Cardinality, Cardinality
  <2>2. \A g : CP!IsInjective(g) = IsInjective(g)
    BY DEF CP!IsInjective, IsInjective
  <2>3. CP!SetToSeq(StoredRows) = SetToSeq(StoredRows)
    BY <2>1, <2>2 DEF CP!SetToSeq, SetToSeq
  <2> QED  BY <2>3 DEF CP!NewRows, StoredRows
<1> QED  BY <1>2, <1>3, <1>5, <1>6, <1>7

LEMMA NewRowsAre ==
    ASSUME Typed, build.at = "insert"
    PROVE  /\ CP!NewRows \in Seq(RowType)
           /\ \A i \in DOMAIN CP!NewRows : CP!NewRows[i] \in StoredRows
<1>1. CP!NewRows \in Seq(StoredRows) /\ StoredRows \subseteq RowType
  BY Stored, SetToSeqLists
<1> HIDE DEF StoredRows
<1> QED  BY <1>1

----------------------------------------------------------------------------
(* The cursor. *)
LEMMA ParserAt ==
    ASSUME Typed, cur # 0
    PROVE  cur \in 1..tip /\ cur \in 0..tip /\ cur - 1 \in 0..tip /\ synced \in Nat /\ cur \in Nat
BY BoundsAssumption DEF Typed, Chain, Cursor

LEMMA CommitMoves ==
    ASSUME Typed, Commits
    PROVE  /\ build.target \in 1..tip /\ synced \in 0..tip /\ synced' \in {synced, build.target}
           /\ synced' >= synced
           /\ synced = build.dbHeight => synced' = build.target /\ synced < synced'
           /\ rows' = rows \o CP!NewRows /\ pairs' = pairs \cup build.pairs
           /\ build.pairs \subseteq Pair
<1>1. /\ build.dbHeight < build.target /\ build.target <= tip /\ build.dbHeight <= synced
      /\ build.target \in 0..MaxHeight /\ build.dbHeight \in 0..MaxHeight /\ build.pairs \subseteq Pair
      /\ synced \in 0..tip /\ tip \in 0..MaxHeight
  BY DEF Typed, Builder, Commits, Cursor, Chain
<1>2. synced' = IF synced = build.dbHeight THEN build.target ELSE synced
  BY DEF Commits, CP!Inserted
<1>3. rows' = rows \o CP!NewRows /\ pairs' = pairs \cup build.pairs
  BY DEF Commits, CP!Inserted
<1> QED  BY <1>1, <1>2, <1>3, BoundsAssumption

(* A commit that changes the database is one that is remembered. *)
LEMMA CommitShows ==
    ASSUME Typed, Commits, rows' # rows \/ synced' # synced \/ build'.at = "done" PROVE Committed
<1>1. build' # build
  <2>1. [build EXCEPT !.at = "done"].at = "done" /\ CP!NoBuild.at = "off"
    BY DEF CP!NoBuild, Typed, Builder
  <2> QED  BY <2>1 DEF Commits
<1> QED  BY <1>1 DEF Committed, Commits

LEMMA CursorNext == ASSUME Typed, [Next]_vars PROVE Cursor' /\ synced' >= synced
<1>1. /\ synced \in 0..tip /\ cur \in 0..tip /\ cur <= synced + 1 /\ synced \in Nat /\ cur \in Nat
      /\ tip \in Nat /\ tip' \in Nat /\ tip <= tip'
  BY PoolKept DEF Typed, Cursor
<1>2. ASSUME synced' \in 0..tip, synced' >= synced, cur' \in 0..tip, cur' <= synced' + 1,
             held' \subseteq 1..synced', pairs' \subseteq Pair,
             \A p \in Pair : Exists(synced', p) => p \in pairs'
      PROVE  Cursor' /\ synced' >= synced
  <2>1. \A p \in Pair : Exists(synced, p)' = Exists(synced', p)
    BY <1>2, PoolKept DEF Exists, NoPool, CP!NoPool
  <2>0. \A x \in 0..tip : x \in 0..tip'
    BY <1>1
  <2>2. synced' \in 0..tip' /\ cur' \in 0..tip' /\ cur' <= synced' + 1
    BY <2>0, <1>2
  <2>3. \A p \in Pair : Exists(synced, p)' => p \in pairs'
    BY <1>2, <2>1
  <2> QED  BY <1>2, <2>2, <2>3 DEF Cursor
<1>3. CASE UNCHANGED <<pairs, synced, held>> /\ cur' \in {cur, 0}
  BY <1>1, <1>2, <1>3 DEF Typed, Cursor
<1>4. CASE BeginRun
  BY <1>1, <1>2, <1>4 DEF BeginRun, Typed, Cursor
<1>5. CASE ParserInsert
  <2>1. CASE Creates(cur) /\ Touched(cur) \in pairs
    BY <2>1, <1>3, <1>5 DEF ParserInsert
  <2>2. CASE ~(Creates(cur) /\ Touched(cur) \in pairs)
    <3>1. /\ pairs' = pairs \cup {Touched(cur)} /\ synced' = (IF synced = cur - 1 THEN cur ELSE synced)
          /\ held' = held /\ cur' = 0 /\ cur # 0
      BY <1>5, <2>2 DEF ParserInsert, MoveCursor
    <3>2. /\ cur \in 1..tip /\ Touched(cur) \in Pair
          /\ \A p \in Pair : p # Touched(cur) => pool[cur][p] = pool[cur - 1][p]
      BY <3>1, ParserAt, Block DEF Typed
    <3>3. \A p \in Pair : Exists(synced', p) => p \in pairs'
      <4>1. CASE synced = cur - 1
        BY <4>1, <3>1, <3>2 DEF Typed, Cursor, Exists
      <4>2. CASE synced # cur - 1
        BY <4>2, <3>1 DEF Typed, Cursor
      <4> QED  BY <4>1, <4>2
    <3>4. held \subseteq 1..synced /\ pairs \subseteq Pair
      BY DEF Typed, Cursor
    <3> QED  BY <1>1, <1>2, <3>1, <3>2, <3>3, <3>4
  <2> QED  BY <2>1, <2>2
<1>6. CASE Quarantine
  <2>1. /\ pairs' = pairs /\ synced' = (IF synced = cur - 1 THEN cur ELSE synced)
        /\ held' = held \cup {cur} /\ cur' = 0 /\ cur # 0 /\ ~Creates(cur)
    BY <1>6 DEF Quarantine, MoveCursor
  <2>2. /\ cur \in 1..tip /\ Touched(cur) \in Pair
        /\ \A p \in Pair : p # Touched(cur) => pool[cur][p] = pool[cur - 1][p]
    BY <2>1, ParserAt, Block DEF Typed
  <2>3. Exists(cur - 1, Touched(cur))
    BY <2>1 DEF Creates, Exists
  <2>4. \A p \in Pair : Exists(synced', p) => p \in pairs'
    <3>1. CASE synced = cur - 1
      BY <3>1, <2>1, <2>2, <2>3 DEF Typed, Cursor, Exists
    <3>2. CASE synced # cur - 1
      BY <3>2, <2>1 DEF Typed, Cursor
    <3> QED  BY <3>1, <3>2
  <2>5. held \subseteq 1..synced /\ pairs \subseteq Pair
    BY DEF Typed, Cursor
  <2> QED  BY <1>1, <1>2, <2>1, <2>2, <2>4, <2>5
<1>7. CASE \E h \in held : Replay(h)
  <2>1. held' \subseteq held /\ UNCHANGED <<pairs, synced, cur>>
    BY <1>7 DEF Replay
  <2> QED  BY <1>1, <1>2, <2>1 DEF Typed, Cursor
<1>8. CASE Commits
  <2>1. held' = held /\ cur' = cur /\ held \subseteq 1..synced /\ pairs \subseteq Pair
    BY <1>8 DEF Commits, Typed, Cursor
  <2>2. \A p \in Pair : Exists(synced', p) => p \in pairs'
    BY <1>8, CommitMoves DEF Typed, Cursor, Builder, Commits
  <2> QED  BY <1>1, <1>2, <1>8, <2>1, <2>2, CommitMoves
<1> QED
  BY <1>3, <1>4, <1>5, <1>6, <1>7, <1>8, Steps DEF Grow, Prepares, SumsUp, vars

(* The table only grows. *)
LEMMA Appends ==
    ASSUME Typed, [Next]_vars
    PROVE  /\ rows \in Seq(RowType)
           /\ pairs \subseteq pairs' /\ DOMAIN rows \subseteq DOMAIN rows' /\ Len(rows) <= Len(rows')
           /\ rows' \in Seq(RowType)
           /\ \A i \in DOMAIN rows : rows'[i] = rows[i]
           /\ rows' = rows \/ \E s \in Seq(RowType) : rows' = rows \o s
<1>1. ASSUME NEW s \in Seq(RowType), rows' = rows \o s, pairs \subseteq pairs'
      PROVE  /\ rows \in Seq(RowType)
             /\ pairs \subseteq pairs' /\ DOMAIN rows \subseteq DOMAIN rows' /\ Len(rows) <= Len(rows')
             /\ rows' \in Seq(RowType)
             /\ \A i \in DOMAIN rows : rows'[i] = rows[i]
             /\ rows' = rows \/ \E t \in Seq(RowType) : rows' = rows \o t
  <2>1. rows \in Seq(RowType)
    BY DEF Typed, Table
  <2>2. /\ rows \o s \in Seq(RowType) /\ DOMAIN rows \subseteq DOMAIN (rows \o s)
        /\ Len(rows \o s) = Len(rows) + Len(s) /\ \A i \in DOMAIN rows : (rows \o s)[i] = rows[i]
    BY <2>1, Appended
  <2>3. Len(rows) <= Len(rows) + Len(s)
    BY <2>1
  <2>4. Len(rows) <= Len(rows \o s)
    BY <2>2, <2>3
  <2>5. DOMAIN rows \subseteq DOMAIN rows' /\ \A i \in DOMAIN rows : rows'[i] = rows[i]
    BY <1>1, <2>2
  <2>6. rows' \in Seq(RowType) /\ Len(rows) <= Len(rows')
    BY <1>1, <2>2, <2>4
  <2>7. \E t \in Seq(RowType) : rows' = rows \o t
    BY <1>1
  <2> QED  BY <1>1, <2>1, <2>5, <2>6, <2>7
<1>2. CASE UNCHANGED <<rows, pairs>>
  BY <1>2 DEF Typed, Table
<1>3. CASE ParserInsert
  <2>1. CASE Creates(cur) /\ Touched(cur) \in pairs
    BY <2>1, <1>2, <1>3 DEF ParserInsert
  <2>2. CASE ~(Creates(cur) /\ Touched(cur) \in pairs)
    <3>1. rows' = rows \o BlockRows(cur) /\ pairs \subseteq pairs' /\ cur # 0
      BY <1>3, <2>2 DEF ParserInsert
    <3>2. BlockRows(cur) \in Seq(RowType)
      BY <3>1, ParserAt, BlockSum DEF Typed
    <3> QED  BY <3>1, <3>2, <1>1
  <2> QED  BY <2>1, <2>2
<1>4. CASE \E h \in held : Replay(h)
  <2>1. PICK h \in held : Replay(h)
    BY <1>4
  <2>2. h \in 1..tip
    BY BoundsAssumption DEF Typed, Cursor, Chain
  <2>3. BlockRows(h) \in Seq(RowType)
    BY <2>2, BlockSum DEF Typed
  <2> QED  BY <2>1, <2>3, <1>1 DEF Replay
<1>5. CASE Commits
  <2>1. rows' = rows \o CP!NewRows /\ pairs \subseteq pairs'
    BY <1>5, CommitMoves
  <2>2. CP!NewRows \in Seq(RowType)
    BY <1>5, NewRowsAre DEF Commits
  <2> QED  BY <2>1, <2>2, <1>1
<1> QED
  BY <1>2, <1>3, <1>4, <1>5, Steps DEF Grow, BeginRun, Quarantine, Prepares, SumsUp, vars

(* Every step remembers. *)
LEMMA Remembers == ASSUME Typed, [Next]_vars PROVE Remember \/ UNCHANGED vars
BY Steps DEF Grow, BeginRun, ParserInsert, Quarantine, Replay, Commits, Prepares, SumsUp

LEMMA Raced ==
    ASSUME Typed, [Next]_vars, ~hist'.raced
    PROVE  /\ ~hist.raced
           /\ Committed => synced = build.dbHeight
           /\ Inserts => synced = cur - 1
<1>1. CASE Remember
  BY <1>1 DEF Remember, Overlaps
<1>2. CASE UNCHANGED vars
  BY <1>2 DEF vars, Committed, Inserts
<1> QED  BY <1>1, <1>2, Remembers

(* The table. *)
LEMMA TableKept ==
    ASSUME Typed, [Next]_vars, NEW i \in DOMAIN rows
    PROVE  /\ rows'[i].height <= tip' /\ pool'[rows'[i].height][rows'[i].pair] # NoPool
           /\ rows'[i].pair \in pairs'
           /\ ~hist'.raced => rows'[i].height <= synced'
<1>1. rows'[i] = rows[i] /\ rows[i] \in RowType /\ pairs \subseteq pairs'
  BY Appends DEF Typed, Table
<1>2. /\ rows[i].height \in 0..tip /\ rows[i].pair \in Pair /\ rows[i].height \in Nat
      /\ rows[i].height <= tip /\ Exists(rows[i].height, rows[i].pair) /\ rows[i].pair \in pairs
      /\ ~hist.raced => rows[i].height <= synced
  <2>1. rows[i].height \in 1..MaxHeight /\ rows[i].pair \in Pair
    BY <1>1 DEF RowType
  <2> QED  BY <2>1, PoolKept DEF Typed, Table
<1>3. pool'[rows[i].height][rows[i].pair] # NoPool
  BY <1>1, <1>2, PoolKept DEF Exists, NoPool, CP!NoPool
<1>4. rows[i].height <= tip' /\ (~hist'.raced => rows[i].height <= synced')
  <2>1. synced' >= synced /\ synced \in Nat /\ synced' \in Nat /\ tip \in Nat /\ tip' \in Nat /\ tip <= tip'
    BY CursorNext, PoolKept DEF Typed, Cursor
  <2> QED  BY <2>1, <1>2, Raced
<1> QED  BY <1>1, <1>2, <1>3, <1>4

LEMMA TableNext == ASSUME Typed, [Next]_vars PROVE Table'
<1>1. ASSUME NEW s \in Seq(RowType), rows' = rows \o s,
             \A j \in DOMAIN s : /\ s[j].height <= tip' /\ pool'[s[j].height][s[j].pair] # NoPool
                                 /\ s[j].pair \in pairs'
                                 /\ ~hist'.raced => s[j].height <= synced'
      PROVE  Table'
  <2>1. \A i \in DOMAIN rows' \ DOMAIN rows : i - Len(rows) \in DOMAIN s /\ rows'[i] = s[i - Len(rows)]
    BY <1>1, Appended DEF Typed, Table
  <2>2. \A i \in DOMAIN rows' : /\ rows'[i].height <= tip' /\ pool'[rows'[i].height][rows'[i].pair] # NoPool
                                /\ rows'[i].pair \in pairs'
                                /\ ~hist'.raced => rows'[i].height <= synced'
    <3> TAKE i \in DOMAIN rows'
    <3>1. CASE i \in DOMAIN rows
      BY <3>1, TableKept
    <3>2. CASE i \notin DOMAIN rows
      BY <3>2, <2>1, <1>1
    <3> QED  BY <3>1, <3>2
  <2>3. rows' \in Seq(RowType)
    BY Appends
  <2> QED  BY <2>2, <2>3 DEF Table, Exists, NoPool, CP!NoPool
<1>2. CASE rows' = rows
  <2>1. \A i \in DOMAIN rows' : /\ rows'[i].height <= tip' /\ pool'[rows'[i].height][rows'[i].pair] # NoPool
                                /\ rows'[i].pair \in pairs'
                                /\ ~hist'.raced => rows'[i].height <= synced'
    BY <1>2, TableKept
  <2>2. rows' \in Seq(RowType)
    BY Appends
  <2> QED  BY <2>1, <2>2 DEF Table, Exists, NoPool, CP!NoPool
<1>3. CASE ParserInsert /\ rows' # rows
  <2>1. /\ rows' = rows \o BlockRows(cur) /\ pairs' = pairs \cup {Touched(cur)} /\ cur # 0 /\ cur' = 0
        /\ synced' = (IF synced = cur - 1 THEN cur ELSE synced) /\ UNCHANGED <<pool, tip>>
    BY <1>3 DEF ParserInsert, MoveCursor
  <2>2. /\ cur \in 1..tip /\ BlockRows(cur) \in Seq(RowType) /\ Exists(cur, Touched(cur))
        /\ \A i \in DOMAIN BlockRows(cur) : BlockRows(cur)[i].height = cur /\ BlockRows(cur)[i].pair = Touched(cur)
    BY <2>1, ParserAt, BlockSum, Block DEF Typed
  <2>3. ~hist'.raced => cur <= synced'
    <3>1. Inserts
      BY <1>3, <2>1 DEF Inserts
    <3> QED  BY <3>1, <2>1, <2>2, Raced, ParserAt
  <2>4. cur <= tip'
    BY <2>1, <2>2
  <2> QED  BY <1>1, <2>1, <2>2, <2>3, <2>4 DEF Exists
<1>4. CASE \E h \in held : Replay(h)
  <2>1. PICK h \in held : Replay(h)
    BY <1>4
  <2>2. /\ rows' = rows \o BlockRows(h) /\ UNCHANGED <<pool, tip, pairs, synced>>
    BY <2>1 DEF Replay
  <2>3. /\ h \in 1..tip /\ h \in 1..synced /\ h \in 0..tip /\ synced \in 0..tip /\ h <= synced /\ h <= tip
    BY BoundsAssumption DEF Typed, Cursor, Chain
  <2>4. /\ BlockRows(h) \in Seq(RowType) /\ Exists(h, Touched(h)) /\ Touched(h) \in Pair
        /\ \A i \in DOMAIN BlockRows(h) : BlockRows(h)[i].height = h /\ BlockRows(h)[i].pair = Touched(h)
    BY <2>3, BlockSum, Block DEF Typed
  <2>5. Touched(h) \in pairs
    BY <2>3, <2>4 DEF Typed, Chain, Cursor
  <2> QED  BY <1>1, <2>2, <2>3, <2>4, <2>5 DEF Exists
<1>5. CASE Commits /\ rows' # rows
  <2>1. /\ rows' = rows \o CP!NewRows /\ pairs' = pairs \cup build.pairs /\ build.target \in 1..tip
        /\ UNCHANGED <<pool, tip>> /\ build.at = "insert"
    BY <1>5, CommitMoves DEF Commits
  <2>2. /\ CP!NewRows \in Seq(RowType)
        /\ \A i \in DOMAIN CP!NewRows : CP!NewRows[i] \in StoredRows
    BY <2>1, NewRowsAre
  <2>3. \A i \in DOMAIN CP!NewRows :
           /\ CP!NewRows[i].height = build.target /\ Exists(build.target, CP!NewRows[i].pair)
           /\ CP!NewRows[i].pair \in pairs'
    BY <2>1, <2>2, Stored
  <2>4. build.target <= tip'
    BY <2>1
  <2>5. ~hist'.raced => build.target <= synced'
    <3>1. Committed
      BY <1>5, CommitShows
    <3> QED  BY <3>1, <1>5, <2>1, Raced, CommitMoves
  <2> QED  BY <1>1, <2>1, <2>2, <2>3, <2>4, <2>5 DEF Exists
<1> QED
  BY <1>2, <1>3, <1>4, <1>5, Steps DEF Grow, BeginRun, Quarantine, Prepares, SumsUp, vars

(* The builder. *)
LEMMA BuilderKept ==
    ASSUME Typed, [Next]_vars, build' = build, faults' \in 0..MaxFaults PROVE Builder'
<1>1. synced' >= synced /\ synced \in Nat /\ synced' \in Nat /\ tip \in Nat /\ tip' \in Nat /\ tip <= tip'
      /\ pairs \subseteq pairs'
  BY CursorNext, PoolKept, Appends DEF Typed, Cursor
<1>2. /\ build.target \in Nat /\ build.dbHeight \in Nat
      /\ build.at \in {"generate", "insert"} => build.target \in 0..tip
  BY <1>1, BoundsAssumption DEF Typed, Builder
<1>3. build.at \in {"generate", "insert"} => build.target <= tip' /\ build.dbHeight <= synced'
  BY <1>1, <1>2 DEF Typed, Builder
<1>4. build.at = "insert" => \A p \in Pair : pool'[build.target][p] = pool[build.target][p]
  BY <1>2, PoolKept
<1>5. build.at = "insert" =>
        /\ \A p \in Pair : Exists(build.target, p)' => p \in pairs' \cup build.pairs
        /\ \A tx \in build.txs : Exists(build.target, tx.pair)' /\ tx.pair \in pairs' \cup build.pairs
  <2> SUFFICES ASSUME build.at = "insert"
               PROVE  /\ \A p \in Pair : Exists(build.target, p)' => p \in pairs' \cup build.pairs
                      /\ \A tx \in build.txs : Exists(build.target, tx.pair)' /\ tx.pair \in pairs' \cup build.pairs
    OBVIOUS
  <2>1. \A p \in Pair : Exists(build.target, p)' <=> Exists(build.target, p)
    BY <1>4 DEF Exists, NoPool, CP!NoPool
  <2>2. \A tx \in build.txs : tx.pair \in Pair
    BY DEF Typed, Builder, TxType
  <2>3. /\ \A p \in Pair : Exists(build.target, p) => p \in pairs' \cup build.pairs
        /\ \A tx \in build.txs : Exists(build.target, tx.pair) /\ tx.pair \in pairs' \cup build.pairs
    BY <1>1 DEF Typed, Builder
  <2>4. \A tx \in build.txs : Exists(build.target, tx.pair)'
    <3> TAKE tx \in build.txs
    <3>1. pool[build.target][tx.pair] # NoPool
      BY <2>3 DEF Exists
    <3>2. pool'[build.target][tx.pair] # NoPool
      BY <3>1, <2>2, <1>4
    <3> QED  BY <3>2 DEF Exists, NoPool, CP!NoPool
  <2> QED  BY <2>1, <2>3, <2>4
<1> QED  BY <1>3, <1>5 DEF Typed, Builder, Exists, NoPool, CP!NoPool

LEMMA BuilderNext == ASSUME Typed, [Next]_vars PROVE Builder'
<1>0. faults \in 0..MaxFaults
  BY DEF Typed, Builder
<1>1. CASE Prepares \/ Commits
  <2>0. build \in [at : {"off", "validate", "generate", "insert", "done", "failed", "refused"},
                   target : 0..MaxHeight, dbHeight : 0..MaxHeight, txs : SUBSET TxType, pairs : SUBSET Pair]
    BY DEF Typed, Builder
  <2>1. faults' \in 0..MaxFaults /\ UNCHANGED <<pool, tip>> /\ 0 \in 0..MaxHeight
    BY <1>1, BoundsAssumption DEF Prepares, Commits
  <2>2. ASSUME build' \in {[build EXCEPT !.at = "done"], [build EXCEPT !.at = "failed"], CP!NoBuild}
        PROVE  Builder'
    BY <2>0, <2>1, <2>2 DEF Builder, CP!NoBuild
  <2>3. CASE \E h \in 1..MaxHeight : CP!Launch(h)
    <3>1. PICK h \in 1..MaxHeight : CP!Launch(h)
      BY <2>3
    <3>2. h \in 0..MaxHeight /\ h # 0
      OBVIOUS
    <3> QED  BY <3>1, <3>2, <2>1 DEF CP!Launch, CP!NoBuild, Builder
  <2>4. CASE CP!validateAndGetDbHeight
    <3>1. /\ build' = [build EXCEPT !.dbHeight = synced,
                              !.at = IF synced < build.target /\ build.target <= tip
                                     THEN "generate" ELSE "refused"]
          /\ synced' = synced
      BY <2>4 DEF CP!validateAndGetDbHeight
    <3>2. synced \in 0..MaxHeight
      BY BoundsAssumption DEF Typed, Chain, Cursor
    <3>3. /\ build' \in [at : {"off", "validate", "generate", "insert", "done", "failed", "refused"},
                   target : 0..MaxHeight, dbHeight : 0..MaxHeight, txs : SUBSET TxType, pairs : SUBSET Pair]
          /\ build'.at \in {"generate", "refused"}
          /\ build'.at = "generate" => build'.dbHeight < build'.target /\ build'.target <= tip
          /\ build'.dbHeight = synced
      BY <2>0, <3>1, <3>2
    <3>4. synced <= synced
      BY <3>2
    <3> QED  BY <2>1, <3>1, <3>3, <3>4 DEF Builder
  <2>5. CASE CP!generateCheckpointData
    <3>1. /\ build.at = "generate" /\ UNCHANGED <<rows, pairs, synced>>
          /\ build' = [build EXCEPT !.at = "insert", !.txs = CP!NewTxs(build.target),
                              !.pairs = CP!Existing(build.target) \ CP!Parsed(build.target)]
      BY <2>5 DEF CP!generateCheckpointData
    <3>2. /\ build.target \in 0..tip /\ build.dbHeight < build.target /\ build.target <= tip
          /\ build.dbHeight <= synced
      BY <3>1, BoundsAssumption DEF Typed, Builder, Chain
    <3>3. /\ CP!NewTxs(build.target) \subseteq TxType /\ IsFiniteSet(CP!NewTxs(build.target))
          /\ \A tx \in CP!NewTxs(build.target) : tx.pair \in CP!Existing(build.target)
      BY <3>2, AllTxs
    <3>4. CP!Existing(build.target) = {p \in Pair : Exists(build.target, p)}
      BY DEF CP!Existing, Exists, NoPool
    <3>5. \A p \in CP!Parsed(build.target) : p \in pairs
      BY DEF CP!Parsed, Typed, Table
    <3>6. build' \in [at : {"off", "validate", "generate", "insert", "done", "failed", "refused"},
                   target : 0..MaxHeight, dbHeight : 0..MaxHeight, txs : SUBSET TxType, pairs : SUBSET Pair]
      BY <2>0, <3>1, <3>3, <3>4
    <3>7. build'.at = "insert" /\ build'.target = build.target /\ build'.dbHeight = build.dbHeight
          /\ build'.txs = CP!NewTxs(build.target) /\ build'.pairs = CP!Existing(build.target) \ CP!Parsed(build.target)
      BY <2>0, <3>1
    <3>8. \A p \in Pair : pool'[build'.target][p] = pool[build.target][p]
      BY <2>1, <3>7
    <3> QED  BY <2>1, <3>1, <3>2, <3>3, <3>4, <3>5, <3>6, <3>7, <3>8 DEF Builder, Exists, NoPool, CP!NoPool
  <2> QED  BY <1>1, <2>2, <2>3, <2>4, <2>5 DEF Prepares, Commits
<1>2. CASE SumsUp
  BY <1>2, BuilderKept DEF SumsUp
<1> QED
  BY <1>0, <1>1, <1>2, BuilderKept, Steps DEF Grow, BeginRun, ParserInsert, Quarantine, Replay, vars

(* What is remembered. *)
LEMMA RememberedNext == ASSUME Typed, [Next]_vars PROVE Remembered'
<1>1. /\ synced' >= synced /\ synced \in Nat /\ synced' \in Nat
      /\ held \subseteq 1..synced /\ 1..synced \subseteq 1..synced'
      /\ Len(rows) \in Nat /\ Len(rows') \in Nat /\ Len(rows) <= Len(rows')
      /\ DOMAIN rows \subseteq DOMAIN rows'
  BY CursorNext, PoolKept, Appends DEF Typed, Cursor
<1>2. /\ hist.counted \in 0..Len(rows) /\ hist.read \in 0..Len(rows)
      /\ hist.seen \subseteq 1..synced /\ hist.absorbed \subseteq 1..synced
      /\ hist.misstated \subseteq Pair
      /\ hist.late \subseteq DOMAIN rows
      /\ hist.raced \in BOOLEAN
  BY DEF Typed, Remembered
<1>3. CASE Remember
  <2>1. /\ hist'.counted \in {Len(rows), hist.counted, 0}
        /\ hist'.read \in {Len(rows), hist.read, 0}
        /\ hist'.seen \in {held, hist.seen, {}} /\ hist'.absorbed \in {hist.seen, hist.absorbed}
        /\ hist'.misstated \in {{p \in Pair : Misstates(p)}, hist.misstated}
        /\ hist'.late = hist.late \cup Late
        /\ hist'.raced = (hist.raced \/ Overlaps)
    BY <1>3 DEF Remember
  <2>2. hist'.raced \in BOOLEAN
    BY <2>1
  <2>3. Late \subseteq DOMAIN rows'
    BY DEF Late
  <2>4. hist'.misstated \subseteq Pair /\ hist'.late \subseteq DOMAIN rows'
    BY <1>1, <1>2, <2>1, <2>3
  <2>5. hist'.seen \subseteq 1..synced' /\ hist'.absorbed \subseteq 1..synced'
    BY <1>1, <1>2, <2>1
  <2>6. hist'.counted \in 0..Len(rows') /\ hist'.read \in 0..Len(rows')
    BY <1>1, <1>2, <2>1
  <2> QED  BY <2>2, <2>4, <2>5, <2>6 DEF Remembered
<1>4. CASE UNCHANGED vars
  BY <1>4, <1>2 DEF Remembered, vars
<1> QED  BY <1>3, <1>4, Remembers

LEMMA TypedNext == ASSUME Typed, [Next]_vars PROVE Typed'
BY ChainNext, CursorNext, TableNext, BuilderNext, RememberedNext DEF Typed

LEMMA TypedInit == ASSUME Init PROVE Typed
<1>1. /\ pool = [h \in 0..MaxHeight |-> [p \in Pair |-> NoPool]] /\ tip = 0
      /\ rows = <<>> /\ pairs = {} /\ synced = 0 /\ held = {} /\ cur = 0 /\ build = CP!NoBuild
      /\ faults = 0 /\ hist = NoHist
  BY DEF Init
<1>2. 0 \in 0..MaxHeight /\ 0 \in 0..MaxFaults
  BY BoundsAssumption
<1>3. Chain
  BY <1>1, <1>2 DEF Chain, Exists
<1>4. Cursor
  BY <1>1, <1>2 DEF Cursor, Exists
<1>5. Table
  BY <1>1 DEF Table
<1>6. Builder
  BY <1>1, <1>2 DEF Builder, CP!NoBuild
<1>7. Remembered
  BY <1>1 DEF Remembered, NoHist
<1> QED  BY <1>3, <1>4, <1>5, <1>6, <1>7 DEF Typed

(* The cursor never goes back, although the parser and the checkpoint      *)
(* builder both move it and neither locks it (repository.go:117).          *)
THEOREM CursorForward == Spec => CursorMovesForward
<1>1. Init => Typed
  BY TypedInit
<1>2. Typed /\ [Next]_vars => Typed'
  BY TypedNext
<1>3. Typed /\ [Next]_vars => [synced' >= synced]_vars
  BY CursorNext
<1> QED  BY <1>1, <1>2, <1>3, PTL DEF Spec, CursorMovesForward

----------------------------------------------------------------------------
(* The row that createDiffTx makes of any two pools, once toParsedTxModel  *)
(* has given its LP amount a sign, brings the sums to the node's pool in   *)
(* every case but one: no asset grew while the LP tokens changed.  A net   *)
(* withdrawal is such a case, and it cannot even be stored.                *)
THEOREM DiffRowSettles ==
    ASSUME NEW p, NEW src \in Int \X Int \X Int, NEW rdb \in Int \X Int \X Int,
           src # rdb,
           NEW tx, CP!createDiffTx(p, src, rdb) = {tx}
    PROVE  /\ CP!Storable(tx) /\ Plus(rdb, CP!StoredAmt(tx)) = src
                <=> ~(src[1] <= rdb[1] /\ src[2] <= rdb[2] /\ src[3] # rdb[3])
           /\ src[1] <= rdb[1] /\ src[2] <= rdb[2] /\ src[3] < rdb[3] => ~CP!Storable(tx)
<1> DEFINE type == IF src[1] <= rdb[1] /\ src[2] <= rdb[2] THEN "withdraw"
                   ELSE IF src[1] >= rdb[1] /\ src[2] >= rdb[2] THEN "provide" ELSE "swap"
<1>1. PICK a \in Int, b \in Int, c \in Int, x \in Int, y \in Int, z \in Int :
             src = <<a, b, c>> /\ rdb = <<x, y, z>>
  <2>1. src = <<src[1], src[2], src[3]>> /\ src[1] \in Int /\ src[2] \in Int /\ src[3] \in Int
    OBVIOUS
  <2>2. rdb = <<rdb[1], rdb[2], rdb[3]>> /\ rdb[1] \in Int /\ rdb[2] \in Int /\ rdb[3] \in Int
    OBVIOUS
  <2> QED  BY <2>1, <2>2
<1>2. CP!Minus(src, rdb) = <<a - x, b - y, c - z>> /\ CP!Minus(src, rdb) # CP!Zero
  BY <1>1 DEF CP!Minus, CP!Zero
<1>3. tx = [type |-> type, pair |-> p, amt |-> <<a - x, b - y, c - z>>]
  <2>1. CP!createDiffTx(p, src, rdb) = {[type |-> type, pair |-> p, amt |-> <<a - x, b - y, c - z>>]}
    BY <1>1, <1>2 DEF CP!createDiffTx, CP!Tx
  <2> QED  BY <2>1
<1>4. CASE type = "withdraw"
  <2>1. CP!StoredAmt(tx) = <<a - x, b - y, 0 - (c - z)>>
    BY <1>3, <1>4, <1>1 DEF CP!StoredAmt
  <2>2. CP!Storable(tx) <=> c - z >= 0
    BY <1>3, <1>4, <1>1 DEF CP!Storable
  <2>3. Plus(rdb, CP!StoredAmt(tx)) = <<x + (a - x), y + (b - y), z + (0 - (c - z))>>
    BY <2>1, <1>1 DEF Plus
  <2>4. src[1] <= rdb[1] /\ src[2] <= rdb[2]
    BY <1>4
  <2> QED  BY <2>2, <2>3, <2>4, <1>1
<1>5. CASE type # "withdraw"
  <2>1. CP!StoredAmt(tx) = <<a - x, b - y, c - z>> /\ CP!Storable(tx)
    BY <1>3, <1>5 DEF CP!StoredAmt, CP!Storable
  <2>2. Plus(rdb, CP!StoredAmt(tx)) = <<x + (a - x), y + (b - y), z + (c - z)>>
    BY <2>1, <1>1 DEF Plus
  <2>3. ~(src[1] <= rdb[1] /\ src[2] <= rdb[2])
    BY <1>5
  <2> QED  BY <2>1, <2>2, <2>3, <1>1
<1> QED  BY <1>4, <1>5

----------------------------------------------------------------------------
(* What the builder stores for one pair makes up for what was missing.     *)
LEMMA StoredAsIs ==
    ASSUME NEW tx \in TxType, CP!Storable(tx), ~(tx.type = "withdraw" /\ tx.amt[3] > 0)
    PROVE  CP!StoredAmt(tx) = tx.amt
<1>1. tx.amt \in Int \X Int \X Int
  BY DEF TxType, Triple
<1>2. CASE tx.type = "withdraw"
  <2>1. tx.amt[3] = 0
    BY <1>1, <1>2 DEF CP!Storable
  <2>2. [tx.amt EXCEPT ![3] = 0 - @] = tx.amt
    <3> DEFINE a == tx.amt
    <3>1. a = <<a[1], a[2], a[3]>> /\ a[3] = 0 /\ a[1] \in Int /\ a[2] \in Int
      BY <1>1, <2>1
    <3> HIDE DEF a
    <3>2. [a EXCEPT ![3] = 0 - @] = a
      BY <3>1
    <3> QED  BY <3>2 DEF a
  <2> QED  BY <1>2, <2>2 DEF CP!StoredAmt
<1>3. CASE tx.type # "withdraw"
  BY <1>3 DEF CP!StoredAmt
<1> QED  BY <1>2, <1>3

LEMMA RowsBelow ==
    ASSUME Typed, NEW h \in 0..tip, NEW p
    PROVE  /\ RowsOf(rows, p, 0, h) = {i \in DOMAIN rows : rows[i].pair = p /\ rows[i].height <= h}
           /\ p \notin CP!Parsed(h) /\ p \in Pair => RowsOf(rows, p, 0, h) = {} /\ SumOf(rows, p, 0, h) = Zero
           /\ p \in CP!Parsed(h) => p \in CP!Existing(h)
<1>1. \A i \in DOMAIN rows : rows[i].height \in 1..MaxHeight /\ rows[i].height \in 0..tip /\ rows[i].pair \in Pair
  <2> TAKE i \in DOMAIN rows
  <2>1. rows[i] \in RowType /\ rows[i].height <= tip
    BY DEF Typed, Table
  <2> QED  BY <2>1, BoundsAssumption DEF RowType, Typed, Chain
<1>2. RowsOf(rows, p, 0, h) = {i \in DOMAIN rows : rows[i].pair = p /\ rows[i].height <= h}
  BY <1>1, BoundsAssumption DEF RowsOf, Typed, Chain
<1>3. ASSUME p \notin CP!Parsed(h), p \in Pair PROVE RowsOf(rows, p, 0, h) = {} /\ SumOf(rows, p, 0, h) = Zero
  <2>1. RowsOf(rows, p, 0, h) = {}
    BY <1>2, <1>3 DEF CP!Parsed
  <2> QED  BY <2>1, FS_EmptySet, TotalStep DEF SumOf
<1>4. ASSUME p \in CP!Parsed(h) PROVE p \in CP!Existing(h)
  <2>1. PICK i \in DOMAIN rows : p \in Pair /\ rows[i].pair = p /\ rows[i].height <= h
    BY <1>4 DEF CP!Parsed
  <2>2. Exists(rows[i].height, p)
    BY <2>1 DEF Typed, Table
  <2>3. Exists(h, p)
    BY <1>1, <2>1, <2>2 DEF Typed, Chain
  <2> QED  BY <2>1, <2>3 DEF CP!Existing, Exists, NoPool
<1> QED  BY <1>2, <1>3, <1>4

LEMMA MadeUp ==
    ASSUME Typed, NEW h \in 0..tip, NEW p \in CP!Existing(h),
           NEW R, R = {CP!toParsedTxModel(h, tx) : tx \in MadeFor(h, p)},
           \A tx \in MadeFor(h, p) : CP!Storable(tx) /\ ~(tx.type = "withdraw" /\ tx.amt[3] > 0),
           NEW f, \A r \in R : f[r] = r.amt
    PROVE  Plus(SumOf(rows, p, 0, h), Total(f, R)) = pool[h][p]
<1> DEFINE src == pool[h][p]
           rdb == SumOf(rows, p, 0, h)
<1>1. /\ p \in Pair /\ src \in Triple /\ rdb \in Triple /\ src # Zero /\ MadeFor(h, p) \subseteq TxType
      /\ Zero \in Triple /\ Minus(src, rdb) \in Triple
  <2>1. p \in Pair /\ src \in Positive /\ rdb \in Triple /\ MadeFor(h, p) \subseteq TxType
    BY PairTxs
  <2> HIDE DEF src, rdb
  <2> QED  BY <2>1, PoolIsPositive, PlusMinus
<1>2. CASE p \in CP!Parsed(h)
  <2> DEFINE diff == Minus(src, rdb)
  <2>1. MadeFor(h, p) = CP!createDiffTx(p, src, rdb)
    BY <1>2, SameSumOf DEF MadeFor
  <2> HIDE DEF src, rdb
  <2>2. IF diff = Zero THEN MadeFor(h, p) = {}
        ELSE \E type \in {"withdraw", "provide", "swap"} : MadeFor(h, p) = {[type |-> type, pair |-> p, amt |-> diff]}
    BY <2>1, SameSums DEF CP!createDiffTx, CP!Tx
  <2>3. Plus(rdb, diff) = src
    BY <1>1, PlusMinus
  <2> HIDE DEF diff
  <2>4. CASE diff = Zero
    <3>1. R = {}
      BY <2>2, <2>4
    <3>2. Total(f, R) = Zero
      BY <3>1, FS_EmptySet, TotalStep
    <3> QED  BY <2>3, <2>4, <3>2 DEF src, rdb
  <2>5. CASE diff # Zero
    <3>1. PICK type \in {"withdraw", "provide", "swap"} : MadeFor(h, p) = {[type |-> type, pair |-> p, amt |-> diff]}
      BY <2>2, <2>5
    <3> DEFINE tx == [type |-> type, pair |-> p, amt |-> diff]
               r == CP!toParsedTxModel(h, tx)
    <3>2. tx \in MadeFor(h, p) /\ tx \in TxType /\ tx.amt = diff
      BY <3>1, <1>1
    <3>3. R = {r}
      BY <3>1
    <3> HIDE DEF tx
    <3>4. CP!StoredAmt(tx) = diff
      BY <3>2, StoredAsIs
    <3>5. r.amt = diff
      BY <3>4 DEF CP!toParsedTxModel
    <3> HIDE DEF r
    <3>6. f[r] = diff /\ f[r] \in Triple
      BY <3>3, <3>5, <1>1 DEF diff
    <3>7. Total(f, R) = diff
      BY <3>3, <3>6, TotalOne
    <3> QED  BY <3>7, <2>3 DEF src, rdb
  <2> QED  BY <2>4, <2>5
<1>3. CASE p \notin CP!Parsed(h)
  <2> DEFINE c == [type |-> "create_pair", pair |-> p, amt |-> Zero]
             i == [type |-> "initial_provide", pair |-> p, amt |-> src]
             rc == [height |-> h, pair |-> p, amt |-> Zero]
             ri == [height |-> h, pair |-> p, amt |-> src]
  <2>1. MadeFor(h, p) = {c, i}
    BY <1>3, SameSums DEF MadeFor, CP!createNewPairTxs, CP!Tx
  <2>2. CP!toParsedTxModel(h, c) = rc /\ CP!toParsedTxModel(h, i) = ri
    BY DEF CP!toParsedTxModel, CP!StoredAmt
  <2>3. R = {rc, ri}
    <3> HIDE DEF c, i, rc, ri
    <3> QED  BY <2>1, <2>2
  <2>4. rc.amt = Zero /\ ri.amt = src /\ rc # ri
    <3> HIDE DEF src
    <3>1. rc.amt = Zero /\ ri.amt = src
      OBVIOUS
    <3> QED  BY <3>1, <1>1
  <2> HIDE DEF rc, ri, src
  <2>5. f[rc] = Zero /\ f[ri] = src /\ f[rc] \in Triple /\ f[ri] \in Triple
    BY <2>3, <2>4, <1>1
  <2>6. Total(f, {rc, ri}) = Plus(f[rc], f[ri])
    BY <2>4, <2>5, TotalTwo
  <2>7. Total(f, R) = Plus(Zero, src)
    BY <2>3, <2>5, <2>6
  <2>8. SumOf(rows, p, 0, h) = Zero
    BY <1>1, <1>3, RowsBelow
  <2>9. Plus(Zero, src) = src
    BY <1>1, PlusComm, PlusZero
  <2> QED  BY <2>7, <2>8, <2>9 DEF src
<1> QED  BY <1>2, <1>3

(* As long as the builder is about to insert, what it counted stays. *)
LEMMA StillInserts ==
    ASSUME Typed, [Next]_vars, build'.at = "insert"
    PROVE  \/ /\ build' = build
              /\ hist'.counted = hist.counted /\ hist'.seen = hist.seen
           \/ /\ CP!generateCheckpointData /\ UNCHANGED <<pool, tip, rows, pairs, synced, held, cur>>
              /\ build'.target = build.target /\ build'.dbHeight = build.dbHeight /\ build'.dbHeight = build.dbHeight
              /\ build'.txs = CP!NewTxs(build.target)
              /\ hist'.counted = Len(rows) /\ hist'.seen = held
<1>0. build \in [at : {"off", "validate", "generate", "insert", "done", "failed", "refused"},
                 target : 0..MaxHeight, dbHeight : 0..MaxHeight, txs : SUBSET TxType, pairs : SUBSET Pair]
  BY DEF Typed, Builder
<1>1. CASE build' = build
  <2>1. CASE Remember
    BY <1>1, <2>1 DEF Remember, Generates
  <2>2. CASE UNCHANGED vars
    BY <1>1, <2>2 DEF vars
  <2> QED  BY <1>1, <2>1, <2>2, Remembers
<1>2. CASE CP!generateCheckpointData /\ Prepares
  <2>1. build.at = "generate" /\ UNCHANGED <<pool, tip, rows, pairs, synced, held, cur>> /\ Remember
        /\ build' = [build EXCEPT !.at = "insert", !.txs = CP!NewTxs(build.target),
                              !.pairs = CP!Existing(build.target) \ CP!Parsed(build.target)]
    BY <1>2 DEF CP!generateCheckpointData, Prepares
  <2>2. Generates
    BY <2>1, <1>0 DEF Generates
  <2>3. hist'.counted = Len(rows) /\ hist'.seen = held
    BY <2>1, <2>2 DEF Remember
  <2>4. build'.target = build.target /\ build'.dbHeight = build.dbHeight /\ build'.txs = CP!NewTxs(build.target)
    BY <2>1, <1>0
  <2> QED  BY <1>2, <2>1, <2>3, <2>4
<1>3. CASE Prepares /\ ~CP!generateCheckpointData
  <2>1. CASE \E h \in 1..MaxHeight : CP!Launch(h)
    BY <2>1 DEF CP!Launch, CP!NoBuild
  <2>2. CASE CP!validateAndGetDbHeight
    BY <2>2, <1>0 DEF CP!validateAndGetDbHeight
  <2> QED  BY <1>3, <2>1, <2>2 DEF Prepares
<1>4. CASE Commits
  BY <1>0, <1>4 DEF Commits, CP!NoBuild
<1> QED
  BY <1>1, <1>2, <1>3, <1>4, Steps DEF Grow, BeginRun, ParserInsert, Quarantine, Replay, SumsUp, vars

LEMMA MakesUpNext == ASSUME Typed, MakesUp, [Next]_vars PROVE MakesUp'
<1> SUFFICES ASSUME build'.at = "insert", \A tx \in build'.txs : CP!Storable(tx)',
                    NEW p \in Pair, ~Misstates(p)'
             PROVE  Plus(Counted(p)', Due(p)') = At(build.target, p)'
  BY DEF MakesUp
<1>0. \A tx : CP!Storable(tx)' <=> CP!Storable(tx)
  BY DEF CP!Storable
<1>1. CASE build' = build /\ hist'.counted = hist.counted
  <2>1. build.at = "insert" /\ (\A tx \in build.txs : CP!Storable(tx)) /\ ~Misstates(p)
    BY <1>0, <1>1 DEF Misstates
  <2>2. Plus(Counted(p), Due(p)) = At(build.target, p)
    BY <2>1 DEF MakesUp
  <2>3. StoredRows' = StoredRows
    BY <1>1 DEF StoredRows, CP!toParsedTxModel, CP!StoredAmt
  <2>4. Due(p)' = Due(p)
    BY <2>3 DEF Due
  <2>5. At(build.target, p)' = At(build.target, p)
    <3>1. build.target \in 0..tip
      BY <2>1, BoundsAssumption DEF Typed, Builder, Chain
    <3>2. pool'[build'.target][p] = pool[build.target][p]
      BY <1>1, <3>1, PoolKept
    <3> QED  BY <3>2 DEF At, Exists, NoPool, CP!NoPool
  <2>6. Counted(p)' = Counted(p)
    <3> DEFINE I == {i \in 1..hist.counted : rows[i].pair = p /\ rows[i].height <= build.target}
    <3>1. 1..hist.counted \subseteq DOMAIN rows
      BY DEF Typed, Remembered, Table
    <3>2. \A i \in DOMAIN rows : rows'[i] = rows[i] /\ i \in DOMAIN rows'
      BY Appends
    <3>3. I = {i \in 1..hist'.counted : rows'[i].pair = p /\ rows'[i].height <= build'.target}
      BY <1>1, <3>1, <3>2
    <3>4. \A i \in I : Amounts(rows')[i] = Amounts(rows)[i]
      BY <3>1, <3>2 DEF Amounts
    <3>5. IsFiniteSet(I)
      <4>1. I \in SUBSET DOMAIN rows /\ rows \in Seq(RowType)
        BY <3>1 DEF Typed, Table
      <4> QED  BY <4>1, RowsFinite
    <3> HIDE DEF I
    <3>6. Total(Amounts(rows'), I) = Total(Amounts(rows), I)
      BY <3>4, <3>5, TotalSame
    <3> QED  BY <3>3, <3>6 DEF Counted, I
  <2> QED  BY <2>2, <2>4, <2>5, <2>6
<1>2. CASE /\ CP!generateCheckpointData /\ UNCHANGED <<pool, tip, rows, pairs, synced, held, cur>>
           /\ build'.target = build.target /\ build'.txs = CP!NewTxs(build.target)
           /\ hist'.counted = Len(rows) /\ hist'.seen = held
  <2> DEFINE h == build.target
  <2>1. h \in 0..tip
    BY <1>2, BoundsAssumption DEF Typed, Builder, Chain, CP!generateCheckpointData
  <2>2. Counted(p)' = SumOf(rows, p, 0, h)
    <3>1. 1..Len(rows) = DOMAIN rows
      BY DEF Typed, Table
    <3>2. Counted(p)' = Total(Amounts(rows), {i \in 1..Len(rows) : rows[i].pair = p /\ rows[i].height <= h})
      BY <1>2 DEF Counted
    <3> QED  BY <3>1, <3>2, <2>1, RowsBelow DEF SumOf
  <2>3. At(build.target, p)' = At(h, p)
    BY <1>2 DEF At, Exists, NoPool, CP!NoPool
  <2> DEFINE S == {CP!toParsedTxModel(h, tx) : tx \in CP!NewTxs(h)}
             f == [r \in S |-> r.amt]
             R == {r \in S : r.pair = p}
  <2>4. Due(p)' = Total(f, R)
    <3>1. StoredRows' = S
      BY <1>2 DEF StoredRows, CP!toParsedTxModel, CP!StoredAmt
    <3> QED  BY <3>1 DEF Due
  <2>5. \A tx \in CP!NewTxs(h) : CP!toParsedTxModel(h, tx).pair = tx.pair
    BY DEF CP!toParsedTxModel
  <2>6. \A r \in R : f[r] = r.amt
    OBVIOUS
  <2>7. CASE p \in CP!Existing(h)
    <3>1. R = {CP!toParsedTxModel(h, tx) : tx \in MadeFor(h, p)}
      <4>1. \A tx \in CP!NewTxs(h) : tx.pair = p => tx \in MadeFor(h, p)
        BY <2>1, AllTxs
      <4>2. \A tx \in MadeFor(h, p) : tx \in CP!NewTxs(h) /\ tx.pair = p
        BY <2>1, <2>7, AllTxs, PairTxs
      <4> HIDE DEF h
      <4> QED  BY <4>1, <4>2, <2>5
    <3>2. \A tx \in MadeFor(h, p) : CP!Storable(tx) /\ ~(tx.type = "withdraw" /\ tx.amt[3] > 0)
      <4> TAKE tx \in MadeFor(h, p)
      <4>1. tx \in build'.txs /\ tx.pair = p
        BY <1>2, <2>1, <2>7, AllTxs, PairTxs
      <4> QED  BY <4>1, <1>0 DEF Misstates
    <3>3. At(h, p) = pool[h][p]
      BY <2>7 DEF At, Exists, CP!Existing, NoPool
    <3> HIDE DEF h, R, f
    <3>4. Plus(SumOf(rows, p, 0, h), Total(f, R)) = pool[h][p]
      BY <2>1, <2>6, <2>7, <3>1, <3>2, MadeUp
    <3> QED  BY <2>2, <2>3, <2>4, <3>3, <3>4 DEF h
  <2>8. CASE p \notin CP!Existing(h)
    <3>1. R = {}
      <4>1. \A tx \in CP!NewTxs(h) : tx.pair # p
        BY <2>1, <2>8, AllTxs
      <4> QED  BY <4>1, <2>5
    <3>2. At(h, p) = Zero
      BY <2>8 DEF At, Exists, CP!Existing, NoPool
    <3>3. SumOf(rows, p, 0, h) = Zero
      BY <2>1, <2>8, RowsBelow
    <3>4. Total(f, R) = Zero
      BY <3>1, FS_EmptySet, TotalStep
    <3>5. Plus(Zero, Zero) = Zero
      BY PlusMinus
    <3> HIDE DEF h, R, f
    <3> QED  BY <2>2, <2>3, <2>4, <3>2, <3>3, <3>4, <3>5 DEF h
  <2> QED  BY <2>7, <2>8
<1> QED  BY <1>1, <1>2, StillInserts

----------------------------------------------------------------------------
(* The effects of some blocks, one block more or less, and later. *)
LEMMA EffectsAdd ==
    ASSUME Typed, NEW S \in SUBSET (1..tip), NEW p \in Pair
    PROVE  /\ IsFiniteSet(S) /\ Effects(S, p) \in Triple /\ Effects({}, p) = Zero
           /\ \A h \in (1..tip) \ S : Effects(S \cup {h}, p) = Plus(Effects(S, p), Effect(h, p))
           /\ \A h \in S : Effects(S, p) = Plus(Effects(S \ {h}, p), Effect(h, p))
<1> DEFINE f == [h \in 1..tip |-> Effect(h, p)]
<1>1. \A h \in 1..tip : f[h] = Effect(h, p) /\ f[h] \in Triple
  BY Block DEF Typed
<1>2. tip \in Nat /\ IsFiniteSet(1..tip)
  BY BoundsAssumption, FS_Interval DEF Typed, Chain
<1>3. ASSUME NEW T \in SUBSET (1..tip)
      PROVE  IsFiniteSet(T) /\ Effects(T, p) = Total(f, T) /\ Total(f, T) \in Triple
  <2>1. IsFiniteSet(T)
    BY <1>2, FS_Subset
  <2> DEFINE g == [h \in T |-> Effect(h, p)]
  <2>2. \A h \in T : g[h] = f[h] /\ f[h] \in Triple
    BY <1>1
  <2>3. Effects(T, p) = Total(g, T)
    BY DEF Effects
  <2> HIDE DEF g, f
  <2> QED  BY <2>1, <2>2, <2>3, TotalSame, TotalType
<1>4. Effects({}, p) = Zero
  BY FS_EmptySet, TotalStep DEF Effects
<1>5. ASSUME NEW T \in SUBSET (1..tip), NEW h \in (1..tip) \ T
      PROVE  Effects(T \cup {h}, p) = Plus(Effects(T, p), Effect(h, p))
  <2>1. T \cup {h} \in SUBSET (1..tip) /\ h \notin T /\ IsFiniteSet(T) /\ \A i \in T \cup {h} : f[i] \in Triple
    BY <1>1, <1>3
  <2>2. Effects(T \cup {h}, p) = Total(f, T \cup {h}) /\ Effects(T, p) = Total(f, T) /\ f[h] = Effect(h, p)
    BY <1>1, <1>3, <2>1
  <2> HIDE DEF f
  <2> QED  BY <2>1, <2>2, TotalAdd
<1>6. ASSUME NEW h \in S PROVE Effects(S, p) = Plus(Effects(S \ {h}, p), Effect(h, p))
  <2>1. S \ {h} \in SUBSET (1..tip) /\ h \in (1..tip) \ (S \ {h}) /\ (S \ {h}) \cup {h} = S
    OBVIOUS
  <2>2. Effects((S \ {h}) \cup {h}, p) = Plus(Effects(S \ {h}, p), Effect(h, p))
    BY <2>1, <1>5
  <2> QED  BY <2>1, <2>2
<1> HIDE DEF f
<1> QED  BY <1>3, <1>4, <1>5, <1>6

LEMMA EffectsLater ==
    ASSUME Typed, [Next]_vars
    PROVE  \A S \in SUBSET (1..tip), p \in Pair : Effects(S, p)' = Effects(S, p)
<1> TAKE S \in SUBSET (1..tip), p \in Pair
<1>1. IsFiniteSet(S)
  BY EffectsAdd
<1> DEFINE f == [h \in S |-> Effect(h, p)]
           g == [h \in S |-> Effect(h, p)']
<1>2. \A h \in S : Effect(h, p)' = Effect(h, p)
  <2> TAKE h \in S
  <2>1. h \in 0..tip /\ h # 0
    OBVIOUS
  <2> QED  BY <2>1, EffectsKept
<1>3. f = g
  BY <1>2
<1>4. Effects(S, p) = Total(f, S) /\ Effects(S, p)' = Total(g, S)
  BY DEF Effects
<1> QED  BY <1>3, <1>4

(* Rows that are appended come on top of any sum of the last rows. *)
AfterRow(r, n, p) == Total(Amounts(r), {i \in n + 1..Len(r) : r[i].pair = p})
LEMMA LastAppended ==
    ASSUME NEW r \in Seq(RowType), NEW s \in Seq(RowType), NEW n \in 0..Len(r), NEW p
    PROVE  AfterRow(r \o s, n, p) = Plus(AfterRow(r, n, p), SumAll(s, p))
<1> DEFINE t == r \o s
           S == {i \in n + 1..Len(r) : r[i].pair = p}
           T == Of(t, p) \ DOMAIN r
<1>1. /\ t \in Seq(RowType) /\ DOMAIN r \subseteq DOMAIN t /\ Len(t) = Len(r) + Len(s)
      /\ \A i \in DOMAIN r : t[i] = r[i]
      /\ \A I \in SUBSET DOMAIN r : Total(Amounts(t), I) = Total(Amounts(r), I)
      /\ Total(Amounts(t), T) = SumAll(s, p)
  BY Appended
<1> HIDE DEF t
<1>2. DOMAIN r = 1..Len(r) /\ DOMAIN t = 1..Len(t) /\ Len(r) \in Nat /\ Len(s) \in Nat
  BY <1>1
<1>3. S \in SUBSET DOMAIN r /\ S \cap T = {} /\ S \cup T \in SUBSET DOMAIN t
  BY <1>1, <1>2 DEF Of
<1>4. {i \in n + 1..Len(t) : t[i].pair = p} = S \cup T
  <2>1. \A i \in n + 1..Len(t) : i \in DOMAIN t /\ (i \in DOMAIN r <=> i \in n + 1..Len(r))
    BY <1>1, <1>2
  <2>2. \A i \in T : i \in n + 1..Len(t) /\ t[i].pair = p
    BY <1>1, <1>2 DEF Of
  <2>3. \A i \in S : i \in n + 1..Len(t) /\ t[i].pair = p
    BY <1>1, <1>2
  <2>4. \A i \in n + 1..Len(t) : t[i].pair = p => i \in S \cup T
    BY <2>1, <1>1 DEF Of
  <2> HIDE DEF S, T
  <2> QED  BY <2>2, <2>3, <2>4
<1>5. IsFiniteSet(S) /\ IsFiniteSet(T) /\ \A i \in S \cup T : Amounts(t)[i] \in Triple
  <2>1. S \in SUBSET DOMAIN t /\ T \in SUBSET DOMAIN t
    BY <1>3
  <2> HIDE DEF S, T
  <2> QED  BY <1>1, <1>3, <2>1, RowsFinite
<1> HIDE DEF S, T
<1>6. Total(Amounts(t), S \cup T) = Plus(Total(Amounts(t), S), Total(Amounts(t), T))
  BY <1>3, <1>5, TotalUnion
<1>7. Total(Amounts(t), S) = Total(Amounts(r), S)
  BY <1>1, <1>3
<1> QED  BY <1>1, <1>4, <1>6, <1>7 DEF AfterRow, t, S

LEMMA OnlyReplaysNext == ASSUME Typed, OnlyReplays, [Next]_vars PROVE OnlyReplays'
<1> SUFFICES ASSUME build'.at = "insert", ~hist'.raced, synced' = build'.dbHeight
             PROVE  /\ held' \subseteq hist'.seen
                    /\ \A p \in Pair : Since(p)' = Effects(hist.seen \ held, p)'
  BY DEF OnlyReplays
<1>0. /\ held \subseteq 1..tip /\ hist.seen \subseteq 1..tip /\ hist.counted \in 0..Len(rows)
      /\ rows \in Seq(RowType) /\ ~hist.raced
  BY BoundsAssumption, Raced DEF Typed, Cursor, Chain, Remembered, Table
<1>1. CASE CP!generateCheckpointData /\ rows' = rows /\ held' = held /\ hist'.counted = Len(rows) /\ hist'.seen = held
  <2>1. hist'.counted + 1..Len(rows') = {}
    BY <1>0, <1>1
  <2>2. \A p \in Pair : Since(p)' = Zero
    <3> TAKE p \in Pair
    <3>1. {i \in hist'.counted + 1..Len(rows') : rows'[i].pair = p} = {}
      BY <2>1
    <3> QED  BY <3>1, FS_EmptySet, TotalStep DEF Since
  <2>3. held \ held = {} /\ {} \in SUBSET (1..tip)
    OBVIOUS
  <2>4. \A p \in Pair : Effects({}, p)' = Zero
    BY <2>3, EffectsLater, EffectsAdd
  <2> QED  BY <1>1, <2>2, <2>3, <2>4
<1>2. CASE build' = build /\ hist'.counted = hist.counted /\ hist'.seen = hist.seen
  <2>1. synced = build.dbHeight
    <3>1. build.dbHeight <= synced /\ synced' >= synced /\ synced \in Nat /\ synced' \in Nat
      BY <1>2, CursorNext, PoolKept DEF Typed, Builder, Cursor
    <3> QED  BY <3>1, <1>2
  <2>2. /\ held \subseteq hist.seen
        /\ \A p \in Pair : Since(p) = Effects(hist.seen \ held, p)
    BY <1>0, <1>2, <2>1 DEF OnlyReplays
  <2>3. synced' = synced
    BY <1>2, <2>1
  <2>4. \A p \in Pair : Since(p) = AfterRow(rows, hist.counted, p) /\ Since(p)' = AfterRow(rows', hist.counted, p)
    BY <1>2 DEF Since, AfterRow
  <2>5. CASE rows' = rows /\ held' = held
    <3>1. hist.seen \ held \in SUBSET (1..tip)
      BY <1>0
    <3>2. hist'.seen \ held' = hist.seen \ held /\ held' \subseteq hist'.seen
      BY <1>2, <2>2, <2>5
    <3>3. \A S \in SUBSET (1..tip), p \in Pair : Effects(S, p)' = Effects(S, p)
      BY EffectsLater
    <3>4. \A p \in Pair : Since(p)' = Effects(hist.seen \ held, p)
      BY <2>2, <2>4, <2>5
    <3> QED  BY <3>1, <3>2, <3>3, <3>4
  <2>6. CASE ParserInsert \/ Quarantine
    <3>1. Inserts => FALSE
      <4>1. ParserInsert \/ Quarantine => cur # 0 /\ (rows' # rows \/ held' # held => synced' = IF synced = cur - 1 THEN cur ELSE synced)
        BY DEF ParserInsert, Quarantine, MoveCursor
      <4>2. Inserts => synced = cur - 1 /\ (rows' # rows \/ held' # held)
        BY Raced DEF Inserts
      <4>3. cur \in Nat
        BY <2>6, <4>1, ParserAt
      <4> QED  BY <4>1, <4>2, <4>3, <2>3, <2>6
    <3>2. rows' = rows /\ held' = held
      BY <3>1, <2>6 DEF Inserts, ParserInsert, Quarantine
    <3> QED  BY <3>2, <2>5
  <2>7. CASE \E h \in held : Replay(h)
    <3>1. PICK h \in held : Replay(h)
      BY <2>7
    <3>2. rows' = rows \o BlockRows(h) /\ held' = held \ {h}
      BY <3>1 DEF Replay
    <3>3. h \in 1..tip /\ h \in hist.seen
      BY <1>0, <2>2
    <3>4. BlockRows(h) \in Seq(RowType) /\ \A p \in Pair : SumAll(BlockRows(h), p) = Effect(h, p)
      BY <3>3, BlockSum DEF Typed
    <3> DEFINE S == hist.seen \ held
    <3>6. S \in SUBSET (1..tip) /\ h \in (1..tip) \ S /\ hist.seen \ (held \ {h}) = S \cup {h}
          /\ S \cup {h} \in SUBSET (1..tip)
      BY <1>0, <3>3
    <3>8. ASSUME NEW p \in Pair PROVE Since(p)' = Effects(S \cup {h}, p)
      <4>1. Since(p)' = Plus(Since(p), Effect(h, p))
        BY <1>0, <2>4, <3>2, <3>4, LastAppended
      <4>2. Since(p) = Effects(S, p)
        BY <2>2
      <4> HIDE DEF S
      <4>3. Effects(S \cup {h}, p) = Plus(Effects(S, p), Effect(h, p))
        BY <3>6, EffectsAdd
      <4> QED  BY <4>1, <4>2, <4>3
    <3> HIDE DEF S
    <3>9. \A T \in SUBSET (1..tip), p \in Pair : Effects(T, p)' = Effects(T, p)
      BY EffectsLater
    <3>10. hist'.seen \ held' = S \cup {h} /\ held' \subseteq hist'.seen
      BY <1>2, <2>2, <3>2, <3>6 DEF S
    <3>11. \A p \in Pair : Since(p)' = Effects(S \cup {h}, p)
      BY <3>8
    <3> QED  BY <3>6, <3>9, <3>10, <3>11
  <2>8. CASE Commits
    BY <2>8, <1>2 DEF Commits, CP!NoBuild, Typed, Builder
  <2> QED
    BY <2>5, <2>6, <2>7, <2>8, Steps DEF Grow, BeginRun, Prepares, SumsUp, vars
<1> QED  BY <1>1, <1>2, StillInserts

----------------------------------------------------------------------------
(* The sums. *)

(* What the builder inserts for a pair is what is due. *)
LEMMA NewRowsSum ==
    ASSUME Typed, build.at = "insert", NEW p
    PROVE  SumAll(CP!NewRows, p) = Due(p) /\ Due(p) \in Triple
<1> DEFINE s == CP!NewRows
           S == Of(s, p)
           T == {r \in StoredRows : r.pair = p}
           h == [r \in StoredRows |-> r.amt]
           b == [i \in S |-> s[i]]
<1>1. /\ IsFiniteSet(StoredRows) /\ StoredRows \subseteq RowType
      /\ s \in Bijection(1..Cardinality(StoredRows), StoredRows)
      /\ DOMAIN s = 1..Cardinality(StoredRows)
      /\ s \in Seq(RowType)
  <2>1. IsFiniteSet(StoredRows) /\ StoredRows \subseteq RowType /\ s = SetToSeq(StoredRows)
    BY Stored
  <2> HIDE DEF s
  <2>2. s \in Bijection(1..Cardinality(StoredRows), StoredRows)
    BY <2>1, SetToSeqLists
  <2>3. DOMAIN s = 1..Cardinality(StoredRows)
    BY <2>2 DEF Bijection, Injection
  <2>4. s \in Seq(RowType)
    BY NewRowsAre DEF s
  <2> QED  BY <2>1, <2>2, <2>3, <2>4
<1> HIDE DEF s
<1>2. /\ \A i \in DOMAIN s : s[i] \in StoredRows
      /\ \A i, j \in DOMAIN s : s[i] = s[j] => i = j
      /\ \A r \in StoredRows : \E i \in DOMAIN s : s[i] = r
  BY <1>1 DEF Bijection, Injection, Surjection, IsInjective
<1>3. b \in Bijection(S, T)
  <2>1. \A i \in S : b[i] \in T /\ b[i] = s[i] /\ i \in DOMAIN s
    BY <1>2 DEF Of
  <2>2. \A r \in T : \E i \in S : b[i] = r
    BY <1>2 DEF Of
  <2>3. b \in [S -> T]
    BY <2>1
  <2> HIDE DEF S, T, b
  <2>4. \A i, j \in S : b[i] = b[j] => i = j
    BY <1>2, <2>1
  <2>5. b \in Injection(S, T)
    BY <2>3, <2>4 DEF Injection, IsInjective
  <2>6. b \in Surjection(S, T)
    BY <2>2, <2>3 DEF Surjection
  <2> QED  BY <2>5, <2>6 DEF Bijection
<1>4. \A i \in S : Amounts(s)[i] \in Triple /\ Amounts(s)[i] = h[b[i]]
  <2> TAKE i \in S
  <2>1. i \in DOMAIN s /\ b[i] = s[i] /\ s[i] \in StoredRows
    BY <1>2 DEF Of
  <2>2. Amounts(s)[i] = s[i].amt /\ h[b[i]] = s[i].amt
    BY <2>1 DEF Amounts
  <2>3. Amounts(s)[i] \in Triple
    BY <1>1, <2>1, RowsFinite
  <2> QED  BY <2>2, <2>3
<1>5. IsFiniteSet(T)
  BY <1>1, FS_Subset
<1>6. SumAll(s, p) \in Triple
  <2>1. S \in SUBSET DOMAIN s
    BY DEF Of
  <2> QED  BY <1>1, <2>1, RowsFinite DEF SumAll
<1> HIDE DEF S, T, h, b
<1>7. Total(Amounts(s), S) = Total(h, T)
  BY <1>3, <1>4, <1>5, TotalReindexed
<1> QED  BY <1>6, <1>7 DEF SumAll, Due, s, S, T, h

(* Rows at a height come on top of the sum up to it. *)
LEMMA AppendedAt ==
    ASSUME NEW r \in Seq(RowType), NEW s \in Seq(RowType), NEW p, NEW h \in Nat,
           \A i \in DOMAIN s : s[i].height = h
    PROVE  SumOf(r \o s, p, 0, h) = Plus(SumOf(r, p, 0, h), SumAll(s, p))
<1> DEFINE t == r \o s
           S == RowsOf(r, p, 0, h)
           T == Of(t, p) \ DOMAIN r
<1>1. /\ t \in Seq(RowType) /\ DOMAIN r \subseteq DOMAIN t
      /\ \A i \in DOMAIN r : t[i] = r[i]
      /\ \A i \in DOMAIN t \ DOMAIN r : i - Len(r) \in DOMAIN s /\ t[i] = s[i - Len(r)]
      /\ \A I \in SUBSET DOMAIN r : Total(Amounts(t), I) = Total(Amounts(r), I)
      /\ Total(Amounts(t), T) = SumAll(s, p)
  BY Appended
<1> HIDE DEF t
<1>2. S \in SUBSET DOMAIN r /\ S \cap T = {} /\ S \in SUBSET DOMAIN t /\ T \in SUBSET DOMAIN t
  BY <1>1 DEF Of, RowsOf
<1>3. RowsOf(t, p, 0, h) = S \cup T
  <2>1. \A i \in T : t[i].height \in 0..h /\ t[i].pair = p /\ i \in DOMAIN t
    BY <1>1 DEF Of
  <2>2. \A i \in S : t[i].height \in 0..h /\ t[i].pair = p /\ i \in DOMAIN t
    BY <1>1 DEF RowsOf
  <2>3. \A i \in DOMAIN t : t[i].height \in 0..h /\ t[i].pair = p => i \in S \cup T
    BY <1>1 DEF Of, RowsOf
  <2> HIDE DEF S, T
  <2> QED  BY <2>1, <2>2, <2>3 DEF RowsOf
<1>4. IsFiniteSet(S) /\ IsFiniteSet(T) /\ \A i \in S \cup T : Amounts(t)[i] \in Triple
  <2> HIDE DEF S, T
  <2> QED  BY <1>1, <1>2, RowsFinite
<1> HIDE DEF S, T
<1>5. Total(Amounts(t), S \cup T) = Plus(Total(Amounts(t), S), Total(Amounts(t), T))
  BY <1>2, <1>4, TotalUnion
<1>6. Total(Amounts(t), S) = Total(Amounts(r), S)
  BY <1>1, <1>2
<1> QED  BY <1>1, <1>3, <1>5, <1>6 DEF SumOf, t, S

(* Only a commit of the builder is one. *)
LEMMA CommittedIs == ASSUME Typed, [Next]_vars, Committed PROVE Commits
<1>0. build \in [at : {"off", "validate", "generate", "insert", "done", "failed", "refused"},
                 target : 0..MaxHeight, dbHeight : 0..MaxHeight, txs : SUBSET TxType, pairs : SUBSET Pair]
  BY DEF Typed, Builder
<1>1. ASSUME Prepares PROVE FALSE
  <2>1. build.at = "insert" /\ rows' = rows /\ synced' = synced /\ build'.at = "done"
    BY <1>1 DEF Committed, Prepares
  <2> QED  BY <1>0, <1>1, <2>1 DEF Prepares, CP!Launch, CP!validateAndGetDbHeight, CP!generateCheckpointData, CP!NoBuild
<1> QED
  BY <1>1, Steps DEF Committed, Grow, BeginRun, ParserInsert, Quarantine, Replay, SumsUp, vars

(* A checkpoint settles the accounts of all pairs it does not misstate. *)
LEMMA Settles ==
    ASSUME Typed, MakesUp, [Next]_vars, Committed, hist.counted = Len(rows),
           NEW p \in CP!Existing(build.target)
    PROVE  Misstates(p) \/ SumOf(rows', p, 0, build.target) = pool[build.target][p]
<1> DEFINE h == build.target
<1>1. /\ build.at = "insert" /\ h \in 1..tip /\ h \in 0..tip /\ h \in Nat /\ rows' = rows \o CP!NewRows
      /\ \A tx \in build.txs : CP!Storable(tx)
  BY CommittedIs, CommitMoves DEF Commits, CP!InsertRuns
<1>2. p \in Pair /\ At(h, p) = pool[h][p]
  BY DEF CP!Existing, At, Exists, NoPool
<1>3. rows \in Seq(RowType) /\ CP!NewRows \in Seq(RowType) /\ \A i \in DOMAIN CP!NewRows : CP!NewRows[i].height = h
  BY <1>1, NewRowsAre, Stored DEF Typed, Table
<1> HIDE DEF h
<1>4. SumOf(rows', p, 0, h) = Plus(SumOf(rows, p, 0, h), Due(p))
  BY <1>1, <1>3, AppendedAt, NewRowsSum
<1>5. SumOf(rows, p, 0, h) = Counted(p)
  <2>1. 1..hist.counted = DOMAIN rows
    BY <1>3
  <2> QED  BY <1>1, <2>1, RowsBelow DEF SumOf, Counted, h
<1>6. Misstates(p) \/ Plus(Counted(p), Due(p)) = At(h, p)
  BY <1>1, <1>2 DEF MakesUp, h
<1> QED  BY <1>2, <1>4, <1>5, <1>6 DEF h

(* What the sums should be. *)
Expected(p) == Plus(Minus(At(synced, p), Effects(held \ hist.absorbed, p)), Effects(hist.absorbed \ held, p))

LEMMA SumsAre ==
    ASSUME rows \in Seq(RowType)
    PROVE  PoolsAddUp <=> (~hist.raced => \A p \in Pair \ hist.misstated : SumAll(rows, p) = Expected(p))
BY SumOfAll DEF PoolsAddUp, Expected, At, Exists

LEMMA SumsNext == ASSUME Typed, MakesUp, OnlyReplays, PoolsAddUp, [Next]_vars PROVE PoolsAddUp'
<1>1. SUFFICES ASSUME ~hist'.raced, NEW p \in Pair \ hist'.misstated
               PROVE  SumAll(rows', p) = Expected(p)'
  <2>1. \A p \in Pair : SumOf(rows', p, 0, MaxHeight) = SumAll(rows', p)
    BY Appends, SumOfAll
  <2> QED  BY <2>1 DEF PoolsAddUp, Expected, At, Exists, NoPool, CP!NoPool
<1> DEFINE at == At(synced, p)
           out == Effects(held \ hist.absorbed, p)
           twice == Effects(hist.absorbed \ held, p)
<1>2. /\ ~hist.raced /\ rows \in Seq(RowType) /\ p \in Pair
      /\ held \subseteq 1..synced /\ hist.absorbed \subseteq 1..synced /\ hist.seen \subseteq 1..synced
      /\ synced \in 0..tip /\ synced \in Nat /\ held \subseteq 1..tip /\ hist.absorbed \subseteq 1..tip
      /\ hist.seen \subseteq 1..tip
  BY <1>1, BoundsAssumption, Raced DEF Typed, Cursor, Chain, Remembered, Table
<1>3. /\ at \in Triple /\ out \in Triple /\ twice \in Triple /\ Zero \in Triple
      /\ held \ hist.absorbed \in SUBSET (1..tip) /\ hist.absorbed \ held \in SUBSET (1..tip)
  <2>1. held \ hist.absorbed \in SUBSET (1..tip) /\ hist.absorbed \ held \in SUBSET (1..tip)
    BY <1>2
  <2> QED  BY <1>2, <2>1, AtType, EffectsAdd, PlusMinus DEF Typed
<1>4. p \notin hist.misstated => SumAll(rows, p) = Plus(Minus(at, out), twice)
  BY <1>2, SumsAre DEF Expected
<1>5. /\ \A h \in 0..tip : At(h, p)' = At(h, p)
      /\ \A S \in SUBSET (1..tip) : Effects(S, p)' = Effects(S, p)
  BY <1>2, EffectsKept, EffectsLater
<1>6. ~Committed => hist'.absorbed = hist.absorbed /\ hist'.misstated = hist.misstated
  BY Remembers DEF Remember, vars
<1>7. ASSUME NEW h \in 0..tip, NEW A \in SUBSET (1..tip), NEW B \in SUBSET (1..tip),
             synced' = h, held' \ hist'.absorbed = A, hist'.absorbed \ held' = B
      PROVE  Expected(p)' = Plus(Minus(At(h, p), Effects(A, p)), Effects(B, p))
  BY <1>5, <1>7 DEF Expected
<1>17. ASSUME NEW S \in SUBSET (1..tip)
       PROVE  /\ Effects(S, p) \in Triple
              /\ \A h \in (1..tip) \ S : Effects(S \cup {h}, p) = Plus(Effects(S, p), Effect(h, p))
              /\ \A h \in S : Effects(S, p) = Plus(Effects(S \ {h}, p), Effect(h, p))
  BY <1>2, EffectsAdd
<1> HIDE DEF at, out, twice
<1>8. CASE ~Committed /\ rows' = rows /\ synced' = synced /\ held' = held
  <2>1. Expected(p)' = Plus(Minus(at, out), twice)
    BY <1>2, <1>3, <1>6, <1>7, <1>8 DEF at, out, twice
  <2> QED  BY <1>1, <1>4, <1>6, <1>8, <2>1
<1>9. CASE ParserInsert /\ rows' # rows
  <2>1. /\ rows' = rows \o BlockRows(cur) /\ cur # 0 /\ cur' = 0 /\ held' = held /\ build' = build
        /\ synced' = IF synced = cur - 1 THEN cur ELSE synced
    BY <1>9 DEF ParserInsert, MoveCursor
  <2>2. Inserts /\ ~Committed
    BY <1>9, <2>1 DEF Inserts, Committed
  <2>3. synced = cur - 1 /\ synced' = cur /\ cur \in 1..tip /\ cur \in 0..tip
    BY <1>1, <2>1, <2>2, Raced, ParserAt
  <2> DEFINE e == Effect(cur, p)
  <2>4. At(cur, p) = Plus(at, e) /\ e \in Triple
    BY <1>2, <2>3, Block DEF Typed, at
  <2>5. SumAll(rows', p) = Plus(SumAll(rows, p), e)
    BY <1>2, <2>1, <2>3, BlockSum, Appended DEF Typed
  <2>6. Expected(p)' = Plus(Minus(At(cur, p), out), twice)
    BY <1>3, <1>6, <1>7, <2>1, <2>2, <2>3 DEF out, twice
  <2> HIDE DEF e
  <2>7. Plus(Plus(Minus(at, out), twice), e) = Plus(Minus(Plus(at, e), out), twice)
    BY <1>3, <2>4, Rearranged
  <2> QED  BY <1>1, <1>4, <1>6, <2>2, <2>4, <2>5, <2>6, <2>7
<1>10. CASE Quarantine /\ held' # held
  <2>1. /\ rows' = rows /\ cur # 0 /\ cur' = 0 /\ held' = held \cup {cur} /\ build' = build
        /\ synced' = IF synced = cur - 1 THEN cur ELSE synced
    BY <1>10 DEF Quarantine, MoveCursor
  <2>2. Inserts /\ ~Committed
    BY <1>10, <2>1 DEF Inserts, Committed
  <2>3. synced = cur - 1 /\ synced' = cur /\ cur \in 1..tip /\ cur \in 0..tip /\ cur \notin 1..synced
    BY <1>1, <1>2, <2>1, <2>2, Raced, ParserAt
  <2> DEFINE e == Effect(cur, p)
             A == held \ hist.absorbed
  <2>4. At(cur, p) = Plus(at, e) /\ e \in Triple
    BY <1>2, <2>3, Block DEF Typed, at
  <2>5. /\ A \in SUBSET (1..tip) /\ cur \in (1..tip) \ A /\ A \cup {cur} \in SUBSET (1..tip)
        /\ (held \cup {cur}) \ hist.absorbed = A \cup {cur}
        /\ hist.absorbed \ (held \cup {cur}) = hist.absorbed \ held
    BY <1>2, <2>3
  <2>6. Effects(A \cup {cur}, p) = Plus(out, e)
    <3>1. out = Effects(A, p)
      BY DEF out
    <3> HIDE DEF A
    <3>2. Effects(A \cup {cur}, p) = Plus(Effects(A, p), e)
      BY <1>17, <2>5
    <3> QED  BY <3>1, <3>2
  <2> HIDE DEF e, A
  <2>7. Expected(p)' = Plus(Minus(At(cur, p), Effects(A \cup {cur}, p)), twice)
    BY <1>3, <1>6, <1>7, <2>1, <2>2, <2>3, <2>5 DEF twice
  <2>8. Minus(Plus(at, e), Plus(out, e)) = Minus(at, out)
    BY <1>3, <2>4, Rearranged
  <2> QED  BY <1>1, <1>4, <1>6, <2>1, <2>2, <2>4, <2>6, <2>7, <2>8
<1>11. CASE \E h \in held : Replay(h)
  <2>1. PICK h \in held : Replay(h)
    BY <1>11
  <2>2. rows' = rows \o BlockRows(h) /\ held' = held \ {h} /\ synced' = synced /\ build' = build
    BY <2>1 DEF Replay
  <2>3. ~Committed /\ h \in 1..tip
    BY <1>2, <2>2 DEF Committed
  <2> DEFINE e == Effect(h, p)
             A == held \ hist.absorbed
             B == hist.absorbed \ held
  <2>4. e \in Triple
    BY <1>2, <2>3, Block DEF Typed
  <2>5. SumAll(rows', p) = Plus(SumAll(rows, p), e)
    BY <1>2, <2>2, <2>3, BlockSum, Appended DEF Typed
  <2>6. A \in SUBSET (1..tip) /\ B \in SUBSET (1..tip)
    BY <1>3
  <2>7. CASE h \notin hist.absorbed
    <3>1. (held \ {h}) \ hist.absorbed = A \ {h} /\ hist.absorbed \ (held \ {h}) = B /\ h \in A
          /\ A \ {h} \in SUBSET (1..tip)
      BY <2>6, <2>7
    <3>6. out = Effects(A, p)
      BY DEF out
    <3>7. e = Effect(h, p)
      OBVIOUS
    <3> HIDE DEF A, B, e
    <3>2. out = Plus(Effects(A \ {h}, p), e)
      BY <1>17, <2>6, <3>1, <3>6, <3>7
    <3>3. Effects(A \ {h}, p) \in Triple
      BY <1>17, <3>1
    <3>4. Expected(p)' = Plus(Minus(at, Effects(A \ {h}, p)), twice)
      BY <1>2, <1>3, <1>6, <1>7, <2>2, <2>3, <2>6, <3>1 DEF at, twice, B
    <3>5. Plus(Plus(Minus(at, Plus(Effects(A \ {h}, p), e)), twice), e) = Plus(Minus(at, Effects(A \ {h}, p)), twice)
      BY <1>3, <2>4, <3>3, Rearranged
    <3> QED  BY <1>1, <1>4, <1>6, <2>3, <2>5, <3>2, <3>4, <3>5
  <2>8. CASE h \in hist.absorbed
    <3>1. (held \ {h}) \ hist.absorbed = A /\ hist.absorbed \ (held \ {h}) = B \cup {h} /\ h \in (1..tip) \ B
          /\ B \cup {h} \in SUBSET (1..tip)
      BY <2>3, <2>6, <2>8
    <3>5. twice = Effects(B, p)
      BY DEF twice
    <3>6. e = Effect(h, p)
      OBVIOUS
    <3> HIDE DEF A, B, e
    <3>2. Effects(B \cup {h}, p) = Plus(twice, e)
      BY <1>17, <2>6, <3>1, <3>5, <3>6
    <3>3. Expected(p)' = Plus(Minus(at, out), Effects(B \cup {h}, p))
      BY <1>2, <1>3, <1>6, <1>7, <2>2, <2>3, <2>6, <3>1 DEF at, out, A
    <3>4. Plus(Plus(Minus(at, out), twice), e) = Plus(Minus(at, out), Plus(twice, e))
      BY <1>3, <2>4, Rearranged
    <3> QED  BY <1>1, <1>4, <1>6, <2>3, <2>5, <3>2, <3>3, <3>4
  <2> QED  BY <2>7, <2>8
<1>12. CASE Commits /\ Committed
  <2> DEFINE h == build.target
             late == hist.seen \ held
  <2>1. /\ synced = build.dbHeight /\ synced' = h /\ synced < h /\ h \in 1..tip /\ h \in 0..tip
        /\ rows' = rows \o CP!NewRows /\ held' = held
    BY <1>1, <1>12, Raced, CommitMoves DEF Commits
  <2>2. /\ build.at = "insert" /\ (\A tx \in build.txs : CP!Storable(tx)) 
        /\ hist'.absorbed = hist.seen /\ hist'.misstated = {q \in Pair : Misstates(q)}
    <3>1. Remember
      BY <1>12 DEF Commits
    <3> QED  BY <1>12, <3>1 DEF Commits, CP!InsertRuns, Remember
  <2>3. Plus(Counted(p), Due(p)) = At(h, p)
    BY <1>1, <1>2, <2>2 DEF MakesUp
  <2>4. held \subseteq hist.seen /\ Since(p) = Effects(late, p)
    BY <1>2, <2>1, <2>2 DEF OnlyReplays
  <2>5. SumAll(rows', p) = Plus(SumAll(rows, p), Due(p)) /\ Due(p) \in Triple
    BY <1>2, <2>1, <2>2, NewRowsAre, NewRowsSum, Appended
  <2>6. SumAll(rows, p) = Plus(Counted(p), Since(p)) /\ Counted(p) \in Triple /\ Since(p) \in Triple
    <3> DEFINE C == {i \in 1..hist.counted : rows[i].pair = p /\ rows[i].height <= build.target}
               D == {i \in hist.counted + 1..Len(rows) : rows[i].pair = p}
    <3>1. hist.counted \in 0..Len(rows) /\ DOMAIN rows = 1..Len(rows) /\ Len(rows) \in Nat
      BY <1>2 DEF Typed, Remembered
    <3>2. \A i \in DOMAIN rows : rows[i].height <= build.target
      <4> TAKE i \in DOMAIN rows
      <4>1. rows[i] \in RowType /\ rows[i].height <= synced
        BY <1>2 DEF Typed, Table
      <4>2. rows[i].height \in Nat
        BY <4>1 DEF RowType
      <4> QED  BY <1>2, <2>1, <4>1, <4>2
    <3>3. C \cup D = Of(rows, p) /\ C \cap D = {} /\ C \in SUBSET DOMAIN rows /\ D \in SUBSET DOMAIN rows
      BY <3>1, <3>2 DEF Of
    <3> HIDE DEF C, D
    <3>4. /\ IsFiniteSet(C) /\ IsFiniteSet(D) /\ \A i \in C \cup D : Amounts(rows)[i] \in Triple
          /\ Total(Amounts(rows), C) \in Triple /\ Total(Amounts(rows), D) \in Triple
      BY <1>2, <3>3, RowsFinite
    <3>5. Total(Amounts(rows), C \cup D) = Plus(Total(Amounts(rows), C), Total(Amounts(rows), D))
      BY <3>3, <3>4, TotalUnion
    <3> QED  BY <3>3, <3>4, <3>5 DEF SumAll, Counted, Since, C, D
  <2>7. held \ hist.seen = {} /\ {} \in SUBSET (1..tip) /\ late \in SUBSET (1..tip)
    BY <1>2, <2>4
  <2>8. Expected(p)' = Plus(Minus(At(h, p), Zero), Effects(late, p))
    <3>1. Effects({}, p) = Zero
      BY <1>2, <2>7, EffectsAdd
    <3> HIDE DEF h
    <3> QED  BY <1>7, <2>1, <2>2, <2>7, <3>1
  <2> DEFINE c == Counted(p)
             d == Due(p)
             s == Since(p)
  <2> HIDE DEF h, late, c, d, s
  <2>9. Plus(Plus(Minus(c, Zero), s), d) = Plus(Minus(Plus(c, d), Zero), s) /\ Minus(c, Zero) = c
    BY <1>3, <2>5, <2>6, Rearranged DEF c, d, s
  <2> QED  BY <2>3, <2>4, <2>5, <2>6, <2>8, <2>9 DEF c, d, s
<1>13. CASE Commits /\ ~Committed
  <2>1. rows' = rows /\ synced' = synced /\ held' = held
    BY <1>13, CommitShows DEF Commits
  <2> QED  BY <1>8, <1>13, <2>1
<1>14. CASE Prepares \/ SumsUp \/ Grow \/ BeginRun \/ UNCHANGED vars
  <2>1. rows' = rows /\ synced' = synced /\ held' = held
    BY <1>14 DEF Prepares, SumsUp, Grow, BeginRun, vars
  <2>2. CASE Committed
    BY <2>2, <1>12, CommittedIs
  <2> QED  BY <1>8, <2>1, <2>2
<1>15. CASE ParserInsert /\ rows' = rows
  <2>1. UNCHANGED <<rows, synced, held, build>>
    <3>1. CASE Creates(cur) /\ Touched(cur) \in pairs
      BY <1>15, <3>1 DEF ParserInsert
    <3>2. CASE ~(Creates(cur) /\ Touched(cur) \in pairs)
      <4>1. rows' = rows \o BlockRows(cur) /\ cur # 0
        BY <1>15, <3>2 DEF ParserInsert
      <4>2. BlockRows(cur) \in Seq(RowType) /\ BlockRows(cur) # <<>>
        BY <4>1, ParserAt, BlockSum DEF Typed
      <4>3. rows \o BlockRows(cur) # rows
        BY <1>2, <4>2
      <4> QED  BY <1>15, <4>1, <4>3
    <3> QED  BY <3>1, <3>2
  <2> QED  BY <1>8, <2>1 DEF Committed
<1>16. CASE Quarantine /\ held' = held
  <2>1. /\ rows' = rows /\ cur # 0 /\ build' = build /\ cur \in held
        /\ synced' = IF synced = cur - 1 THEN cur ELSE synced
    BY <1>16 DEF Quarantine, MoveCursor
  <2>2. cur # synced + 1 /\ cur \in Nat
    BY <1>2, <2>1
  <2>3. synced' = synced
    BY <1>2, <2>1, <2>2
  <2> QED  BY <1>8, <1>16, <2>1, <2>3 DEF Committed
<1> QED  BY <1>9, <1>10, <1>11, <1>12, <1>13, <1>14, <1>15, <1>16, Steps

----------------------------------------------------------------------------
(* Everything holds at the start, when there are no pools and no rows. *)
LEMMA InitIInv == ASSUME Init PROVE IInv
<1>1. /\ rows = <<>> /\ synced = 0 /\ held = {} /\ build = CP!NoBuild /\ hist = NoHist
      /\ pool = [h \in 0..MaxHeight |-> [p \in Pair |-> NoPool]]
  BY DEF Init
<1>2. Typed
  BY TypedInit
<1>3. MakesUp /\ OnlyReplays
  BY <1>1 DEF MakesUp, OnlyReplays, CP!NoBuild
<1>4. ASSUME NEW p \in Pair PROVE SumAll(rows, p) = Expected(p)
  <2>1. SumAll(rows, p) = Zero
    <3>1. Of(rows, p) = {}
      BY <1>1 DEF Of
    <3> QED  BY <3>1, FS_EmptySet, TotalStep DEF SumAll
  <2>2. At(synced, p) = Zero
    BY <1>1, BoundsAssumption DEF At, Exists
  <2>3. held \ hist.absorbed = {} /\ hist.absorbed \ held = {} /\ {} \in SUBSET (1..tip)
    BY <1>1 DEF NoHist
  <2>4. Effects({}, p) = Zero
    BY <1>2, <2>3, EffectsAdd
  <2>5. Minus(Zero, Zero) = Zero /\ Plus(Zero, Zero) = Zero
    BY PlusMinus, Rearranged
  <2> QED  BY <2>1, <2>2, <2>3, <2>4, <2>5 DEF Expected
<1>5. PoolsAddUp
  BY <1>1, <1>4, SumsAre DEF NoHist
<1> QED  BY <1>2, <1>3, <1>5 DEF IInv

LEMMA NextIInv == ASSUME IInv, [Next]_vars PROVE IInv'
BY TypedNext, MakesUpNext, OnlyReplaysNext, SumsNext DEF IInv

(* For every chain and however the parser, the replays and the checkpoint  *)
(* builder interleave: the rows of a pair add up to its pool at the        *)
(* cursor, less what is quarantined, plus what was replayed after a        *)
(* checkpoint had it already -- unless inserts overlapped or the last      *)
(* checkpoint misstated the pair.                                          *)
THEOREM SumsArePools == Spec => []PoolsAddUp
<1>1. Init => IInv
  BY InitIInv
<1>2. IInv /\ [Next]_vars => IInv'
  BY NextIInv
<1>3. IInv => PoolsAddUp
  BY DEF IInv
<1> QED  BY <1>1, <1>2, <1>3, PTL DEF Spec

(* A checkpoint whose insert follows what it counted leaves the rows of    *)
(* every pair with the node's pool at its target, whatever they added up   *)
(* to before, but for the pairs it misstates.                              *)
THEOREM CheckpointsSettle == Spec => CheckpointSettles
<1>1. Init => IInv
  BY InitIInv
<1>2. IInv /\ [Next]_vars => IInv'
  BY NextIInv
<1>3. IInv /\ [Next]_vars =>
        [Committed /\ hist.counted = Len(rows) =>
           \A p \in CP!Existing(build.target) :
             Misstates(p) \/ SumOf(rows', p, 0, build.target) = pool[build.target][p]]_vars
  BY Settles DEF IInv
<1> QED  BY <1>1, <1>2, <1>3, PTL DEF Spec, CheckpointSettles
=============================================================================
