------------------------ MODULE SumsAndOrder_proofs ------------------------
(***************************************************************************)
(* The screens of the web client whose figures are sums over finite sets   *)
(* or whose lists are finite sets put in order, for every value of their   *)
(* constants: what such a sum is, the budget page with the server's        *)
(* calculation behind it, the figures of the insights page, and the        *)
(* categories page with the order the user drags.                          *)
(***************************************************************************)
EXTENDS BudgetScreen, InsightsScreen, CategoriesScreen, FiniteSetsExt, FiniteSetTheorems,
        FunctionTheorems, SequenceTheorems, WellFoundedInduction, TLAPS

-----------------------------------------------------------------------------
(***************************************************************************)
(* Sums over finite sets. SumFunctionOnSet adds one chosen element after   *)
(* the other; IsSum says of a function that it does the same for every     *)
(* subset. That there is one, that there is only one and that the order    *)
(* does not matter goes by induction on the subsets of S, here with the    *)
(* subsets of which it holds as a set.                                     *)
(***************************************************************************)
LEMMA LeastOf ==
    ASSUME NEW T \in SUBSET Nat, T # {}
    PROVE  \E n \in T : \A k \in T : n <= k
<1>. DEFINE less == OpToRel(<, Nat)
<1>1. IsWellFoundedOn(less, Nat)
  BY Zenon, NatLessThanWellFounded
<1>2. \A k, n \in Nat : k < n => <<k, n>> \in less
  BY DEF OpToRel
<1>. HIDE DEF less
<1>3. PICK n \in T : \A k \in T : ~(<<k, n>> \in less)
  BY <1>1, WFMin
<1>4. \A k \in T : ~(k < n)
  BY <1>2, <1>3
<1>. QED  BY <1>4

LEMMA SubsetInduction ==
    ASSUME NEW S, IsFiniteSet(S), NEW Q \in SUBSET (SUBSET S),
           \A A \in SUBSET S : (\A x \in A : A \ {x} \in Q) => A \in Q
    PROVE  Q = SUBSET S
<1>. SUFFICES ASSUME NEW B \in SUBSET S, B \notin Q PROVE FALSE
  OBVIOUS
<1>. DEFINE sizes == {Cardinality(A) : A \in (SUBSET S) \ Q}
<1>1. \A A \in SUBSET S : IsFiniteSet(A) /\ Cardinality(A) \in Nat
  BY FS_Subset, FS_CardinalityType
<1>2. sizes \in SUBSET Nat /\ Cardinality(B) \in sizes
  <2>1. \A n \in sizes : n \in Nat
    BY <1>1
  <2>2. Cardinality(B) \in sizes
    <3>1. B \in (SUBSET S) \ Q
      OBVIOUS
    <3>. QED  BY <3>1, Zenon
  <2>. QED  BY <2>1, <2>2
<1>3. PICK n \in sizes : \A k \in sizes : n <= k
  <2>. HIDE DEF sizes
  <2>. QED  BY <1>2, LeastOf
<1>4. PICK A \in (SUBSET S) \ Q : n = Cardinality(A)
  OBVIOUS
<1>5. PICK x \in A : A \ {x} \notin Q
  <2>. HIDE DEF sizes
  <2>1. A \in SUBSET S /\ A \notin Q
    OBVIOUS
  <2>. QED  BY <2>1, Zenon
<1>6. Cardinality(A \ {x}) = n - 1 /\ Cardinality(A) \in Nat
  BY <1>1, <1>4, <1>5, FS_RemoveElement
<1>7. n - 1 \in sizes
  BY <1>5, <1>6
<1>8. n <= n - 1 /\ n \in Nat
  <2>. HIDE DEF sizes
  <2>. QED  BY <1>3, <1>4, <1>6, <1>7
<1>. QED  BY <1>8

AddedLast(A) == CHOOSE x \in A : TRUE

SumAt(f, h, A) == IF A = {} THEN 0 ELSE f[AddedLast(A)] + h[A \ {AddedLast(A)}]

IsSum(f, S, h) == h \in [SUBSET S -> Int] /\ \A A \in SUBSET S : h[A] = SumAt(f, h, A)

LEMMA SumAtTyped ==
    ASSUME NEW S, NEW f, \A x \in S : f[x] \in Int, NEW h \in [SUBSET S -> Int], NEW A \in SUBSET S
    PROVE  SumAt(f, h, A) \in Int
<1>1. A # {} => AddedLast(A) \in A
  BY DEF AddedLast
<1>. QED  BY <1>1 DEF SumAt

LEMMA SumExists ==
    ASSUME NEW S, IsFiniteSet(S), NEW f, \A x \in S : f[x] \in Int
    PROVE  \E h : IsSum(f, S, h)
<1>. DEFINE Upto(n, h) == \A A \in SUBSET S : Cardinality(A) <= n => h[A] = SumAt(f, h, A)
            short == {n \in Nat : \E h \in [SUBSET S -> Int] : Upto(n, h)}
<1>1. \A A \in SUBSET S : IsFiniteSet(A) /\ Cardinality(A) \in Nat /\ Cardinality(A) <= Cardinality(S)
  BY FS_Subset, FS_CardinalityType
<1>2. Cardinality(S) \in short
  <2>. SUFFICES ASSUME Cardinality(S) \notin short PROVE FALSE
    OBVIOUS
  <2>. DEFINE long == Nat \ short
  <2>0. Cardinality(S) \in long
    BY <1>1
  <2>1. PICK n \in long : \A k \in long : n <= k
    <3>1. long \in SUBSET Nat /\ long # {}
      BY <2>0
    <3>. HIDE DEF long
    <3>. QED  BY <3>1, LeastOf
  <2>2. \A k \in Nat : k < n => k \in short
    <3>. HIDE DEF short
    <3>. QED  BY <2>1
  <2>3. PICK g \in [SUBSET S -> Int] : \A A \in SUBSET S : Cardinality(A) < n => g[A] = SumAt(f, g, A)
    <3>1. CASE n = 0
      <4>1. [A \in SUBSET S |-> 0] \in [SUBSET S -> Int]
        OBVIOUS
      <4>2. \A A \in SUBSET S : ~(Cardinality(A) < n)
        BY <1>1, <3>1
      <4>. QED  BY <4>1, <4>2
    <3>2. CASE n # 0
      <4>1. n - 1 \in short
        <5>1. n \in Nat /\ n - 1 \in Nat /\ n - 1 < n
          BY <3>2
        <5>. HIDE DEF short
        <5>. QED  BY <2>2, <5>1
      <4>2. PICK g \in [SUBSET S -> Int] : Upto(n - 1, g)
        BY <4>1
      <4>. QED  BY <1>1, <4>2
    <3>. QED  BY <3>1, <3>2
  <2>. DEFINE h == [A \in SUBSET S |-> IF Cardinality(A) < n THEN g[A] ELSE SumAt(f, g, A)]
  <2>4. h \in [SUBSET S -> Int]
    BY SumAtTyped
  <2>5. ASSUME NEW A \in SUBSET S, Cardinality(A) <= n PROVE h[A] = SumAt(f, h, A)
    <3>1. h[A] = SumAt(f, g, A)
      BY <2>3
    <3>2. CASE A = {}
      BY <3>1, <3>2 DEF SumAt
    <3>3. CASE A # {}
      <4>1. AddedLast(A) \in A
        BY <3>3 DEF AddedLast
      <4>2. Cardinality(A \ {AddedLast(A)}) = Cardinality(A) - 1 /\ Cardinality(A) \in Nat
        BY <1>1, <4>1, FS_RemoveElement
      <4>3. h[A \ {AddedLast(A)}] = g[A \ {AddedLast(A)}]
        BY <2>5, <4>2
      <4>. QED  BY <3>1, <3>3, <4>3 DEF SumAt
    <3>. QED  BY <3>2, <3>3
  <2>6. Upto(n, h)
    BY <2>5
  <2>. HIDE DEF h
  <2>. QED  BY <2>1, <2>4, <2>6
<1>3. PICK h \in [SUBSET S -> Int] : Upto(Cardinality(S), h)
  BY <1>2
<1>. QED  BY <1>1, <1>3 DEF IsSum

LEMMA ChosenIn == \A A : A # {} => AddedLast(A) \in A
BY DEF AddedLast

LEMMA SumUnique ==
    ASSUME NEW S, IsFiniteSet(S), NEW f, NEW g, NEW h, NEW R \in SUBSET S, IsSum(f, S, h),
           \A A \in SUBSET R : g[A] = SumAt(f, g, A)
    PROVE  \A A \in SUBSET R : g[A] = h[A]
<1>. DEFINE Q == {A \in SUBSET R : g[A] = h[A]}
<1>1. ASSUME NEW A \in SUBSET R, \A x \in A : A \ {x} \in Q PROVE A \in Q
  <2>1. g[A] = SumAt(f, g, A) /\ h[A] = SumAt(f, h, A)
    BY DEF IsSum
  <2>2. A # {} => g[A \ {AddedLast(A)}] = h[A \ {AddedLast(A)}]
    BY <1>1, ChosenIn
  <2>. QED  BY <2>1, <2>2 DEF SumAt
<1>2. IsFiniteSet(R) /\ Q \in SUBSET (SUBSET R)
  BY FS_Subset
<1>3. Q = SUBSET R
  <2>. HIDE DEF Q
  <2>. QED  BY <1>1, <1>2, SubsetInduction
<1>. QED  BY <1>3

LEMMA SumIs ==
    ASSUME NEW S, IsFiniteSet(S), NEW f, NEW h, IsSum(f, S, h), NEW R \in SUBSET S
    PROVE  SumFunctionOnSet(f, R) = h[R]
<1>. DEFINE Adds(g) == g = [A \in SUBSET R |-> IF A = {} THEN 0
                            ELSE f[CHOOSE x \in A : TRUE] + g[A \ {CHOOSE x \in A : TRUE}]]
            summed == CHOOSE g : Adds(g)
<1>1. SumFunctionOnSet(f, R) = summed[R]
  BY Zenon DEF SumFunctionOnSet, FoldFunctionOnSet, MapThenFoldSet
<1>2. Adds([A \in SUBSET R |-> h[A]])
  <2>. DEFINE k == [A \in SUBSET R |-> h[A]]
  <2>1. ASSUME NEW A \in SUBSET R
        PROVE  k[A] = IF A = {} THEN 0 ELSE f[CHOOSE x \in A : TRUE] + k[A \ {CHOOSE x \in A : TRUE}]
    <3>1. A \in SUBSET S /\ A \ {AddedLast(A)} \in SUBSET R /\ k[A] = h[A]
      OBVIOUS
    <3>2. h[A] = IF A = {} THEN 0 ELSE f[AddedLast(A)] + k[A \ {AddedLast(A)}]
      BY <3>1 DEF IsSum, SumAt
    <3>. QED  BY <3>1, <3>2 DEF AddedLast
  <2>. QED  BY <2>1
<1>3. Adds(summed)
  <2>. HIDE DEF Adds
  <2>. QED  BY <1>2, Zenon
<1>4. \A A \in SUBSET R : summed[A] = SumAt(f, summed, A)
  <2>1. \E g : g = summed /\ Adds(g)
    BY <1>3
  <2>. HIDE DEF summed
  <2>. QED  BY <2>1 DEF SumAt, AddedLast
<1>. HIDE DEF summed
<1>5. summed[R] = h[R]
  BY <1>4, SumUnique
<1>. QED  BY <1>1, <1>5

\* What a proof may say of a sum: it is a number, nothing adds up to nothing, and
\* any element may be added last.
LEMMA SumTyped ==
    ASSUME NEW S, IsFiniteSet(S), NEW f, \A x \in S : f[x] \in Int
    PROVE  SumFunctionOnSet(f, S) \in Int
<1>1. PICK h : IsSum(f, S, h)
  BY SumExists
<1>2. SumFunctionOnSet(f, S) = h[S]
  BY <1>1, SumIs
<1>. QED  BY <1>1, <1>2 DEF IsSum

LEMMA SumOfNothing == \A f : SumFunctionOnSet(f, {}) = 0
<1>. SUFFICES ASSUME NEW f PROVE SumFunctionOnSet(f, {}) = 0  OBVIOUS
<1>1. IsFiniteSet({})
  BY FS_EmptySet
<1>2. PICK h : IsSum(f, {}, h)
  BY <1>1, SumExists
<1>3. SumFunctionOnSet(f, {}) = h[{}]
  BY <1>1, <1>2, SumIs
<1>. QED  BY <1>2, <1>3 DEF IsSum, SumAt

LEMMA SumOrder ==
    ASSUME NEW S, IsFiniteSet(S), NEW f, \A x \in S : f[x] \in Int, NEW h, IsSum(f, S, h)
    PROVE  \A A \in SUBSET S : \A y \in A : h[A] = f[y] + h[A \ {y}]
<1>. DEFINE Q == {A \in SUBSET S : \A y \in A : h[A] = f[y] + h[A \ {y}]}
<1>1. ASSUME NEW A \in SUBSET S, \A x \in A : A \ {x} \in Q PROVE A \in Q
  <2>. SUFFICES ASSUME NEW y \in A PROVE h[A] = f[y] + h[A \ {y}]
    OBVIOUS
  <2>. DEFINE p == AddedLast(A)
  <2>1. p \in A /\ h[A] = f[p] + h[A \ {p}]
    BY ChosenIn DEF IsSum, SumAt
  <2>2. CASE y = p
    BY <2>1, <2>2
  <2>3. CASE y # p
    <3>. HIDE DEF p
    <3>1. h[A \ {p}] = f[y] + h[(A \ {p}) \ {y}]
      BY <1>1, <2>1, <2>3
    <3>2. h[A \ {y}] = f[p] + h[(A \ {y}) \ {p}]
      BY <1>1, <2>1, <2>3
    <3>3. (A \ {p}) \ {y} = (A \ {y}) \ {p}
      OBVIOUS
    <3>4. f[p] \in Int /\ f[y] \in Int /\ h[(A \ {y}) \ {p}] \in Int
      BY <2>1 DEF IsSum
    <3>5. h[A \ {p}] = f[y] + h[(A \ {y}) \ {p}]
      BY <3>1, <3>3
    <3>6. h[A] = f[p] + h[A \ {p}]
      BY <2>1
    <3>7. f[p] + (f[y] + h[(A \ {y}) \ {p}]) = f[y] + (f[p] + h[(A \ {y}) \ {p}])
      BY <3>4
    <3>. QED  BY <3>2, <3>5, <3>6, <3>7
  <2>. QED  BY <2>2, <2>3
<1>2. Q \in SUBSET (SUBSET S)
  OBVIOUS
<1>3. Q = SUBSET S
  <2>. HIDE DEF Q
  <2>. QED  BY <1>1, <1>2, SubsetInduction
<1>. QED  BY <1>3

LEMMA SumWithout ==
    ASSUME NEW S, IsFiniteSet(S), NEW f, \A x \in S : f[x] \in Int, NEW y \in S
    PROVE  SumFunctionOnSet(f, S) = f[y] + SumFunctionOnSet(f, S \ {y})
<1>1. PICK h : IsSum(f, S, h)
  BY SumExists
<1>2. SumFunctionOnSet(f, S) = h[S] /\ SumFunctionOnSet(f, S \ {y}) = h[S \ {y}]
  BY <1>1, SumIs
<1>. QED  BY <1>1, <1>2, SumOrder

LEMMA SumStep ==
    ASSUME NEW S, IsFiniteSet(S), NEW f, \A x \in S : f[x] \in Int, NEW A \in SUBSET S, NEW y \in A
    PROVE  /\ SumFunctionOnSet(f, A) = f[y] + SumFunctionOnSet(f, A \ {y})
           /\ f[y] \in Int /\ SumFunctionOnSet(f, A \ {y}) \in Int
<1>1. IsFiniteSet(A) /\ IsFiniteSet(A \ {y})
  BY FS_Subset, FS_RemoveElement
<1>2. SumFunctionOnSet(f, A) = f[y] + SumFunctionOnSet(f, A \ {y})
  BY <1>1, SumWithout
<1>3. SumFunctionOnSet(f, A \ {y}) \in Int
  BY <1>1, SumTyped
<1>. QED  BY <1>2, <1>3

LEMMA SumAdds ==
    ASSUME NEW S, IsFiniteSet(S), NEW f, NEW g, NEW k,
           \A x \in S : f[x] \in Int /\ g[x] \in Int /\ k[x] = f[x] + g[x]
    PROVE  SumFunctionOnSet(k, S) = SumFunctionOnSet(f, S) + SumFunctionOnSet(g, S)
<1>. DEFINE Q == {A \in SUBSET S :
                    SumFunctionOnSet(k, A) = SumFunctionOnSet(f, A) + SumFunctionOnSet(g, A)}
<1>1. ASSUME NEW A \in SUBSET S, \A x \in A : A \ {x} \in Q PROVE A \in Q
  <2>1. CASE A = {}
    BY <2>1, SumOfNothing
  <2>2. CASE A # {}
    <3>1. PICK y \in A : TRUE
      BY <2>2
    <3>. DEFINE rest == A \ {y}
    <3>2. SumFunctionOnSet(k, rest) = SumFunctionOnSet(f, rest) + SumFunctionOnSet(g, rest)
      BY <1>1
    <3>3. ASSUME NEW e, \A x \in S : e[x] \in Int
          PROVE  /\ SumFunctionOnSet(e, A) = e[y] + SumFunctionOnSet(e, rest)
                 /\ SumFunctionOnSet(e, rest) \in Int
      <4>. HIDE DEF Q
      <4>1. IsFiniteSet(S) /\ (\A x \in S : e[x] \in Int)
        BY <3>3
      <4>2. /\ SumFunctionOnSet(e, A) = e[y] + SumFunctionOnSet(e, A \ {y})
            /\ e[y] \in Int /\ SumFunctionOnSet(e, A \ {y}) \in Int
        <5>. HIDE DEF rest
        <5>. QED  BY <4>1, SumStep
      <4>. QED  BY <4>2
    <3>8. \A x \in S : k[x] \in Int
      OBVIOUS
    <3>9. (\A x \in S : f[x] \in Int) /\ (\A x \in S : g[x] \in Int)
      OBVIOUS
    <3>. HIDE DEF rest
    <3>4. SumFunctionOnSet(k, A) = k[y] + SumFunctionOnSet(k, rest)
      BY <3>3, <3>8
    <3>6. SumFunctionOnSet(f, A) = f[y] + SumFunctionOnSet(f, rest) /\ SumFunctionOnSet(f, rest) \in Int
      BY <3>3, <3>9
    <3>7. SumFunctionOnSet(g, A) = g[y] + SumFunctionOnSet(g, rest) /\ SumFunctionOnSet(g, rest) \in Int
      BY <3>3, <3>9
    <3>5. k[y] = f[y] + g[y] /\ f[y] \in Int /\ g[y] \in Int
      OBVIOUS
    <3>. QED  BY <3>2, <3>4, <3>5, <3>6, <3>7
  <2>. QED  BY <2>1, <2>2
<1>2. Q \in SUBSET (SUBSET S)
  OBVIOUS
<1>3. Q = SUBSET S
  <2>. HIDE DEF Q
  <2>. QED  BY <1>1, <1>2, SubsetInduction
<1>. QED  BY <1>3

LEMMA SumGrows ==
    ASSUME NEW S, IsFiniteSet(S), NEW f, NEW g,
           \A x \in S : f[x] \in Int /\ g[x] \in Int /\ f[x] <= g[x]
    PROVE  SumFunctionOnSet(f, S) <= SumFunctionOnSet(g, S)
<1>. DEFINE Q == {A \in SUBSET S : SumFunctionOnSet(f, A) <= SumFunctionOnSet(g, A)}
<1>1. ASSUME NEW A \in SUBSET S, \A x \in A : A \ {x} \in Q PROVE A \in Q
  <2>1. CASE A = {}
    BY <2>1, SumOfNothing
  <2>2. CASE A # {}
    <3>1. PICK y \in A : TRUE
      BY <2>2
    <3>. DEFINE rest == A \ {y}
    <3>2. SumFunctionOnSet(f, rest) <= SumFunctionOnSet(g, rest)
      BY <1>1
    <3>3. /\ SumFunctionOnSet(f, A) = f[y] + SumFunctionOnSet(f, rest)
          /\ SumFunctionOnSet(g, A) = g[y] + SumFunctionOnSet(g, rest)
          /\ SumFunctionOnSet(f, rest) \in Int /\ SumFunctionOnSet(g, rest) \in Int
      BY SumStep
    <3>. HIDE DEF rest
    <3>4. f[y] <= g[y] /\ f[y] \in Int /\ g[y] \in Int
      OBVIOUS
    <3>. QED  BY <3>2, <3>3, <3>4
  <2>. QED  BY <2>1, <2>2
<1>2. Q \in SUBSET (SUBSET S)
  OBVIOUS
<1>3. Q = SUBSET S
  <2>. HIDE DEF Q
  <2>. QED  BY <1>1, <1>2, SubsetInduction
<1>. QED  BY <1>3

\* The sum of a function depends on its values alone, and the elements of a set
\* may be added in two parts.
LEMMA SumSame ==
    ASSUME NEW S, IsFiniteSet(S), NEW f, NEW g, \A x \in S : f[x] \in Int /\ g[x] = f[x]
    PROVE  SumFunctionOnSet(f, S) = SumFunctionOnSet(g, S)
<1>1. SumFunctionOnSet(f, S) <= SumFunctionOnSet(g, S) /\ SumFunctionOnSet(g, S) <= SumFunctionOnSet(f, S)
  BY SumGrows
<1>2. SumFunctionOnSet(f, S) \in Int /\ SumFunctionOnSet(g, S) \in Int
  BY SumTyped
<1>. QED  BY <1>1, <1>2

LEMMA SumPositive ==
    ASSUME NEW S, IsFiniteSet(S), NEW f, \A x \in S : f[x] \in Int /\ f[x] >= 0
    PROVE  SumFunctionOnSet(f, S) >= 0
<1>. DEFINE nought == [x \in S |-> 0]
<1>1. SumFunctionOnSet(nought, S) = SumFunctionOnSet(nought, S) + SumFunctionOnSet(nought, S)
  BY SumAdds
<1>2. SumFunctionOnSet(nought, S) \in Int /\ SumFunctionOnSet(f, S) \in Int
  BY SumTyped
<1>3. SumFunctionOnSet(nought, S) <= SumFunctionOnSet(f, S)
  BY SumGrows
<1>. HIDE DEF nought
<1>. QED  BY <1>1, <1>2, <1>3

LEMMA SumSplit ==
    ASSUME NEW S, IsFiniteSet(S), NEW f, \A x \in S : f[x] \in Int, NEW R \in SUBSET S
    PROVE  SumFunctionOnSet(f, S) = SumFunctionOnSet(f, R) + SumFunctionOnSet(f, S \ R)
<1>. DEFINE Q == {A \in SUBSET R :
                    SumFunctionOnSet(f, A \cup (S \ R)) = SumFunctionOnSet(f, A) + SumFunctionOnSet(f, S \ R)}
<1>0. SumFunctionOnSet(f, S \ R) \in Int
  BY FS_Subset, SumTyped
<1>1. ASSUME NEW A \in SUBSET R, \A x \in A : A \ {x} \in Q PROVE A \in Q
  <2>1. CASE A = {}
    BY <1>0, <2>1, SumOfNothing
  <2>2. CASE A # {}
    <3>1. PICK y \in A : TRUE
      BY <2>2
    <3>. DEFINE rest == A \ {y}
                joined == A \cup (S \ R)
    <3>2. joined \ {y} = rest \cup (S \ R) /\ y \in joined /\ joined \in SUBSET S
      OBVIOUS
    <3>3. SumFunctionOnSet(f, joined \ {y}) = SumFunctionOnSet(f, rest) + SumFunctionOnSet(f, S \ R)
      BY <1>1, <3>2
    <3>4. SumFunctionOnSet(f, A) = f[y] + SumFunctionOnSet(f, rest) /\ SumFunctionOnSet(f, rest) \in Int
      BY SumStep
    <3>5. SumFunctionOnSet(f, joined) = f[y] + SumFunctionOnSet(f, joined \ {y}) /\ f[y] \in Int
      BY <3>2, SumStep
    <3>. HIDE DEF rest
    <3>6. SumFunctionOnSet(f, joined) = SumFunctionOnSet(f, A) + SumFunctionOnSet(f, S \ R)
      <4>. HIDE DEF joined
      <4>. QED  BY <1>0, <3>3, <3>4, <3>5
    <3>. QED  BY <3>6
  <2>. QED  BY <2>1, <2>2
<1>2. Q \in SUBSET (SUBSET R) /\ IsFiniteSet(R)
  BY FS_Subset
<1>3. Q = SUBSET R
  <2>. HIDE DEF Q
  <2>. QED  BY <1>1, <1>2, SubsetInduction
<1>4. R \cup (S \ R) = S
  OBVIOUS
<1>. QED  BY <1>3, <1>4

-----------------------------------------------------------------------------
(***************************************************************************)
(* The budget page. Fits: every month as the page or the server knows it   *)
(* stays between what was taken out and the limit of its goals. It holds   *)
(* of the assignments, of what the page shows, however old, and of what    *)
(* the requests in flight are going to write; none of the three could be   *)
(* kept alone. The limits only rise, so what fitted when it was read fits  *)
(* when it is written.                                                     *)
(***************************************************************************)
Sheets == [BudgetMonths -> [Cats -> Int]]
Tallies == [BudgetMonths -> [Cats -> Nat]]

Cap(m, c, e, t) == Level(m, c) + e[m][c] + SumFunction([k \in 1 .. m - 1 |-> t[k][c]])

Between(v, m, c, e, t) == v \in Int /\ -t[m][c] <= v /\ v <= Cap(m, c, e, t)

Fits(a, e, t) == a \in Sheets /\ \A m \in BudgetMonths, c \in Cats : Between(a[m][c], m, c, e, t)

Rises(e, f) == e \in Tallies /\ f \in Tallies /\ \A m \in BudgetMonths, c \in Cats : e[m][c] <= f[m][c]

Spent(m, c) == SumFunction([k \in 1 .. m |-> -Activity[k][c]])
Earlier(a, m, c) == SumFunction([k \in 1 .. m - 1 |-> a[k][c]])

LEMMA SumFunctionIs ==
    ASSUME NEW S, NEW f, DOMAIN f = S
    PROVE  SumFunction(f) = SumFunctionOnSet(f, S)
BY DEF SumFunction

LEMMA MonthsFinite ==
    ASSUME NEW m \in BudgetMonths
    PROVE  /\ 1 .. m \subseteq BudgetMonths /\ 1 .. m - 1 \subseteq BudgetMonths
           /\ IsFiniteSet(1 .. m) /\ IsFiniteSet(1 .. m - 1)
           /\ m \in 1 .. m /\ (1 .. m) \ {m} = 1 .. m - 1
           /\ m \in Int
<1>1. m \in Int /\ m >= 1 /\ m <= LastMonth /\ LastMonth \in Int
  BY BudgetAssumption DEF BudgetMonths
<1>2. IsFiniteSet(1 .. m) /\ IsFiniteSet(1 .. m - 1)
  BY <1>1, FS_Interval
<1>. QED  BY <1>1, <1>2 DEF BudgetMonths

LEMMA SpentTyped ==
    ASSUME NEW m \in BudgetMonths, NEW c \in Cats
    PROVE  Spent(m, c) \in Int
<1>. DEFINE f == [k \in 1 .. m |-> -Activity[k][c]]
<1>1. ASSUME NEW k \in 1 .. m PROVE f[k] \in Int
  <2>1. k \in BudgetMonths
    BY MonthsFinite
  <2>2. Activity[k][c] \in Int
    BY <2>1, BudgetAssumption DEF BudgetMonths
  <2>. QED  BY <2>2
<1>2. SumFunctionOnSet(f, 1 .. m) \in Int
  <2>. HIDE DEF f
  <2>. QED  BY <1>1, MonthsFinite, SumTyped
<1>3. Spent(m, c) = SumFunctionOnSet(f, 1 .. m)
  BY SumFunctionIs DEF Spent
<1>. QED  BY <1>2, <1>3

\* compute_category_balances, taken apart: this month, the earlier ones and what
\* was spent.
LEMMA BalanceIs ==
    ASSUME NEW a \in Sheets, NEW m \in BudgetMonths, NEW c \in Cats
    PROVE  /\ Earlier(a, m, c) \in Int
           /\ Balance(a, m, c) = a[m][c] + Earlier(a, m, c) - Spent(m, c)
<1>. DEFINE whole == [k \in 1 .. m |-> a[k][c] + Activity[k][c]]
            out == [k \in 1 .. m |-> -Activity[k][c]]
            in == [k \in 1 .. m |-> a[k][c]]
            before == [k \in 1 .. m - 1 |-> a[k][c]]
<1>1. ASSUME NEW k \in 1 .. m
      PROVE  /\ whole[k] \in Int /\ out[k] \in Int /\ in[k] \in Int
             /\ in[k] = whole[k] + out[k]
  <2>1. k \in BudgetMonths
    BY MonthsFinite
  <2>2. Activity[k][c] \in Int
    BY <2>1, BudgetAssumption DEF BudgetMonths
  <2>3. a[k][c] \in Int
    BY <2>1 DEF Sheets
  <2>. QED  BY <2>2, <2>3
<1>2. ASSUME NEW k \in 1 .. m - 1 PROVE before[k] \in Int /\ in[k] = before[k]
  <2>1. k \in 1 .. m
    BY MonthsFinite
  <2>. QED  BY <1>1, <2>1
<1>3. in[m] = a[m][c]
  BY MonthsFinite
<1>4. /\ Balance(a, m, c) = SumFunctionOnSet(whole, 1 .. m)
      /\ Spent(m, c) = SumFunctionOnSet(out, 1 .. m)
      /\ Earlier(a, m, c) = SumFunctionOnSet(before, 1 .. m - 1)
  BY SumFunctionIs DEF Balance, Spent, Earlier
<1>. HIDE DEF whole, out, in, before
<1>5. SumFunctionOnSet(in, 1 .. m) = SumFunctionOnSet(whole, 1 .. m) + SumFunctionOnSet(out, 1 .. m)
  <2>1. \A k \in 1 .. m : whole[k] \in Int /\ out[k] \in Int /\ in[k] = whole[k] + out[k]
    BY <1>1
  <2>2. IsFiniteSet(1 .. m)
    BY MonthsFinite
  <2>. QED  BY <2>1, <2>2, SumAdds
<1>6. SumFunctionOnSet(in, 1 .. m) = in[m] + SumFunctionOnSet(in, 1 .. m - 1)
  <2>1. \A k \in 1 .. m : in[k] \in Int
    BY <1>1
  <2>2. IsFiniteSet(1 .. m) /\ m \in 1 .. m /\ (1 .. m) \ {m} = 1 .. m - 1
    BY MonthsFinite
  <2>3. SumFunctionOnSet(in, 1 .. m) = in[m] + SumFunctionOnSet(in, (1 .. m) \ {m})
    BY <2>1, <2>2, SumWithout
  <2>. QED  BY <2>2, <2>3
<1>7. SumFunctionOnSet(before, 1 .. m - 1) = SumFunctionOnSet(in, 1 .. m - 1)
  BY <1>2, MonthsFinite, SumSame
<1>8. /\ SumFunctionOnSet(before, 1 .. m - 1) \in Int
      /\ SumFunctionOnSet(whole, 1 .. m) \in Int /\ SumFunctionOnSet(out, 1 .. m) \in Int
  BY <1>1, <1>2, MonthsFinite, SumTyped
<1>9. a[m][c] \in Int
  BY DEF Sheets
<1>. QED  BY <1>3, <1>4, <1>5, <1>6, <1>7, <1>8, <1>9

LEMMA EarlierCovered ==
    ASSUME NEW e, NEW t \in Tallies, NEW a, Fits(a, e, t), NEW m \in BudgetMonths, NEW c \in Cats
    PROVE  /\ Earlier(t, m, c) \in Int /\ Earlier(a, m, c) \in Int
           /\ Earlier(a, m, c) + Earlier(t, m, c) >= 0
<1>. DEFINE f == [k \in 1 .. m - 1 |-> a[k][c]]
            g == [k \in 1 .. m - 1 |-> t[k][c]]
            both == [k \in 1 .. m - 1 |-> a[k][c] + t[k][c]]
<1>1. \A k \in 1 .. m - 1 : /\ f[k] \in Int /\ g[k] \in Int
                            /\ both[k] = f[k] + g[k] /\ both[k] \in Int /\ both[k] >= 0
  BY MonthsFinite DEF Fits, Between, Sheets, Tallies
<1>2. Earlier(a, m, c) = SumFunctionOnSet(f, 1 .. m - 1) /\ Earlier(t, m, c) = SumFunctionOnSet(g, 1 .. m - 1)
  BY SumFunctionIs DEF Earlier
<1>. HIDE DEF f, g, both
<1>3. SumFunctionOnSet(both, 1 .. m - 1) = SumFunctionOnSet(f, 1 .. m - 1) + SumFunctionOnSet(g, 1 .. m - 1)
  <2>1. \A k \in 1 .. m - 1 : f[k] \in Int /\ g[k] \in Int /\ both[k] = f[k] + g[k]
    BY <1>1
  <2>2. IsFiniteSet(1 .. m - 1)
    BY MonthsFinite
  <2>. QED  BY <2>1, <2>2, SumAdds
<1>4. SumFunctionOnSet(both, 1 .. m - 1) >= 0
  BY <1>1, MonthsFinite, SumPositive
<1>5. SumFunctionOnSet(f, 1 .. m - 1) \in Int /\ SumFunctionOnSet(g, 1 .. m - 1) \in Int
  BY <1>1, MonthsFinite, SumTyped
<1>. QED  BY <1>2, <1>3, <1>4, <1>5

\* The limit of a goal is a number and no less than nothing; it only rises with
\* what was put on top and what was taken out.
LEMMA LevelTyped ==
    ASSUME NEW m \in BudgetMonths, NEW c \in Cats
    PROVE  /\ Level(m, c) \in Int /\ Level(m, c) >= 0
           /\ Goals[c].kind = "monthly" => Level(m, c) >= Goals[c].amount /\ Level(m, c) >= Spent(m, c)
           /\ Goals[c].kind = "yearly" => Level(m, c) >= Goals[c].amount \div 12 + Spent(m, c)
           /\ Goals[c].kind \notin {"monthly", "yearly"} => Level(m, c) >= Goals[c].amount + Spent(m, c)
<1>1. Goals[c].amount \in Int /\ Goals[c].amount >= 0 /\ Goals[c].amount \div 12 \in Int
  BY BudgetAssumption
<1>2. Spent(m, c) \in Int
  BY SpentTyped
<1>3. Level(m, c) = CASE Goals[c].kind = "monthly" -> Larger(Goals[c].amount, Spent(m, c))
                      [] Goals[c].kind = "yearly" -> NonNegative(Goals[c].amount \div 12 + Spent(m, c))
                      [] OTHER -> NonNegative(Goals[c].amount + Spent(m, c))
  BY DEF Level, Spent
<1>. DEFINE d == Goals[c].amount \div 12
<1>4. d \in Int
  BY <1>1
<1>5. Level(m, c) = CASE Goals[c].kind = "monthly" -> Larger(Goals[c].amount, Spent(m, c))
                      [] Goals[c].kind = "yearly" -> NonNegative(d + Spent(m, c))
                      [] OTHER -> NonNegative(Goals[c].amount + Spent(m, c))
  BY <1>3
<1>. HIDE DEF d
<1>6. CASE Goals[c].kind = "monthly"
  BY <1>1, <1>2, <1>5, <1>6 DEF Larger
<1>7. CASE Goals[c].kind = "yearly"
  <2>1. Level(m, c) = NonNegative(d + Spent(m, c))
    BY <1>5, <1>7
  <2>2. Level(m, c) \in Int /\ Level(m, c) >= 0 /\ Level(m, c) >= d + Spent(m, c)
    BY <2>1, <1>2, <1>4 DEF NonNegative, Larger
  <2>. QED  BY <2>2, <1>7 DEF d
<1>8. CASE Goals[c].kind \notin {"monthly", "yearly"}
  BY <1>1, <1>2, <1>5, <1>8 DEF NonNegative, Larger
<1>. QED  BY <1>6, <1>7, <1>8

LEMMA CapTyped ==
    ASSUME NEW e \in Tallies, NEW t \in Tallies, NEW m \in BudgetMonths, NEW c \in Cats
    PROVE  /\ Earlier(t, m, c) \in Int /\ Earlier(t, m, c) >= 0
           /\ Cap(m, c, e, t) = Level(m, c) + e[m][c] + Earlier(t, m, c)
           /\ Cap(m, c, e, t) \in Int /\ Cap(m, c, e, t) >= Level(m, c)
           /\ e[m][c] \in Nat /\ t[m][c] \in Nat
<1>. DEFINE g == [k \in 1 .. m - 1 |-> t[k][c]]
<1>1. ASSUME NEW k \in 1 .. m - 1 PROVE g[k] \in Int /\ g[k] >= 0
  <2>1. k \in BudgetMonths
    BY MonthsFinite
  <2>2. t[k][c] \in Nat
    BY <2>1 DEF Tallies
  <2>. QED  BY <2>2
<1>2. Earlier(t, m, c) = SumFunctionOnSet(g, 1 .. m - 1)
  BY SumFunctionIs DEF Earlier
<1>3. IsFiniteSet(1 .. m - 1)
  BY MonthsFinite
<1>. HIDE DEF g
<1>4. SumFunctionOnSet(g, 1 .. m - 1) \in Int /\ SumFunctionOnSet(g, 1 .. m - 1) >= 0
  BY <1>1, <1>3, SumTyped, SumPositive
<1>5. Cap(m, c, e, t) = Level(m, c) + e[m][c] + Earlier(t, m, c)
  BY DEF Cap, Earlier
<1>6. e[m][c] \in Nat /\ t[m][c] \in Nat
  BY DEF Tallies
<1>. QED  BY <1>2, <1>4, <1>5, <1>6, LevelTyped

LEMMA CapRises ==
    ASSUME NEW e, NEW f, NEW t, NEW u, Rises(e, f), Rises(t, u),
           NEW m \in BudgetMonths, NEW c \in Cats
    PROVE  Cap(m, c, e, t) <= Cap(m, c, f, u) /\ t[m][c] <= u[m][c]
<1>. DEFINE g == [k \in 1 .. m - 1 |-> t[k][c]]
            h == [k \in 1 .. m - 1 |-> u[k][c]]
<1>1. ASSUME NEW k \in 1 .. m - 1 PROVE g[k] \in Int /\ h[k] \in Int /\ g[k] <= h[k]
  <2>1. k \in BudgetMonths
    BY MonthsFinite
  <2>2. t[k][c] \in Nat /\ u[k][c] \in Nat /\ t[k][c] <= u[k][c]
    BY <2>1 DEF Rises, Tallies
  <2>. QED  BY <2>2
<1>2. Earlier(t, m, c) = SumFunctionOnSet(g, 1 .. m - 1) /\ Earlier(u, m, c) = SumFunctionOnSet(h, 1 .. m - 1)
  BY SumFunctionIs DEF Earlier
<1>3. IsFiniteSet(1 .. m - 1)
  BY MonthsFinite
<1>. HIDE DEF g, h
<1>4. SumFunctionOnSet(g, 1 .. m - 1) <= SumFunctionOnSet(h, 1 .. m - 1)
  BY <1>1, <1>3, SumGrows
<1>5. e \in Tallies /\ f \in Tallies /\ t \in Tallies /\ u \in Tallies
      /\ e[m][c] <= f[m][c] /\ t[m][c] <= u[m][c]
  BY DEF Rises
<1>6. /\ Cap(m, c, e, t) = Level(m, c) + e[m][c] + Earlier(t, m, c)
      /\ Earlier(t, m, c) \in Int /\ e[m][c] \in Nat
  BY <1>5, CapTyped
<1>7. /\ Cap(m, c, f, u) = Level(m, c) + f[m][c] + Earlier(u, m, c)
      /\ Earlier(u, m, c) \in Int /\ f[m][c] \in Nat
  BY <1>5, CapTyped
<1>8. Level(m, c) \in Int
  BY LevelTyped
<1>9. Earlier(t, m, c) <= Earlier(u, m, c)
  BY <1>2, <1>4
<1>. QED  BY <1>5, <1>6, <1>7, <1>8, <1>9

LEMMA BetweenKept ==
    ASSUME NEW e, NEW f, NEW t, NEW u, Rises(e, f), Rises(t, u),
           NEW m \in BudgetMonths, NEW c \in Cats, NEW v, Between(v, m, c, e, t)
    PROVE  Between(v, m, c, f, u)
<1>1. e \in Tallies /\ f \in Tallies /\ t \in Tallies /\ u \in Tallies
  BY DEF Rises
<1>2. t[m][c] \in Nat /\ u[m][c] \in Nat
  BY <1>1 DEF Tallies
<1>3. Cap(m, c, e, t) \in Int /\ Cap(m, c, f, u) \in Int
  BY <1>1, CapTyped
<1>4. v \in Int /\ -t[m][c] <= v /\ v <= Cap(m, c, e, t)
  BY DEF Between
<1>5. Cap(m, c, e, t) <= Cap(m, c, f, u) /\ t[m][c] <= u[m][c]
  BY CapRises
<1>. QED  BY <1>2, <1>3, <1>4, <1>5 DEF Between

LEMMA FitsKept ==
    ASSUME NEW e, NEW f, NEW t, NEW u, Rises(e, f), Rises(t, u), NEW a, Fits(a, e, t)
    PROVE  Fits(a, f, u)
BY BetweenKept DEF Fits

\* _needed_this_month asks for no more than is missing from the limit.
LEMMA NeededBounds ==
    ASSUME NEW e \in Tallies, NEW t \in Tallies, NEW a, Fits(a, e, t),
           NEW m \in BudgetMonths, NEW c \in Cats
    PROVE  /\ Needed(a, m, c) \in Int /\ Needed(a, m, c) >= 0
           /\ a[m][c] \in Int /\ a[m][c] + Needed(a, m, c) <= Cap(m, c, e, t)
<1>. DEFINE v == a[m][c]
            b == Balance(a, m, c)
            n == Needed(a, m, c)
            g == Goals[c].amount
            before == Earlier(a, m, c)
            takenBefore == Earlier(t, m, c)
            spent == Spent(m, c)
            cap == Cap(m, c, e, t)
            level == Level(m, c)
            twelfth == g \div 12
            span == Goals[c].target - m + 1
<1>1. a \in Sheets /\ v \in Int /\ v <= cap
  BY DEF Fits, Between
<1>2. /\ before \in Int /\ takenBefore \in Int /\ before + takenBefore >= 0 /\ spent \in Int
      /\ b = v + before - spent
  BY <1>1, BalanceIs, EarlierCovered, SpentTyped
<1>3. /\ cap \in Int /\ level \in Int /\ cap = level + e[m][c] + takenBefore /\ e[m][c] \in Nat
      /\ takenBefore >= 0
  BY CapTyped, LevelTyped
<1>4. g \in Int /\ g >= 0 /\ twelfth \in Int /\ Goals[c].target \in Int /\ m \in Int
  <2>1. g \in Int /\ g >= 0 /\ Goals[c].target \in Int
    BY BudgetAssumption
  <2>2. m \in Int
    BY MonthsFinite
  <2>. QED  BY <2>1, <2>2
<1>5. n = CASE Goals[c].kind = "monthly" -> Larger(NonNegative(g - v), NonNegative(-b))
            [] Goals[c].kind = "yearly" -> NonNegative(twelfth - b)
            [] OTHER -> IF Goals[c].target < m THEN 0 ELSE NonNegative(g - b) \div span
  BY DEF Needed
<1>6. /\ Goals[c].kind = "monthly" => level >= g /\ level >= spent
      /\ Goals[c].kind = "yearly" => level >= twelfth + spent
      /\ Goals[c].kind \notin {"monthly", "yearly"} => level >= g + spent
  BY LevelTyped
<1>7. n \in Int /\ n >= 0 /\ v + n <= cap
  <2>1. CASE Goals[c].kind = "monthly"
    <3>1. n = Larger(NonNegative(g - v), NonNegative(-b))
      BY <1>5, <2>1
    <3>2. level >= g /\ level >= spent
      BY <1>6, <2>1
    <3>. DEFINE x == e[m][c]
    <3>3. cap = level + x + takenBefore /\ x \in Nat
      BY <1>3
    <3>. HIDE DEF n, v, b, g, before, takenBefore, spent, cap, level, twelfth, x
    <3>4. NonNegative(g - v) \in Int /\ NonNegative(g - v) >= 0 /\ NonNegative(g - v) \in {0, g - v}
      BY <1>1, <1>4 DEF Larger, NonNegative
    <3>5. NonNegative(-b) \in Int /\ NonNegative(-b) >= 0 /\ NonNegative(-b) \in {0, -b} /\ b \in Int
      BY <1>1, <1>2 DEF Larger, NonNegative
    <3>6. n \in Int /\ n >= 0 /\ n \in {0, g - v, -b}
      BY <3>1, <3>4, <3>5 DEF Larger
    <3>7. v + (g - v) <= cap
      BY <1>1, <1>2, <1>3, <1>4, <3>2, <3>3
    <3>8. v + (-b) <= cap
      BY <1>1, <1>2, <1>3, <1>4, <3>2, <3>3
    <3>. QED  BY <3>6, <3>7, <3>8, <1>1, <1>3
  <2>2. CASE Goals[c].kind = "yearly"
    <3>1. n = NonNegative(twelfth - b)
      BY <1>5, <2>2
    <3>. HIDE DEF n, v, b, g, before, takenBefore, spent, cap, level, twelfth
    <3>. QED  BY <3>1, <2>2, <1>1, <1>2, <1>3, <1>4, <1>6 DEF Larger, NonNegative
  <2>3. CASE Goals[c].kind \notin {"monthly", "yearly"}
    <3>1. n = IF Goals[c].target < m THEN 0 ELSE NonNegative(g - b) \div span
      BY <1>5, <2>3
    <3>2. CASE Goals[c].target < m
      <4>. HIDE DEF n, v, b, g, before, takenBefore, spent, cap, level, twelfth
      <4>. QED  BY <3>1, <3>2, <1>1, <1>3
    <3>3. CASE ~(Goals[c].target < m)
      <4>. DEFINE gap == NonNegative(g - b)
      <4>1. span \in Int /\ span >= 1
        BY <1>4, <3>3
      <4>2. gap \in Int /\ gap >= 0 /\ (gap = g - b \/ gap = 0)
        <5>. HIDE DEF b, g, v, before, spent
        <5>. QED  BY <1>1, <1>2, <1>4 DEF NonNegative, Larger
      <4>3. n = gap \div span
        BY <3>1, <3>3
      <4>. HIDE DEF n, v, b, g, before, takenBefore, spent, cap, level, twelfth, span, gap
      <4>4. gap \div span \in Int /\ gap \div span >= 0 /\ gap \div span <= gap
        BY <4>1, <4>2, SMT
      <4>. QED  BY <4>2, <4>3, <4>4, <2>3, <1>1, <1>2, <1>3, <1>4, <1>6
    <3>. QED  BY <3>2, <3>3
  <2>. QED  BY <2>1, <2>2, <2>3
<1>. QED  BY <1>1, <1>7

\* What the page computes with is a number.
LEMMA BalanceTyped ==
    ASSUME NEW a \in Sheets, NEW m \in BudgetMonths, NEW c \in Cats
    PROVE  Balance(a, m, c) \in Int
<1>1. a[m][c] \in Int
  BY DEF Sheets
<1>. QED  BY <1>1, BalanceIs, SpentTyped

LEMMA ReadyTyped ==
    ASSUME NEW a \in Sheets, NEW m \in BudgetMonths
    PROVE  Ready(a, m) \in Int
<1>1. ASSUME NEW ms \in SUBSET BudgetMonths, IsFiniteSet(ms)
      PROVE  IncomeIn(ms) \in Int /\ AssignedIn(a, ms) \in Int
  <2>. DEFINE sums == [k \in ms |-> SumFunction(a[k])]
  <2>1. ASSUME NEW k \in ms PROVE sums[k] \in Int
    <3>1. DOMAIN a[k] = Cats /\ \A c \in Cats : a[k][c] \in Int
      BY DEF Sheets
    <3>2. SumFunction(a[k]) = SumFunctionOnSet(a[k], Cats)
      BY <3>1, SumFunctionIs
    <3>3. SumFunctionOnSet(a[k], Cats) \in Int
      BY <3>1, BudgetAssumption, SumTyped
    <3>. QED  BY <3>2, <3>3
  <2>2. AssignedIn(a, ms) = SumFunctionOnSet(sums, ms)
    BY SumFunctionIs DEF AssignedIn
  <2>3. SumFunctionOnSet(sums, ms) \in Int
    <3>. HIDE DEF sums
    <3>. QED  BY <1>1, <2>1, SumTyped
  <2>4. \A k \in ms : Income[k] \in Int
    BY BudgetAssumption DEF BudgetMonths
  <2>5. SumFunctionOnSet(Income, ms) \in Int
    BY <1>1, <2>4, SumTyped
  <2>. QED  BY <2>2, <2>3, <2>5 DEF IncomeIn
<1>2. 1 .. m \in SUBSET BudgetMonths /\ IsFiniteSet(1 .. m)
  BY MonthsFinite
<1>3. m + 1 .. LastMonth \in SUBSET BudgetMonths /\ IsFiniteSet(m + 1 .. LastMonth)
  <2>1. m \in Int /\ m >= 1 /\ LastMonth \in Int
    BY BudgetAssumption DEF BudgetMonths
  <2>. QED  BY <2>1, FS_Interval DEF BudgetMonths
<1>4. /\ IncomeIn(1 .. m) \in Int /\ AssignedIn(a, 1 .. m) \in Int
      /\ IncomeIn(m + 1 .. LastMonth) \in Int /\ AssignedIn(a, m + 1 .. LastMonth) \in Int
  BY <1>1, <1>2, <1>3
<1>. QED  BY <1>4 DEF Ready, NonNegative, Larger

\* compute_fund_goals_plan gives a category no more than it needs.
LEMMA PlanBounds ==
    ASSUME NEW e \in Tallies, NEW t \in Tallies, NEW a, Fits(a, e, t),
           NEW m \in BudgetMonths, NEW c \in Cats
    PROVE  /\ FundPlan(a, m)[c] \in Int /\ FundPlan(a, m)[c] >= 0
           /\ FundPlan(a, m)[c] <= Needed(a, m, c)
<1>. DEFINE i == CHOOSE j \in DOMAIN CatOrder : CatOrder[j] = c
            needs == [j \in 1 .. i - 1 |-> Needed(a, m, CatOrder[j])]
            left == NonNegative(NonNegative(Ready(a, m)) - FundedBefore(a, m, i))
            need == Needed(a, m, c)
<1>1. i \in DOMAIN CatOrder
  BY BudgetAssumption
<1>2. i \in Nat /\ \A j \in 1 .. i - 1 : CatOrder[j] \in Cats
  <2>1. CatOrder \in Seq(Cats)
    BY BudgetAssumption
  <2>. HIDE DEF i
  <2>2. i \in 1 .. Len(CatOrder) /\ Len(CatOrder) \in Nat
    BY <1>1, <2>1
  <2>3. \A j \in 1 .. Len(CatOrder) : CatOrder[j] \in Cats
    BY <2>1
  <2>. QED  BY <2>2, <2>3
<1>. HIDE DEF i
<1>3. \A j \in 1 .. i - 1 : needs[j] \in Int
  BY <1>2, NeededBounds
<1>4. FundedBefore(a, m, i) = SumFunctionOnSet(needs, 1 .. i - 1)
  BY SumFunctionIs DEF FundedBefore
<1>5. IsFiniteSet(1 .. i - 1)
  BY <1>2, FS_Interval
<1>6. FundedBefore(a, m, i) \in Int
  <2>. HIDE DEF needs
  <2>. QED  BY <1>3, <1>4, <1>5, SumTyped
<1>7. Ready(a, m) \in Int
  BY ReadyTyped DEF Fits
<1>8. left \in Int /\ left >= 0
  BY <1>6, <1>7 DEF NonNegative, Larger
<1>9. need \in Int /\ need >= 0
  BY NeededBounds
<1>10. FundPlan(a, m)[c] = IF need < left THEN need ELSE left
  BY DEF FundPlan, i
<1>. HIDE DEF need, left
<1>11. FundPlan(a, m)[c] \in Int /\ FundPlan(a, m)[c] >= 0 /\ FundPlan(a, m)[c] <= need
  BY <1>8, <1>9, <1>10
<1>. QED  BY <1>11 DEF need

\* The histories count up.
LEMMA TallyUp ==
    ASSUME NEW e \in Tallies, NEW m \in BudgetMonths, NEW c \in Cats, NEW x \in Int,
           NEW f, f = [e EXCEPT ![m][c] = @ + NonNegative(x)]
    PROVE  /\ Rises(e, f)
           /\ f[m][c] >= x
<1>1. NonNegative(x) \in Nat /\ NonNegative(x) >= x
  BY DEF NonNegative, Larger
<1>. DEFINE n == NonNegative(x)
<1>2. n \in Nat /\ n >= x
  BY <1>1
<1>. HIDE DEF n
<1>3. f = [e EXCEPT ![m][c] = @ + n]
  BY DEF n
<1>4. f \in Tallies
  BY <1>2, <1>3 DEF Tallies
<1>5. \A k \in BudgetMonths, d \in Cats : e[k][d] <= f[k][d]
  BY <1>2, <1>3 DEF Tallies
<1>6. f[m][c] = e[m][c] + n /\ e[m][c] \in Nat
  BY <1>2, <1>3 DEF Tallies
<1>. QED  BY <1>2, <1>4, <1>5, <1>6 DEF Rises, n

LEMMA TallySame == \A e \in Tallies : Rises(e, e)
<1>. SUFFICES ASSUME NEW e \in Tallies PROVE Rises(e, e)
  OBVIOUS
<1>1. \A m \in BudgetMonths, c \in Cats : e[m][c] \in Nat
  BY DEF Tallies
<1>. QED  BY <1>1 DEF Rises

\* A request as the page or the server made it.
RequestOf(k) == [id |-> k.id, op |-> k.op, month |-> k.month, cat |-> k.cat, from |-> k.from,
                 amount |-> k.amount, read |-> k.read, writes |-> k.writes]

WritesFit(w, m, e, t) == DOMAIN w \subseteq Cats /\ \A c \in DOMAIN w : Between(w[c], m, c, e, t)

RequestFits(k, e, t) ==
    /\ k = RequestOf(k) /\ k.op \in {"assign", "fund", "move"} /\ k.month \in BudgetMonths
    /\ k.op = "assign" => k.cat \in Cats /\ Between(k.amount, k.month, k.cat, e, t)
    /\ k.op = "move" => {k.cat, k.from} \subseteq Cats /\ k.amount \in Nat
    /\ WritesFit(k.writes, k.month, e, t)

DialogsOK ==
    /\ rowEdit = [cat |-> rowEdit.cat, amount |-> rowEdit.amount]
    /\ rowEdit.cat \in Cats \cup {NoCat} /\ rowEdit.amount \in Int \cup {Blanked}
    /\ cover = [cat |-> cover.cat, from |-> cover.from, amount |-> cover.amount]
    /\ {cover.cat, cover.from} \subseteq Cats \cup {NoCat} /\ cover.amount \in Int \cup {Blanked}
    /\ cover.from # NoCat => cover.cat # NoCat
    /\ cover.cat # NoCat => overspentOpen
    /\ overspentOpen => Fits(Shown, extra, taken)
    /\ {funding, overspentOpen} \subseteq BOOLEAN

ShownFits(s, e, t) ==
    /\ DOMAIN s = BudgetMonths
    /\ \A m \in BudgetMonths : s[m] = NoData \/ Fits(s[m], e, t)

BudgetInv ==
    /\ {extra, taken} \subseteq Tallies
    /\ Fits(assigned, extra, taken)
    /\ month \in BudgetMonths
    /\ ShownFits(shownBudget, extra, taken)
    /\ DialogsOK
    /\ \A k \in calls : RequestFits(k, extra, taken)
    /\ presses \in 0 .. MaxPresses

LEMMA RequestKept ==
    ASSUME NEW e, NEW f, NEW t, NEW u, Rises(e, f), Rises(t, u), NEW k, RequestFits(k, e, t)
    PROVE  RequestFits(k, f, u)
<1>1. k.month \in BudgetMonths
  BY DEF RequestFits
<1>2. k.op = "assign" => k.cat \in Cats /\ Between(k.amount, k.month, k.cat, f, u)
  BY <1>1, BetweenKept DEF RequestFits
<1>3. WritesFit(k.writes, k.month, f, u)
  <2>1. DOMAIN k.writes \subseteq Cats
        /\ \A c \in DOMAIN k.writes : Between(k.writes[c], k.month, c, e, t)
    BY DEF RequestFits, WritesFit
  <2>2. \A c \in DOMAIN k.writes : Between(k.writes[c], k.month, c, f, u)
    BY <1>1, <2>1, BetweenKept
  <2>. QED  BY <2>1, <2>2 DEF WritesFit
<1>. QED  BY <1>2, <1>3 DEF RequestFits

\* What fits keeps fitting while the histories grow.
LEMMA AllKept ==
    ASSUME BudgetInv, Rises(extra, extra'), Rises(taken, taken')
    PROVE  /\ {extra', taken'} \subseteq Tallies
           /\ Fits(assigned, extra', taken')
           /\ ShownFits(shownBudget, extra', taken')
           /\ \A k \in calls : RequestFits(k, extra', taken')
           /\ overspentOpen => Fits(Shown, extra', taken')
<1>1. {extra', taken'} \subseteq Tallies
  BY DEF Rises
<1>2. Fits(assigned, extra', taken')
  BY FitsKept DEF BudgetInv
<1>3. ShownFits(shownBudget, extra', taken')
  BY FitsKept DEF BudgetInv, ShownFits
<1>4. \A k \in calls : RequestFits(k, extra', taken')
  BY RequestKept DEF BudgetInv
<1>5. overspentOpen => Fits(Shown, extra', taken')
  BY FitsKept DEF BudgetInv, DialogsOK
<1>. QED  BY <1>1, <1>2, <1>3, <1>4, <1>5

LEMMA HistoriesKept ==
    ASSUME BudgetInv, UNCHANGED <<extra, taken>>
    PROVE  Rises(extra, extra') /\ Rises(taken, taken')
BY TallySame DEF BudgetInv

LEMMA SentFits ==
    ASSUME BudgetInv, Rises(extra, extra'), Rises(taken, taken'),
           NEW op \in {"assign", "fund", "move"}, NEW cat, NEW from, NEW amount,
           op = "assign" => cat \in Cats /\ Between(amount, month, cat, extra', taken'),
           op = "move" => {cat, from} \subseteq Cats /\ amount \in Nat,
           SendBudgetCall(op, cat, from, amount)
    PROVE  (\A k \in calls' : RequestFits(k, extra', taken')) /\ presses' \in 0 .. MaxPresses
<1>. DEFINE new == [id |-> presses, op |-> op, month |-> month, cat |-> cat,
                    from |-> from, amount |-> amount, read |-> FALSE, writes |-> NoWrites]
<1>1. calls' = calls \cup {new}
  BY DEF SendBudgetCall
<1>2. RequestFits(new, extra', taken')
  <2>1. new = RequestOf(new)
    BY DEF RequestOf
  <2>2. WritesFit(new.writes, new.month, extra', taken')
    BY DEF WritesFit, NoWrites
  <2>3. month \in BudgetMonths
    BY DEF BudgetInv
  <2>4. /\ new.op = op /\ new.month = month /\ new.cat = cat /\ new.from = from
        /\ new.amount = amount
    OBVIOUS
  <2>. HIDE DEF new
  <2>. QED  BY <2>1, <2>2, <2>3, <2>4 DEF RequestFits
<1>3. \A k \in calls : RequestFits(k, extra', taken')
  BY AllKept
<1>4. presses' \in 0 .. MaxPresses
  BY BudgetAssumption DEF SendBudgetCall, BudgetInv
<1>. QED  BY <1>1, <1>2, <1>3, <1>4

\* The page's steps that send nothing: with the assignments, the requests and the
\* histories as they were, what is left are the month, what is shown of it and
\* the dialogs.
LEMMA StillFits ==
    ASSUME BudgetInv, UNCHANGED <<assigned, calls, extra, taken, presses>>,
           month' \in BudgetMonths, ShownFits(shownBudget, extra, taken)', DialogsOK'
    PROVE  BudgetInv'
<1>1. /\ {extra, taken}' \subseteq Tallies
      /\ Fits(assigned, extra, taken)' /\ (\A k \in calls : RequestFits(k, extra, taken))'
      /\ (presses \in 0 .. MaxPresses)'
  BY DEF BudgetInv
<1>. QED  BY <1>1 DEF BudgetInv

LEMMA DialogKept ==
    ASSUME BudgetInv, UNCHANGED <<shownBudget, month>>, Rises(extra, extra'), Rises(taken, taken'),
           UNCHANGED rowEdit \/ (rowEdit'.cat \in Cats \cup {NoCat}
                                 /\ rowEdit'.amount \in Int \cup {Blanked}
                                 /\ rowEdit' = [cat |-> rowEdit'.cat, amount |-> rowEdit'.amount]),
           {funding', overspentOpen'} \subseteq BOOLEAN,
           overspentOpen' => overspentOpen \/ Fits(Shown, extra', taken'),
           cover' = [cat |-> cover'.cat, from |-> cover'.from, amount |-> cover'.amount],
           {cover'.cat, cover'.from} \subseteq Cats \cup {NoCat},
           cover'.amount \in Int \cup {Blanked},
           cover'.from # NoCat => cover'.cat # NoCat,
           cover'.cat # NoCat => overspentOpen'
    PROVE  DialogsOK' /\ ShownFits(shownBudget, extra, taken)' /\ month' \in BudgetMonths
<1>1. ShownFits(shownBudget, extra, taken)'
  BY AllKept
<1>2. overspentOpen' => Fits(Shown, extra, taken)'
  <2>1. Shown' = Shown
    BY DEF Shown
  <2>. QED  BY <2>1, AllKept
<1>3. /\ rowEdit' = [cat |-> rowEdit'.cat, amount |-> rowEdit'.amount]
      /\ rowEdit'.cat \in Cats \cup {NoCat} /\ rowEdit'.amount \in Int \cup {Blanked}
  BY DEF BudgetInv, DialogsOK
<1>. QED  BY <1>1, <1>2, <1>3 DEF DialogsOK, BudgetInv

LEMMA PageSteps ==
    ASSUME BudgetInv,
           \/ BudgetArrives \/ OpenFund \/ CloseDialogs \/ OpenOverspent
           \/ \E m \in BudgetMonths : StepMonth(m)
           \/ \E c \in Cats : EditRow(c) \/ OpenCover(c) \/ SelectSource(c)
           \/ \E amount \in TypedAmounts : TypeRow(amount) \/ TypeCover(amount)
    PROVE  BudgetInv'
<1>0. Rises(extra, extra) /\ Rises(taken, taken)
  BY TallySame DEF BudgetInv
<1>. DEFINE CoverOK == /\ cover' = [cat |-> cover'.cat, from |-> cover'.from, amount |-> cover'.amount]
                       /\ {cover'.cat, cover'.from} \subseteq Cats \cup {NoCat}
                       /\ cover'.amount \in Int \cup {Blanked}
                       /\ cover'.from # NoCat => cover'.cat # NoCat
                       /\ cover'.cat # NoCat => overspentOpen'
            RowOK == UNCHANGED rowEdit \/ (rowEdit'.cat \in Cats \cup {NoCat}
                                 /\ rowEdit'.amount \in Int \cup {Blanked}
                                 /\ rowEdit' = [cat |-> rowEdit'.cat, amount |-> rowEdit'.amount])
<1>1. ASSUME UNCHANGED <<assigned, shownBudget, month, calls, extra, taken, presses>>, RowOK, CoverOK,
             {funding', overspentOpen'} \subseteq BOOLEAN,
             overspentOpen' => overspentOpen \/ Fits(Shown, extra, taken)
      PROVE  BudgetInv'
  <2>1. Rises(extra, extra') /\ Rises(taken, taken')
    BY <1>0, <1>1
  <2>2. overspentOpen' => overspentOpen \/ Fits(Shown, extra', taken')
    BY <1>1
  <2>3. DialogsOK' /\ ShownFits(shownBudget, extra, taken)' /\ month' \in BudgetMonths
    BY <1>1, <2>1, <2>2, DialogKept
  <2>. QED  BY <1>1, <2>3, StillFits
<1>2. ShownFits(shownBudget, extra, taken) /\ month \in BudgetMonths /\ Fits(assigned, extra, taken)
  BY DEF BudgetInv
<1>3. Shown = NoData \/ Fits(Shown, extra, taken)
  BY <1>2 DEF ShownFits, Shown
<1>4. DialogsOK
  BY DEF BudgetInv
<1>5. UNCHANGED cover => (overspentOpen' = overspentOpen => CoverOK)
  BY <1>4 DEF DialogsOK
<1>6. cover' = NoCover => CoverOK
  BY DEF NoCover
<1>7. CASE BudgetArrives
  <2>1. shownBudget' = [shownBudget EXCEPT ![month] = assigned]
    BY <1>7 DEF BudgetArrives
  <2>2. ShownFits(shownBudget', extra, taken) /\ Shown' = assigned
    BY <1>2, <1>7, <2>1 DEF ShownFits, Shown, BudgetArrives
  <2>3. cover' = [cat |-> cover.cat, from |-> NoCat, amount |-> Blanked]
    BY <1>4, <1>7 DEF BudgetArrives, DialogsOK
  <2>4. DialogsOK'
    BY <1>2, <1>4, <1>7, <2>2, <2>3 DEF BudgetArrives, DialogsOK
  <2>5. ShownFits(shownBudget, extra, taken)' /\ month' \in BudgetMonths
    BY <1>2, <1>7, <2>2 DEF BudgetArrives
  <2>. QED  BY <1>7, <2>4, <2>5, StillFits DEF BudgetArrives
<1>8. CASE \E m \in BudgetMonths : StepMonth(m)
  <2>1. /\ month' \in BudgetMonths /\ ~overspentOpen' /\ rowEdit' = NoRowEdit
        /\ UNCHANGED <<assigned, shownBudget, funding, overspentOpen, cover, calls, extra, taken, presses>>
    BY <1>8 DEF StepMonth, OnPage
  <2>2. DialogsOK'
    BY <1>4, <2>1 DEF DialogsOK, NoRowEdit
  <2>3. ShownFits(shownBudget, extra, taken)'
    BY <1>2, <2>1
  <2>. QED  BY <2>1, <2>2, <2>3, StillFits
<1>9. CASE OpenFund \/ CloseDialogs
  <2>1. CoverOK /\ RowOK /\ {funding', overspentOpen'} \subseteq BOOLEAN /\ ~overspentOpen'
    BY <1>6, <1>9 DEF OpenFund, CloseDialogs, Dialogs, PageUnchanged
  <2>2. UNCHANGED <<assigned, shownBudget, month, calls, extra, taken, presses>>
    BY <1>9 DEF OpenFund, CloseDialogs, Dialogs, PageUnchanged
  <2>. HIDE DEF CoverOK, RowOK
  <2>. QED  BY <1>1, <2>1, <2>2
<1>10. CASE OpenOverspent
  <2>1. CoverOK /\ RowOK /\ {funding', overspentOpen'} \subseteq BOOLEAN /\ Fits(Shown, extra, taken)
    BY <1>3, <1>6, <1>10 DEF OpenOverspent, Dialogs, PageUnchanged
  <2>2. UNCHANGED <<assigned, shownBudget, month, calls, extra, taken, presses>>
    BY <1>10 DEF OpenOverspent, Dialogs, PageUnchanged
  <2>. HIDE DEF CoverOK, RowOK
  <2>. QED  BY <1>1, <2>1, <2>2
<1>11. ASSUME NEW c \in Cats, EditRow(c) PROVE BudgetInv'
  <2>1. rowEdit' = [cat |-> c, amount |-> Blanked]
    BY <1>11 DEF EditRow
  <2>2. UNCHANGED <<assigned, shownBudget, month, calls, extra, taken, presses,
                    cover, funding, overspentOpen>>
    BY <1>11 DEF EditRow
  <2>3. RowOK
    BY <2>1
  <2>4. CoverOK
    BY <1>5, <2>2
  <2>5. {funding', overspentOpen'} \subseteq BOOLEAN /\ overspentOpen' = overspentOpen
    BY <1>4, <2>2 DEF DialogsOK
  <2>. HIDE DEF CoverOK, RowOK
  <2>. QED  BY <1>1, <2>2, <2>3, <2>4, <2>5
<1>12. ASSUME NEW c \in Cats, OpenCover(c) PROVE BudgetInv'
  <2>1. cover' = [cat |-> c, from |-> NoCat, amount |-> Blanked]
    BY <1>12 DEF OpenCover, Dialogs, NoCover
  <2>2. /\ UNCHANGED <<assigned, shownBudget, month, calls, extra, taken, presses, rowEdit>>
        /\ funding' = FALSE /\ overspentOpen' = TRUE /\ overspentOpen
    BY <1>12 DEF OpenCover, Dialogs, PageUnchanged
  <2>3. RowOK /\ CoverOK /\ {funding', overspentOpen'} \subseteq BOOLEAN
    BY <2>1, <2>2
  <2>. HIDE DEF CoverOK, RowOK
  <2>. QED  BY <1>1, <2>2, <2>3
<1>13. ASSUME NEW s \in Cats, SelectSource(s) PROVE BudgetInv'
  <2>. DEFINE short == -Balance(Shown, month, cover.cat)
              has == Balance(Shown, month, s)
              suggested == IF short < has THEN short ELSE has
  <2>1. cover.cat \in Cats /\ overspentOpen /\ Shown \in Sheets
    BY <1>4, <1>13 DEF SelectSource, DialogsOK, Fits
  <2>2. suggested \in Int
    <3>1. has \in Int
      BY <1>2, <2>1, BalanceTyped
    <3>2. Balance(Shown, month, cover.cat) \in Int
      BY <1>2, <2>1, BalanceTyped
    <3>. HIDE DEF has
    <3>. QED  BY <3>1, <3>2
  <2>3. cover' = [cat |-> cover.cat, from |-> s, amount |-> suggested]
    BY <1>4, <1>13 DEF SelectSource, DialogsOK
  <2>4. UNCHANGED <<assigned, shownBudget, month, calls, extra, taken, presses,
                    rowEdit, funding, overspentOpen>>
    BY <1>13 DEF SelectSource, PageUnchanged
  <2>. HIDE DEF suggested
  <2>5. RowOK
    BY <2>4
  <2>6. cover.cat # NoCat /\ overspentOpen'
    <3>1. cover.cat # NoCat
      BY <1>13 DEF SelectSource
    <3>2. overspentOpen' = overspentOpen
      BY <2>4
    <3>. QED  BY <2>1, <3>1, <3>2, Zenon
  <2>7. CoverOK
    BY <2>1, <2>2, <2>3, <2>6
  <2>8. {funding', overspentOpen'} \subseteq BOOLEAN
    BY <1>4, <2>4 DEF DialogsOK
  <2>. HIDE DEF CoverOK, RowOK
  <2>. QED  BY <1>1, <2>1, <2>4, <2>5, <2>7, <2>8
<1>14. ASSUME NEW amount \in TypedAmounts, TypeRow(amount) PROVE BudgetInv'
  <2>1. rowEdit' = [cat |-> rowEdit.cat, amount |-> amount] /\ amount \in Int
    BY <1>4, <1>14, BudgetAssumption DEF TypeRow, DialogsOK
  <2>2. UNCHANGED <<assigned, shownBudget, month, calls, extra, taken, presses,
                    cover, funding, overspentOpen>>
    BY <1>14 DEF TypeRow
  <2>3. RowOK /\ CoverOK /\ {funding', overspentOpen'} \subseteq BOOLEAN
    BY <1>4, <1>5, <2>1, <2>2 DEF DialogsOK
  <2>. HIDE DEF CoverOK, RowOK
  <2>. QED  BY <1>1, <2>2, <2>3
<1>15. ASSUME NEW amount \in TypedAmounts, TypeCover(amount) PROVE BudgetInv'
  <2>1. cover' = [cat |-> cover.cat, from |-> cover.from, amount |-> amount] /\ amount \in Int
    BY <1>4, <1>15, BudgetAssumption DEF TypeCover, DialogsOK
  <2>2. UNCHANGED <<assigned, shownBudget, month, calls, extra, taken, presses,
                    rowEdit, funding, overspentOpen>>
    BY <1>15 DEF TypeCover, PageUnchanged
  <2>3. RowOK /\ CoverOK /\ {funding', overspentOpen'} \subseteq BOOLEAN
    BY <1>4, <2>1, <2>2 DEF DialogsOK
  <2>. HIDE DEF CoverOK, RowOK
  <2>. QED  BY <1>1, <2>2, <2>3
<1>. HIDE DEF CoverOK, RowOK
<1>. QED  BY <1>7, <1>8, <1>9, <1>10, <1>11, <1>12, <1>13, <1>14, <1>15

\* A write that nobody takes back: whoever sends one, the limits have risen enough
\* for it.
LEMMA MonthlyGoalTyped == \A c \in Cats : MonthlyGoal(c) \in Int /\ MonthlyGoal(c) >= 0
<1>. SUFFICES ASSUME NEW c \in Cats PROVE MonthlyGoal(c) \in Int /\ MonthlyGoal(c) >= 0
  OBVIOUS
<1>. DEFINE g == Goals[c].amount
<1>1. g \in Int /\ g >= 0
  BY BudgetAssumption
<1>2. MonthlyGoal(c) \in {0, g, (g + 6) \div 12}
  BY DEF MonthlyGoal
<1>. HIDE DEF g
<1>3. \A n \in Int : n >= 0 => n \div 12 \in Int /\ n \div 12 >= 0
  OBVIOUS
<1>4. g + 6 \in Int /\ g + 6 >= 0
  BY <1>1
<1>5. (g + 6) \div 12 \in Int /\ (g + 6) \div 12 >= 0
  BY <1>3, <1>4
<1>. QED  BY <1>1, <1>2, <1>5

LEMMA SendingSteps ==
    ASSUME BudgetInv, \/ CommitRow \/ ConfirmFund \/ ConfirmCover
                      \/ \E c \in Cats : PressNeed(c)
    PROVE  BudgetInv'
<1>0. extra \in Tallies /\ taken \in Tallies /\ Rises(extra, extra) /\ Rises(taken, taken)
  BY TallySame DEF BudgetInv
<1>1. DialogsOK /\ month \in BudgetMonths /\ ShownFits(shownBudget, extra, taken)
  BY DEF BudgetInv
<1>2. ASSUME Rises(extra, extra'), Rises(taken, taken'),
             UNCHANGED <<assigned, month, shownBudget, funding, overspentOpen>>,
             UNCHANGED rowEdit \/ rowEdit' = NoRowEdit,
             UNCHANGED cover \/ cover' = [cat |-> cover.cat, from |-> NoCat, amount |-> Blanked],
             (\A k \in calls' : RequestFits(k, extra', taken')) /\ presses' \in 0 .. MaxPresses
      PROVE  BudgetInv'
  <2>1. UNCHANGED rowEdit \/ (rowEdit'.cat \in Cats \cup {NoCat}
                              /\ rowEdit'.amount \in Int \cup {Blanked}
                              /\ rowEdit' = [cat |-> rowEdit'.cat, amount |-> rowEdit'.amount])
    BY <1>2 DEF NoRowEdit
  <2>2. /\ cover' = [cat |-> cover'.cat, from |-> cover'.from, amount |-> cover'.amount]
        /\ {cover'.cat, cover'.from} \subseteq Cats \cup {NoCat}
        /\ cover'.amount \in Int \cup {Blanked}
        /\ cover'.from # NoCat => cover'.cat # NoCat
        /\ cover'.cat # NoCat => overspentOpen'
    BY <1>1, <1>2 DEF DialogsOK
  <2>3. {funding', overspentOpen'} \subseteq BOOLEAN
    BY <1>1, <1>2 DEF DialogsOK
  <2>4. DialogsOK' /\ ShownFits(shownBudget, extra, taken)' /\ month' \in BudgetMonths
    BY <1>2, <2>1, <2>2, <2>3, DialogKept
  <2>5. {extra', taken'} \subseteq Tallies /\ Fits(assigned, extra, taken)'
    BY <1>2, AllKept
  <2>. QED  BY <1>2, <2>4, <2>5 DEF BudgetInv
<1>3. ASSUME NEW c \in Cats, PressNeed(c) PROVE BudgetInv'
  <2>. DEFINE need == Needed(Shown, month, c)
              more == IF need > 0 THEN 0 ELSE MonthlyGoal(c)
              amount == Shown[month][c] + need + more
  <2>1. Fits(Shown, extra, taken)
    BY <1>1, <1>3 DEF PressNeed, ShownFits, Shown
  <2>2. /\ need \in Int /\ need >= 0 /\ Shown[month][c] \in Int
        /\ Shown[month][c] + need <= Cap(month, c, extra, taken)
    BY <1>0, <1>1, <2>1, NeededBounds
  <2>3. MonthlyGoal(c) \in Int /\ MonthlyGoal(c) >= 0
    BY MonthlyGoalTyped
  <2>4. more \in Int /\ more >= 0
    BY <2>3
  <2>. HIDE DEF need, more
  <2>5. SendBudgetCall("assign", c, NoCat, amount) /\ PutsOnTop(month, c, more)
        /\ UNCHANGED <<assigned, month, shownBudget, rowEdit, funding, overspentOpen, cover, taken>>
    BY <1>3 DEF PressNeed, need, more
  <2>6. Rises(extra, extra') /\ extra'[month][c] = extra[month][c] + more
    <3>. HIDE DEF amount
    <3>1. extra' = [extra EXCEPT ![month][c] = @ + NonNegative(more)]
      BY <2>5 DEF PutsOnTop
    <3>2. NonNegative(more) = more
      BY <2>4 DEF NonNegative, Larger
    <3>3. more \in Int /\ extra \in Tallies /\ month \in BudgetMonths
      BY <1>0, <1>1, <2>4
    <3>4. Rises(extra, extra')
      BY <3>1, <3>3, TallyUp
    <3>5. extra' = [extra EXCEPT ![month][c] = @ + more]
      BY <3>1, <3>2
    <3>6. extra'[month][c] = extra[month][c] + more
      BY <3>3, <3>5 DEF Tallies
    <3>. QED  BY <3>4, <3>6
  <2>7. Rises(taken, taken')
    BY <1>0, <2>5
  <2>8. Between(amount, month, c, extra', taken')
    <3>. DEFINE lim == Level(month, c) + Earlier(taken, month, c)
    <3>1. Cap(month, c, extra, taken) = lim + extra[month][c] /\ lim \in Int /\ extra[month][c] \in Int
      BY <1>0, <1>1, CapTyped, LevelTyped
    <3>2. extra' \in Tallies /\ taken' = taken
      BY <2>5, <2>6 DEF Rises
    <3>3. Cap(month, c, extra', taken') = lim + extra'[month][c] /\ extra'[month][c] \in Int
      BY <1>0, <1>1, <3>2, CapTyped, LevelTyped
    <3>. HIDE DEF lim
    <3>4. amount \in Int /\ amount <= Cap(month, c, extra', taken')
      BY <2>2, <2>4, <2>6, <3>1, <3>3
    <3>5. -taken[month][c] <= Shown[month][c] /\ taken[month][c] \in Nat
      BY <1>0, <1>1, <2>1 DEF Fits, Between, Tallies
    <3>6. -taken[month][c] <= amount
      BY <2>2, <2>4, <3>5
    <3>. QED  BY <3>2, <3>4, <3>6 DEF Between
  <2>9. (\A k \in calls' : RequestFits(k, extra', taken')) /\ presses' \in 0 .. MaxPresses
    <3>. HIDE DEF amount
    <3>. QED  BY <2>5, <2>6, <2>7, <2>8, SentFits
  <2>. QED  BY <1>2, <2>5, <2>6, <2>7, <2>9
<1>4. CASE CommitRow
  <2>. DEFINE c == rowEdit.cat
              amount == rowEdit.amount
  <2>1. /\ c \in Cats /\ rowEdit' = NoRowEdit
        /\ UNCHANGED <<assigned, month, shownBudget, funding, overspentOpen, cover>>
    BY <1>1, <1>4 DEF CommitRow, DialogsOK
  <2>2. CASE amount \notin {Blanked, Shown[month][c]}
    <3>1. amount \in Int
      BY <1>1, <2>2 DEF DialogsOK
    <3>2. /\ SendBudgetCall("assign", c, NoCat, amount)
          /\ PutsOnTop(month, c, amount - Level(month, c)) /\ TakesAway(month, c, -amount)
      BY <1>4, <2>2 DEF CommitRow
    <3>. HIDE DEF c, amount
    <3>3. Level(month, c) \in Int
      BY <1>1, <2>1, LevelTyped
    <3>4. Rises(extra, extra') /\ extra'[month][c] >= amount - Level(month, c)
      <4>1. amount - Level(month, c) \in Int
        BY <3>1, <3>3
      <4>. DEFINE over == amount - Level(month, c)
      <4>2. over \in Int /\ extra' = [extra EXCEPT ![month][c] = @ + NonNegative(over)]
        BY <3>2, <4>1 DEF PutsOnTop
      <4>. HIDE DEF over
      <4>3. Rises(extra, extra') /\ extra'[month][c] >= over
        BY <1>0, <1>1, <2>1, <4>2, TallyUp
      <4>. QED  BY <4>3 DEF over
    <3>5. Rises(taken, taken') /\ taken'[month][c] >= -amount
      <4>. DEFINE below == -amount
      <4>2. below \in Int /\ taken' = [taken EXCEPT ![month][c] = @ + NonNegative(below)]
        BY <3>1, <3>2 DEF TakesAway
      <4>. HIDE DEF below
      <4>3. Rises(taken, taken') /\ taken'[month][c] >= below
        BY <1>0, <1>1, <2>1, <4>2, TallyUp
      <4>. QED  BY <4>3 DEF below
    <3>6. extra' \in Tallies /\ taken' \in Tallies
      BY <3>4, <3>5 DEF Rises
    <3>7. Between(amount, month, c, extra', taken')
      <4>1. /\ Cap(month, c, extra', taken') = Level(month, c) + extra'[month][c] + Earlier(taken', month, c)
            /\ Earlier(taken', month, c) \in Int /\ Earlier(taken', month, c) >= 0
            /\ extra'[month][c] \in Nat /\ taken'[month][c] \in Nat
        BY <1>1, <2>1, <3>6, CapTyped
      <4>. QED  BY <3>1, <3>3, <3>4, <3>5, <4>1 DEF Between
    <3>8. (\A k \in calls' : RequestFits(k, extra', taken')) /\ presses' \in 0 .. MaxPresses
      BY <2>1, <3>2, <3>4, <3>5, <3>7, SentFits
    <3>. QED  BY <1>2, <2>1, <3>4, <3>5, <3>8
  <2>3. CASE amount \in {Blanked, Shown[month][c]}
    <3>1. UNCHANGED <<calls, extra, taken, presses>>
      BY <1>4, <2>3 DEF CommitRow
    <3>2. (\A k \in calls' : RequestFits(k, extra', taken')) /\ presses' \in 0 .. MaxPresses
      BY <3>1 DEF BudgetInv
    <3>3. Rises(extra, extra') /\ Rises(taken, taken')
      BY <1>0, <3>1
    <3>. QED  BY <1>2, <2>1, <3>2, <3>3
  <2>. QED  BY <2>2, <2>3
<1>5. CASE ConfirmFund
  <2>1. SendBudgetCall("fund", NoCat, NoCat, 0)
        /\ UNCHANGED <<assigned, month, shownBudget, rowEdit, funding, overspentOpen, cover, extra, taken>>
    BY <1>5 DEF ConfirmFund, PageUnchanged
  <2>2. Rises(extra, extra') /\ Rises(taken, taken')
    BY <1>0, <2>1
  <2>3. (\A k \in calls' : RequestFits(k, extra', taken')) /\ presses' \in 0 .. MaxPresses
    BY <2>1, <2>2, SentFits
  <2>. QED  BY <1>2, <2>1, <2>2, <2>3
<1>6. CASE ConfirmCover
  <2>1. /\ SendBudgetCall("move", cover.cat, cover.from, cover.amount)
        /\ UNCHANGED <<assigned, month, shownBudget, rowEdit, funding, overspentOpen, extra, taken>>
        /\ cover' = [cat |-> cover.cat, from |-> NoCat, amount |-> Blanked]
    BY <1>1, <1>6 DEF ConfirmCover, PageUnchanged, DialogsOK
  <2>2. {cover.cat, cover.from} \subseteq Cats /\ cover.amount \in Nat
    BY <1>1, <1>6 DEF ConfirmCover, DialogsOK
  <2>3. Rises(extra, extra') /\ Rises(taken, taken')
    BY <1>0, <2>1
  <2>4. (\A k \in calls' : RequestFits(k, extra', taken')) /\ presses' \in 0 .. MaxPresses
    BY <2>1, <2>2, <2>3, SentFits
  <2>. QED  BY <1>2, <2>1, <2>3, <2>4
<1>. QED  BY <1>3, <1>4, <1>5, <1>6

\* A request that has been read is the same one with what it will write.
LEMMA ReadSet ==
    ASSUME NEW k, k = RequestOf(k), NEW half, half = [k EXCEPT !.read = TRUE]
    PROVE  half = [id |-> k.id, op |-> k.op, month |-> k.month, cat |-> k.cat, from |-> k.from,
                   amount |-> k.amount, read |-> TRUE, writes |-> k.writes]
<1>1. PICK i, o, m, c, f, a, r, v :
        k = [id |-> i, op |-> o, month |-> m, cat |-> c, from |-> f,
             amount |-> a, read |-> r, writes |-> v]
  BY DEF RequestOf
<1>. QED  BY <1>1

LEMMA WritesSet ==
    ASSUME NEW k, k = RequestOf(k), NEW w, NEW new, new = [k EXCEPT !.writes = w]
    PROVE  new = [id |-> k.id, op |-> k.op, month |-> k.month, cat |-> k.cat, from |-> k.from,
                  amount |-> k.amount, read |-> k.read, writes |-> w]
<1>1. PICK i, o, m, c, f, a, r, v :
        k = [id |-> i, op |-> o, month |-> m, cat |-> c, from |-> f,
             amount |-> a, read |-> r, writes |-> v]
  BY DEF RequestOf
<1>. QED  BY <1>1

LEMMA RequestRead ==
    ASSUME NEW k, k = RequestOf(k), NEW w
    PROVE  [k EXCEPT !.read = TRUE, !.writes = w]
             = [id |-> k.id, op |-> k.op, month |-> k.month, cat |-> k.cat, from |-> k.from,
                amount |-> k.amount, read |-> TRUE, writes |-> w]
<1>. DEFINE half == [k EXCEPT !.read = TRUE]
            new == [k EXCEPT !.read = TRUE, !.writes = w]
<1>1. new = [half EXCEPT !.writes = w]
  OBVIOUS
<1>. HIDE DEF half, new
<1>2. half = [id |-> k.id, op |-> k.op, month |-> k.month, cat |-> k.cat, from |-> k.from,
              amount |-> k.amount, read |-> TRUE, writes |-> k.writes]
  BY ReadSet DEF half
<1>3. half = RequestOf(half)
  BY <1>2 DEF RequestOf
<1>4. new = [id |-> half.id, op |-> half.op, month |-> half.month, cat |-> half.cat,
             from |-> half.from, amount |-> half.amount, read |-> half.read, writes |-> w]
  BY <1>1, <1>3, WritesSet
<1>5. new = [id |-> k.id, op |-> k.op, month |-> k.month, cat |-> k.cat, from |-> k.from,
             amount |-> k.amount, read |-> TRUE, writes |-> w]
  BY <1>2, <1>4
<1>. QED  BY <1>5 DEF new

\* What the server writes was in bounds when it read.
LEMMA WritesInBounds ==
    ASSUME BudgetInv, NEW k \in calls, ServerReads(k)
    PROVE  WritesFit(Writes(k), k.month, extra', taken') /\ Rises(extra, extra') /\ Rises(taken, taken')
<1>. DEFINE a == assigned
            m == k.month
<1>0. extra \in Tallies /\ taken \in Tallies /\ Rises(extra, extra) /\ Rises(taken, taken)
  BY TallySame DEF BudgetInv
<1>1. RequestFits(k, extra, taken) /\ Fits(a, extra, taken)
  BY DEF BudgetInv
<1>2. m \in BudgetMonths /\ k.op \in {"assign", "fund", "move"}
  BY <1>1 DEF RequestFits
<1>3. CASE k.op = "assign"
  <2>1. Writes(k) = [c \in {k.cat} |-> k.amount]
    BY <1>3 DEF Writes
  <2>2. k.cat \in Cats /\ Between(k.amount, m, k.cat, extra, taken)
    BY <1>1, <1>3 DEF RequestFits
  <2>3. extra' = extra /\ taken' = taken
    BY <1>3 DEF ServerReads
  <2>4. WritesFit(Writes(k), m, extra, taken)
    BY <2>1, <2>2 DEF WritesFit
  <2>. QED  BY <1>0, <2>3, <2>4
<1>4. CASE k.op = "fund"
  <2>. DEFINE some == {d \in Cats : FundPlan(a, m)[d] > 0}
  <2>1. Writes(k) = [c \in some |-> a[m][c] + FundPlan(a, m)[c]]
    BY <1>4 DEF Writes
  <2>2. extra' = extra /\ taken' = taken
    BY <1>4 DEF ServerReads
  <2>3. ASSUME NEW c \in Cats PROVE Between(a[m][c] + FundPlan(a, m)[c], m, c, extra, taken)
    <3>1. /\ Needed(a, m, c) \in Int /\ a[m][c] \in Int
          /\ a[m][c] + Needed(a, m, c) <= Cap(m, c, extra, taken)
      BY <1>0, <1>1, <1>2, NeededBounds
    <3>2. /\ FundPlan(a, m)[c] \in Int /\ FundPlan(a, m)[c] >= 0
          /\ FundPlan(a, m)[c] <= Needed(a, m, c)
      BY <1>0, <1>1, <1>2, PlanBounds
    <3>3. -taken[m][c] <= a[m][c] /\ taken[m][c] \in Nat
      BY <1>0, <1>1, <1>2 DEF Fits, Between, Tallies
    <3>4. Cap(m, c, extra, taken) \in Int
      BY <1>0, <1>2, CapTyped
    <3>. DEFINE plan == FundPlan(a, m)[c]
                need == Needed(a, m, c)
                cap == Cap(m, c, extra, taken)
                v == a[m][c]
    <3>5. /\ plan \in Int /\ plan >= 0 /\ plan <= need /\ need \in Int /\ v \in Int
          /\ v + need <= cap /\ cap \in Int /\ -taken[m][c] <= v
      BY <3>1, <3>2, <3>3, <3>4
    <3>6. v + plan \in Int /\ -taken[m][c] <= v + plan /\ v + plan <= cap
      <4>. HIDE DEF plan, need, cap, v
      <4>. QED  BY <3>3, <3>5
    <3>. QED  BY <3>6 DEF Between
  <2>. HIDE DEF some
  <2>4. some \subseteq Cats
    BY DEF some
  <2>5. WritesFit(Writes(k), m, extra, taken)
    BY <2>1, <2>3, <2>4 DEF WritesFit
  <2>. QED  BY <1>0, <2>2, <2>5
<1>5. CASE k.op = "move"
  <2>. DEFINE w == [c \in {k.cat, k.from} |->
                      IF c = k.cat THEN a[m][c] + k.amount ELSE a[m][c] - k.amount]
              n == k.amount
  <2>1. Writes(k) = w
    BY <1>5 DEF Writes
  <2>2. k.cat \in Cats /\ k.from \in Cats /\ n \in Nat
    BY <1>1, <1>5 DEF RequestFits
  <2>3. extra' = [extra EXCEPT ![m][k.cat] = @ + NonNegative(n)]
        /\ taken' = [taken EXCEPT ![m][k.from] = @ + NonNegative(n)]
    BY <1>5 DEF ServerReads, PutsOnTop, TakesAway
  <2>4. NonNegative(n) = n
    BY <2>2 DEF NonNegative, Larger
  <2>5. Rises(extra, extra') /\ Rises(taken, taken')
    <3>1. n \in Int
      BY <2>2
    <3>2. Rises(extra, extra')
      BY <1>0, <1>2, <2>2, <2>3, <3>1, TallyUp
    <3>3. Rises(taken, taken')
      BY <1>0, <1>2, <2>2, <2>3, <3>1, TallyUp
    <3>. QED  BY <3>2, <3>3
  <2>6. extra' \in Tallies /\ taken' \in Tallies
    BY <2>5 DEF Rises
  <2>7. extra'[m][k.cat] = extra[m][k.cat] + n /\ taken'[m][k.from] = taken[m][k.from] + n
    <3>. HIDE DEF n
    <3>1. extra' = [extra EXCEPT ![m][k.cat] = @ + n] /\ taken' = [taken EXCEPT ![m][k.from] = @ + n]
      BY <2>3, <2>4
    <3>. QED  BY <1>0, <1>2, <2>2, <3>1 DEF Tallies
  <2>8. ASSUME NEW c \in Cats
        PROVE  /\ a[m][c] \in Int /\ -taken[m][c] <= a[m][c] /\ a[m][c] <= Cap(m, c, extra, taken)
               /\ taken[m][c] \in Nat /\ extra[m][c] \in Nat
               /\ taken'[m][c] \in Nat /\ extra'[m][c] \in Nat /\ taken[m][c] <= taken'[m][c]
               /\ Cap(m, c, extra, taken) = Level(m, c) + extra[m][c] + Earlier(taken, m, c)
               /\ Cap(m, c, extra', taken') = Level(m, c) + extra'[m][c] + Earlier(taken', m, c)
               /\ Level(m, c) \in Int /\ Earlier(taken, m, c) \in Int /\ Earlier(taken', m, c) \in Int
    <3>1. a[m][c] \in Int /\ -taken[m][c] <= a[m][c] /\ a[m][c] <= Cap(m, c, extra, taken)
      BY <1>1, <1>2 DEF Fits, Between
    <3>2. taken[m][c] \in Nat /\ extra[m][c] \in Nat /\ taken'[m][c] \in Nat /\ extra'[m][c] \in Nat
      BY <1>0, <1>2, <2>6 DEF Tallies
    <3>3. taken[m][c] <= taken'[m][c]
      BY <1>2, <2>5 DEF Rises
    <3>4. /\ Cap(m, c, extra, taken) = Level(m, c) + extra[m][c] + Earlier(taken, m, c)
          /\ Earlier(taken, m, c) \in Int
      BY <1>0, <1>2, CapTyped
    <3>5. /\ Cap(m, c, extra', taken') = Level(m, c) + extra'[m][c] + Earlier(taken', m, c)
          /\ Earlier(taken', m, c) \in Int
      BY <1>2, <2>6, CapTyped
    <3>6. Level(m, c) \in Int
      BY <1>2, LevelTyped
    <3>. QED  BY <3>1, <3>2, <3>3, <3>4, <3>5, <3>6
  <2>9. ASSUME NEW c \in Cats PROVE Earlier(taken, m, c) = Earlier(taken', m, c)
    <3>1. ASSUME NEW j \in 1 .. m - 1 PROVE taken[j][c] = taken'[j][c]
      <4>1. j # m /\ j \in BudgetMonths
        BY <1>2, MonthsFinite
      <4>. QED  BY <1>0, <2>3, <4>1 DEF Tallies
    <3>2. [j \in 1 .. m - 1 |-> taken[j][c]] = [j \in 1 .. m - 1 |-> taken'[j][c]]
      BY <3>1
    <3>. QED  BY <3>2 DEF Earlier
  <2>10. Between(a[m][k.cat] + n, m, k.cat, extra', taken')
    <3>. HIDE DEF a, m, n
    <3>. QED  BY <2>2, <2>7, <2>8, <2>9 DEF Between
  <2>11. Between(a[m][k.from] - n, m, k.from, extra', taken')
    <3>1. extra[m][k.from] <= extra'[m][k.from]
      BY <1>2, <2>2, <2>5 DEF Rises
    <3>. HIDE DEF a, m, n
    <3>. QED  BY <2>2, <2>7, <2>8, <2>9, <3>1 DEF Between
  <2>12. WritesFit(w, m, extra', taken')
    <3>1. DOMAIN w = {k.cat, k.from}
      OBVIOUS
    <3>2. w[k.cat] = a[m][k.cat] + n /\ (k.from # k.cat => w[k.from] = a[m][k.from] - n)
      OBVIOUS
    <3>. HIDE DEF w, n
    <3>. QED  BY <2>2, <2>10, <2>11, <3>1, <3>2 DEF WritesFit
  <2>. QED  BY <2>1, <2>5, <2>12
<1>. QED  BY <1>2, <1>3, <1>4, <1>5

LEMMA ServerSteps ==
    ASSUME BudgetInv, NEW k \in calls, ServerReads(k) \/ ServerCommits(k) \/ ServerRefuses(k)
    PROVE  BudgetInv'
<1>0. extra \in Tallies /\ taken \in Tallies /\ Rises(extra, extra) /\ Rises(taken, taken)
  BY TallySame DEF BudgetInv
<1>1. DialogsOK /\ month \in BudgetMonths /\ RequestFits(k, extra, taken)
  BY DEF BudgetInv
<1>2. ASSUME Rises(extra, extra'), Rises(taken, taken'),
             UNCHANGED <<month, shownBudget, rowEdit, overspentOpen, presses>>, funding' \in BOOLEAN,
             UNCHANGED cover \/ cover' = NoCover,
             (\A r \in calls' : RequestFits(r, extra', taken')) /\ Fits(assigned', extra', taken')
      PROVE  BudgetInv'
  <2>2. /\ cover' = [cat |-> cover'.cat, from |-> cover'.from, amount |-> cover'.amount]
        /\ {cover'.cat, cover'.from} \subseteq Cats \cup {NoCat}
        /\ cover'.amount \in Int \cup {Blanked}
        /\ cover'.from # NoCat => cover'.cat # NoCat
        /\ cover'.cat # NoCat => overspentOpen'
    BY <1>1, <1>2 DEF DialogsOK, NoCover
  <2>3. {funding', overspentOpen'} \subseteq BOOLEAN /\ (overspentOpen' => overspentOpen)
    BY <1>1, <1>2 DEF DialogsOK
  <2>4. DialogsOK' /\ ShownFits(shownBudget, extra, taken)' /\ month' \in BudgetMonths
    BY <1>2, <2>2, <2>3, DialogKept
  <2>5. {extra', taken'} \subseteq Tallies
    BY <1>2 DEF Rises
  <2>6. presses' \in 0 .. MaxPresses
    BY <1>2 DEF BudgetInv
  <2>. QED  BY <1>2, <2>4, <2>5, <2>6 DEF BudgetInv
<1>3. CASE ServerReads(k)
  <2>. DEFINE new == [k EXCEPT !.read = TRUE, !.writes = Writes(k)]
  <2>1. WritesFit(Writes(k), k.month, extra', taken') /\ Rises(extra, extra') /\ Rises(taken, taken')
    BY <1>3, WritesInBounds
  <2>2. new = [id |-> k.id, op |-> k.op, month |-> k.month, cat |-> k.cat, from |-> k.from,
               amount |-> k.amount, read |-> TRUE, writes |-> Writes(k)]
    <3>1. k = RequestOf(k)
      BY <1>1 DEF RequestFits
    <3>. QED  BY <3>1, RequestRead
  <2>3. RequestFits(k, extra', taken')
    BY <1>1, <2>1, RequestKept
  <2>4. RequestFits(new, extra', taken')
    <3>1. /\ new.op = k.op /\ new.month = k.month /\ new.cat = k.cat /\ new.from = k.from
          /\ new.amount = k.amount /\ new.writes = Writes(k)
      BY <2>2
    <3>2. new = RequestOf(new)
      BY <2>2 DEF RequestOf
    <3>. HIDE DEF new
    <3>. QED  BY <2>1, <2>3, <3>1, <3>2 DEF RequestFits
  <2>5. calls' = (calls \ {k}) \cup {new}
    BY <1>3 DEF ServerReads
  <2>6. (\A r \in calls : RequestFits(r, extra', taken')) /\ Fits(assigned, extra', taken')
    BY <2>1, AllKept
  <2>7. UNCHANGED <<assigned, month, shownBudget, rowEdit, funding, overspentOpen, cover, presses>>
    BY <1>3 DEF ServerReads
  <2>8. funding' \in BOOLEAN
    BY <1>1, <2>7 DEF DialogsOK
  <2>. HIDE DEF new
  <2>9. \A r \in calls' : RequestFits(r, extra', taken')
    BY <2>4, <2>5, <2>6
  <2>10. Fits(assigned', extra', taken')
    BY <2>6, <2>7
  <2>. QED  BY <1>2, <2>1, <2>7, <2>8, <2>9, <2>10
<1>4. CASE ServerCommits(k)
  <2>1. /\ UNCHANGED <<month, shownBudget, rowEdit, overspentOpen, extra, taken, presses>>
        /\ funding' = (funding /\ k.op # "fund")
        /\ UNCHANGED cover \/ cover' = NoCover
        /\ calls' = calls \ {k}
    BY <1>4 DEF ServerCommits, Dialogs
  <2>2. Rises(extra, extra') /\ Rises(taken, taken')
    BY <1>0, <2>1
  <2>3. \A r \in calls' : RequestFits(r, extra', taken')
    BY <2>1 DEF BudgetInv
  <2>4. Fits(assigned', extra', taken')
    <3>. DEFINE w == k.writes
                sheet == [c \in Cats |-> IF c \in DOMAIN w THEN w[c] ELSE assigned[k.month][c]]
    <3>1. k.month \in BudgetMonths /\ WritesFit(w, k.month, extra, taken)
      BY <1>1 DEF RequestFits
    <3>2. assigned \in Sheets
          /\ \A m \in BudgetMonths, c \in Cats : Between(assigned[m][c], m, c, extra, taken)
      BY DEF BudgetInv, Fits
    <3>3. assigned' = [assigned EXCEPT ![k.month] = sheet]
      BY <1>4 DEF ServerCommits
    <3>4. \A c \in Cats : Between(sheet[c], k.month, c, extra, taken)
      BY <3>1, <3>2 DEF WritesFit
    <3>5. sheet \in [Cats -> Int]
      <4>1. \A c \in Cats : sheet[c] \in Int
        <5>. HIDE DEF sheet
        <5>. QED  BY <3>4 DEF Between
      <4>. QED  BY <4>1
    <3>. HIDE DEF sheet
    <3>6. assigned' \in Sheets
      BY <3>1, <3>2, <3>3, <3>5 DEF Sheets
    <3>7. \A m \in BudgetMonths : assigned'[m] = IF m = k.month THEN sheet ELSE assigned[m]
      BY <3>2, <3>3 DEF Sheets
    <3>8. \A m \in BudgetMonths, c \in Cats : Between(assigned'[m][c], m, c, extra, taken)
      BY <3>2, <3>4, <3>7
    <3>9. Fits(assigned', extra, taken)
      BY <3>6, <3>8 DEF Fits
    <3>. QED  BY <2>1, <3>9
  <2>5. funding' \in BOOLEAN
    BY <2>1
  <2>. QED  BY <1>2, <2>1, <2>2, <2>3, <2>4, <2>5
<1>5. CASE ServerRefuses(k)
  <2>1. UNCHANGED <<assigned, month, shownBudget, rowEdit, funding, overspentOpen, cover, extra, taken, presses>>
        /\ calls' = calls \ {k}
    BY <1>5 DEF ServerRefuses, PageUnchanged
  <2>2. Rises(extra, extra') /\ Rises(taken, taken')
    BY <1>0, <2>1
  <2>3. \A r \in calls' : RequestFits(r, extra', taken')
    BY <2>1 DEF BudgetInv
  <2>4. Fits(assigned', extra', taken') /\ funding' \in BOOLEAN
    BY <1>1, <2>1 DEF BudgetInv, DialogsOK
  <2>. QED  BY <1>2, <2>1, <2>2, <2>3, <2>4
<1>. QED  BY <1>3, <1>4, <1>5

LEMMA BudgetInitially == BudgetInit => BudgetInv
<1>. SUFFICES ASSUME BudgetInit PROVE BudgetInv
  OBVIOUS
<1>1. assigned \in Tallies /\ extra = assigned /\ taken = assigned /\ assigned \in Sheets
  BY DEF BudgetInit, Tallies, Sheets
<1>2. \A m \in BudgetMonths, c \in Cats : assigned[m][c] = 0
  BY DEF BudgetInit
<1>3. \A m \in BudgetMonths, c \in Cats : Between(assigned[m][c], m, c, extra, taken)
  <2>. SUFFICES ASSUME NEW m \in BudgetMonths, NEW c \in Cats
                PROVE  Between(assigned[m][c], m, c, extra, taken)
    OBVIOUS
  <2>1. Cap(m, c, extra, taken) \in Int /\ Cap(m, c, extra, taken) >= Level(m, c)
    BY <1>1, CapTyped
  <2>2. Level(m, c) \in Int /\ Level(m, c) >= 0
    BY LevelTyped
  <2>. QED  BY <1>1, <1>2, <2>1, <2>2 DEF Between
<1>4. Fits(assigned, extra, taken)
  BY <1>1, <1>3 DEF Fits
<1>5. ShownFits(shownBudget, extra, taken) /\ calls = {}
  BY DEF BudgetInit, ShownFits
<1>6. month \in BudgetMonths /\ presses \in 0 .. MaxPresses
  BY BudgetAssumption DEF BudgetInit, BudgetMonths
<1>7. DialogsOK
  BY DEF BudgetInit, DialogsOK, NoRowEdit, NoCover
<1>. QED  BY <1>1, <1>4, <1>5, <1>6, <1>7 DEF BudgetInv

LEMMA BudgetStep == BudgetInv /\ [BudgetNext]_budgetVars => BudgetInv'
<1>. SUFFICES ASSUME BudgetInv, [BudgetNext]_budgetVars PROVE BudgetInv'
  OBVIOUS
<1>1. CASE UNCHANGED budgetVars
  <2>1. UNCHANGED <<assigned, month, shownBudget, rowEdit, funding, overspentOpen,
                    cover, calls, extra, taken, presses>>
    BY <1>1 DEF budgetVars
  <2>2. DialogsOK'
    BY <2>1 DEF BudgetInv, DialogsOK, Shown
  <2>. QED  BY <2>1, <2>2 DEF BudgetInv
<1>2. CASE BudgetNext
  BY <1>2, PageSteps, SendingSteps, ServerSteps DEF BudgetNext
<1>. QED  BY <1>1, <1>2

LEMMA BudgetInvariant == BudgetSpec => []BudgetInv
<1>. QED  BY BudgetInitially, BudgetStep, PTL DEF BudgetSpec

\* The types of the budget page: its months, the dialogs' categories, the requests
\* in flight and what they will write are those of the page's scope.
THEOREM BudgetTypesHold == BudgetSpec => []BudgetTypeOK
<1>1. BudgetInv => BudgetTypeOK
  <2>. SUFFICES ASSUME BudgetInv PROVE BudgetTypeOK
    OBVIOUS
  <2>1. assigned \in [BudgetMonths -> [Cats -> Int]] /\ {extra, taken} \subseteq [BudgetMonths -> [Cats -> Nat]]
    BY DEF BudgetInv, Fits, Sheets, Tallies
  <2>2. \A m \in BudgetMonths : shownBudget[m] # NoData => shownBudget[m][m] \in [Cats -> Int]
    BY DEF BudgetInv, ShownFits, Fits, Sheets
  <2>3. \A k \in calls : k.month \in BudgetMonths /\ DOMAIN k.writes \subseteq Cats
    BY DEF BudgetInv, RequestFits, WritesFit
  <2>4. /\ rowEdit.cat \in Cats \cup {NoCat} /\ {cover.cat, cover.from} \subseteq Cats \cup {NoCat}
        /\ {funding, overspentOpen} \subseteq BOOLEAN
    BY DEF BudgetInv, DialogsOK
  <2>. QED  BY <2>1, <2>2, <2>3, <2>4 DEF BudgetTypeOK, BudgetInv
<1>. QED  BY <1>1, BudgetInvariant, PTL

\* No goal is funded beyond what it is for, for any goals, spending, income and
\* number of months: whatever the row's button, the fund-goals dialog and late
\* answers do together, a category has no more than its goal asks for once (a goal
\* by a date: than its whole amount) and what the user put on top of it or took out
\* of earlier months.
THEOREM GoalsAreNotOverfunded == BudgetSpec => []GoalsNotOverfunded
<1>1. BudgetInv => GoalsNotOverfunded
  <2>1. \A m \in BudgetMonths, c \in Cats : Limit(m, c) = Cap(m, c, extra, taken)
    BY DEF Limit, Cap
  <2>. QED  BY <2>1 DEF BudgetInv, Fits, Between, GoalsNotOverfunded
<1>. QED  BY <1>1, BudgetInvariant, PTL

-----------------------------------------------------------------------------
(***************************************************************************)
(* The insights page. First sums over the parts of a set.                  *)
(***************************************************************************)
LEMMA SumOfZeros ==
    ASSUME NEW S, IsFiniteSet(S), NEW f, \A x \in S : f[x] = 0
    PROVE  SumFunctionOnSet(f, S) = 0
<1>1. SumFunctionOnSet(f, S) \in Int
  BY SumTyped
<1>2. SumFunctionOnSet(f, S) = SumFunctionOnSet(f, S) + SumFunctionOnSet(f, S)
  BY SumAdds
<1>3. \A n \in Int : n = n + n => n = 0
  OBVIOUS
<1>. QED  BY <1>1, <1>2, <1>3

LEMMA SumWhere ==
    ASSUME NEW S, IsFiniteSet(S), NEW f, \A x \in S : f[x] \in Int, NEW R \in SUBSET S,
           \A x \in S \ R : f[x] = 0
    PROVE  SumFunctionOnSet(f, S) = SumFunctionOnSet(f, R)
<1>1. IsFiniteSet(R) /\ IsFiniteSet(S \ R)
  BY FS_Subset
<1>2. SumFunctionOnSet(f, S \ R) = 0
  BY <1>1, SumOfZeros
<1>3. SumFunctionOnSet(f, R) \in Int
  BY <1>1, SumTyped
<1>4. SumFunctionOnSet(f, S) = SumFunctionOnSet(f, R) + SumFunctionOnSet(f, S \ R)
  BY SumSplit
<1>. QED  BY <1>2, <1>3, <1>4

\* What is added up part by part is added up.
LEMMA SumOfParts ==
    ASSUME NEW S, IsFiniteSet(S), NEW f, \A x \in S : f[x] \in Int,
           NEW G, IsFiniteSet(G), NEW part, \A x \in S : part[x] \in G,
           NEW sums, \A g \in G : sums[g] = SumFunctionOnSet(f, {x \in S : part[x] = g})
    PROVE  SumFunctionOnSet(f, S) = SumFunctionOnSet(sums, G)
<1>. DEFINE In(H) == {x \in S : part[x] \in H}
            Q == {H \in SUBSET G : SumFunctionOnSet(f, In(H)) = SumFunctionOnSet(sums, H)}
<1>1. \A R \in SUBSET S : IsFiniteSet(R) /\ SumFunctionOnSet(f, R) \in Int
  BY FS_Subset, SumTyped
<1>2. \A g \in G : sums[g] \in Int
  BY <1>1
<1>3. ASSUME NEW H \in SUBSET G, \A y \in H : H \ {y} \in Q PROVE H \in Q
  <2>1. CASE H = {}
    <3>1. In(H) = {}
      BY <2>1
    <3>. QED  BY <2>1, <3>1, SumOfNothing
  <2>2. CASE H # {}
    <3>1. PICK y \in H : TRUE
      BY <2>2
    <3>. DEFINE here == {x \in S : part[x] = y}
    <3>2. SumFunctionOnSet(f, In(H \ {y})) = SumFunctionOnSet(sums, H \ {y})
      BY <1>3, <3>1
    <3>3. SumFunctionOnSet(sums, H) = sums[y] + SumFunctionOnSet(sums, H \ {y})
      BY <1>2, <3>1, SumStep
    <3>4. here \in SUBSET In(H) /\ In(H) \ here = In(H \ {y}) /\ In(H) \in SUBSET S
      BY <3>1
    <3>5. SumFunctionOnSet(f, In(H)) = SumFunctionOnSet(f, here) + SumFunctionOnSet(f, In(H) \ here)
      <4>1. IsFiniteSet(In(H)) /\ \A x \in In(H) : f[x] \in Int
        BY <1>1
      <4>. HIDE DEF In, here
      <4>. QED  BY <3>4, <4>1, SumSplit
    <3>6. sums[y] = SumFunctionOnSet(f, here)
      BY <3>1
    <3>. HIDE DEF In, here
    <3>. QED  BY <3>2, <3>3, <3>4, <3>5, <3>6 DEF Q
  <2>. QED  BY <2>1, <2>2
<1>4. Q = SUBSET G
  <2>. HIDE DEF Q
  <2>1. Q \in SUBSET (SUBSET G)
    BY DEF Q
  <2>. QED  BY <1>3, <2>1, SubsetInduction
<1>5. G \in Q /\ In(G) = S
  <2>1. G \in SUBSET G
    OBVIOUS
  <2>2. G \in Q
    <3>. HIDE DEF Q
    <3>. QED  BY <1>4, <2>1
  <2>. QED  BY <2>2
<1>. QED  BY <1>5

LEMMA MaxOf ==
    ASSUME NEW S \in SUBSET Int, IsFiniteSet(S), S # {}
    PROVE  Max(S) \in S /\ \A x \in S : x <= Max(S)
<1>. DEFINE Q == {A \in SUBSET S : A # {} => \E x \in A : \A y \in A : x >= y}
<1>1. ASSUME NEW A \in SUBSET S, \A x \in A : A \ {x} \in Q PROVE A \in Q
  <2>. SUFFICES ASSUME NEW y \in A PROVE \E x \in A : \A z \in A : x >= z
    OBVIOUS
  <2>1. CASE A \ {y} = {}
    BY <2>1
  <2>2. CASE A \ {y} # {}
    <3>1. PICK x \in A \ {y} : \A z \in A \ {y} : x >= z
      BY <1>1, <2>2
    <3>2. CASE x >= y
      BY <3>1, <3>2
    <3>3. CASE ~(x >= y)
      BY <3>1, <3>3
    <3>. QED  BY <3>2, <3>3
  <2>. QED  BY <2>1, <2>2
<1>2. Q \in SUBSET (SUBSET S)
  OBVIOUS
<1>3. Q = SUBSET S
  <2>. HIDE DEF Q
  <2>. QED  BY <1>1, <1>2, SubsetInduction
<1>4. S \in Q
  <2>1. S \in SUBSET S
    OBVIOUS
  <2>. HIDE DEF Q
  <2>. QED  BY <1>3, <2>1
<1>5. \E x \in S : \A y \in S : x >= y
  BY <1>4
<1>. QED  BY <1>5 DEF Max

-----------------------------------------------------------------------------
\* What was spent is added up from what each posting took.
Taken(p) == IF p.category # Uncategorized /\ p.amount < 0 THEN -p.amount ELSE 0
Takings == [p \in Postings |-> Taken(p)]

LEMMA TakingsTyped ==
    /\ IsFiniteSet(Postings)
    /\ \A p \in Postings : p.amount \in Int /\ Takings[p] \in Int /\ Takings[p] >= 0
BY InsightsAssumption DEF Takings, Taken

LEMMA OutflowIs ==
    ASSUME NEW rows \in SUBSET Postings
    PROVE  /\ Outflow(rows) = SumFunctionOnSet(Takings, rows)
           /\ Outflow(rows) \in Int /\ Outflow(rows) >= 0
<1>. DEFINE out == {p \in rows : p.category # Uncategorized /\ p.amount < 0}
            amounts == [p \in out |-> p.amount]
            both == [p \in out |-> 0]
<1>1. IsFiniteSet(rows) /\ IsFiniteSet(out)
  BY TakingsTyped, FS_Subset
<1>2. SumFunctionOnSet(Takings, rows) = SumFunctionOnSet(Takings, out)
  <2>1. \A p \in rows : Takings[p] \in Int
    BY TakingsTyped
  <2>2. \A p \in rows \ out : Takings[p] = 0
    BY DEF Takings, Taken
  <2>3. out \in SUBSET rows
    OBVIOUS
  <2>. HIDE DEF out
  <2>. QED  BY <1>1, <2>1, <2>2, <2>3, SumWhere
<1>3. \A p \in out : /\ amounts[p] \in Int /\ Takings[p] \in Int
                      /\ both[p] = amounts[p] + Takings[p]
  BY TakingsTyped DEF Takings, Taken
<1>4. /\ SumFunctionOnSet(amounts, out) \in Int /\ SumFunctionOnSet(Takings, out) \in Int
      /\ SumFunctionOnSet(both, out) = SumFunctionOnSet(amounts, out) + SumFunctionOnSet(Takings, out)
  <2>. HIDE DEF out, amounts, both
  <2>1. SumFunctionOnSet(amounts, out) \in Int
    BY <1>1, <1>3, SumTyped
  <2>2. SumFunctionOnSet(Takings, out) \in Int
    BY <1>1, <1>3, SumTyped
  <2>3. SumFunctionOnSet(both, out) = SumFunctionOnSet(amounts, out) + SumFunctionOnSet(Takings, out)
    BY <1>1, <1>3, SumAdds
  <2>. QED  BY <2>1, <2>2, <2>3
<1>5. SumFunctionOnSet(both, out) = 0
  <2>1. \A p \in out : both[p] = 0
    OBVIOUS
  <2>. HIDE DEF out, both
  <2>. QED  BY <1>1, <2>1, SumOfZeros
<1>6. Outflow(rows) = -SumFunctionOnSet(amounts, out)
  <2>1. SumFunction(amounts) = SumFunctionOnSet(amounts, out)
    BY SumFunctionIs
  <2>. QED  BY <2>1 DEF Outflow, Sums
<1>7. SumFunctionOnSet(Takings, rows) >= 0
  <2>1. \A p \in rows : Takings[p] \in Int /\ Takings[p] >= 0
    BY TakingsTyped
  <2>. QED  BY <1>1, <2>1, SumPositive
<1>. HIDE DEF out, amounts, both
<1>. QED  BY <1>2, <1>4, <1>5, <1>6, <1>7

LEMMA IncomeTyped ==
    ASSUME NEW rows \in SUBSET Postings
    PROVE  IncomeOf(rows) \in Int /\ IncomeOf(rows) >= 0
<1>. DEFINE earned == {p \in rows : IsIncome(p)}
            amounts == [p \in earned |-> p.amount]
<1>1. IsFiniteSet(earned)
  <2>1. earned \in SUBSET Postings
    OBVIOUS
  <2>. QED  BY <2>1, TakingsTyped, FS_Subset
<1>2. \A p \in earned : amounts[p] \in Int /\ amounts[p] >= 0
  BY TakingsTyped DEF IsIncome
<1>3. IncomeOf(rows) = SumFunctionOnSet(amounts, earned)
  <2>1. SumFunction(amounts) = SumFunctionOnSet(amounts, earned)
    BY SumFunctionIs
  <2>. QED  BY <2>1 DEF IncomeOf, Sums
<1>. HIDE DEF earned, amounts
<1>4. SumFunctionOnSet(amounts, earned) \in Int
  BY <1>1, <1>2, SumTyped
<1>5. SumFunctionOnSet(amounts, earned) >= 0
  BY <1>1, <1>2, SumPositive
<1>. QED  BY <1>3, <1>4, <1>5

LEMMA SegmentsFill ==
    ASSUME NEW G, IsFiniteSet(G), NEW spent, DOMAIN spent = G,
           \A g \in G : spent[g] \in Int /\ spent[g] >= 0,
           NEW total, total = SumFunctionOnSet(spent, G)
    PROVE  SumFunction(Segments(total, spent)) = total
<1>. DEFINE shown == {g \in G : total > 0 /\ spent[g] > 0}
            bars == [g \in shown |-> spent[g]]
<1>1. total \in Int /\ total >= 0
  BY SumTyped, SumPositive
<1>2. IsFiniteSet(shown)
  BY FS_Subset
<1>3. SumFunction(Segments(total, spent)) = SumFunctionOnSet(bars, shown)
  <2>1. Segments(total, spent) = bars
    BY DEF Segments
  <2>2. DOMAIN bars = shown
    OBVIOUS
  <2>. QED  BY <2>1, <2>2, SumFunctionIs
<1>4. CASE total = 0
  <2>1. shown = {}
    BY <1>4
  <2>. QED  BY <1>3, <1>4, <2>1, SumOfNothing
<1>5. CASE total > 0
  <2>1. /\ \A g \in shown : spent[g] \in Int /\ bars[g] = spent[g]
        /\ \A g \in G \ shown : spent[g] = 0
        /\ shown \in SUBSET G
    BY <1>5
  <2>. HIDE DEF shown, bars
  <2>2. SumFunctionOnSet(spent, shown) = SumFunctionOnSet(bars, shown)
    BY <1>2, <2>1, SumSame
  <2>3. SumFunctionOnSet(spent, G) = SumFunctionOnSet(spent, shown)
    BY <2>1, SumWhere
  <2>. QED  BY <1>3, <2>2, <2>3
<1>. QED  BY <1>1, <1>4, <1>5

LEMMA GroupsFill ==
    ASSUME NEW range, NEW s
    PROVE  SumFunction(GroupSegments(range, s)) = Outflow(InScope(range, s))
<1>. DEFINE rows == {p \in InScope(range, s) : p.category # Uncategorized}
            G == GroupsIn(s)
            part == [p \in rows |-> GroupOf[p.category]]
            spent == [g \in G |-> Outflow(InGroup(range, s, g))]
<1>1. InScope(range, s) \in SUBSET Postings /\ rows \in SUBSET Postings
  BY DEF InScope, InRange
<1>2. IsFiniteSet(rows) /\ \A p \in rows : Takings[p] \in Int
  BY <1>1, TakingsTyped, FS_Subset
<1>3. IsFiniteSet(G)
  BY InsightsAssumption, FS_Subset DEF GroupsIn
<1>4. \A p \in rows : part[p] \in G
  <2>. SUFFICES ASSUME NEW p \in rows PROVE GroupOf[p.category] \in G
    OBVIOUS
  <2>1. p.category \in DOMAIN GroupOf
    BY <1>1, InsightsAssumption
  <2>2. GroupOf[p.category] \in DOMAIN ScopeOfGroup
    BY <2>1, InsightsAssumption
  <2>3. ScopeOfGroup[GroupOf[p.category]] = s
    BY DEF InScope, ScopeIdOf
  <2>. QED  BY <2>2, <2>3 DEF GroupsIn
<1>5. \A g \in G : /\ InGroup(range, s, g) = {p \in rows : part[p] = g}
                    /\ InGroup(range, s, g) \in SUBSET Postings
  BY <1>1 DEF InGroup
<1>6. \A g \in G : /\ spent[g] = SumFunctionOnSet(Takings, {p \in rows : part[p] = g})
                    /\ spent[g] \in Int /\ spent[g] >= 0
  BY <1>5, OutflowIs
<1>7. Outflow(InScope(range, s)) = SumFunctionOnSet(spent, G)
  <2>1. Outflow(InScope(range, s)) = Outflow(rows)
    <3>1. {p \in InScope(range, s) : p.category # Uncategorized /\ p.amount < 0}
            = {p \in rows : p.category # Uncategorized /\ p.amount < 0}
      OBVIOUS
    <3>. QED  BY <3>1 DEF Outflow
  <2>2. Outflow(rows) = SumFunctionOnSet(Takings, rows)
    BY <1>1, OutflowIs
  <2>3. SumFunctionOnSet(Takings, rows) = SumFunctionOnSet(spent, G)
    <3>. HIDE DEF rows, G, part, spent
    <3>. QED  BY <1>2, <1>3, <1>4, <1>6, SumOfParts
  <2>. QED  BY <2>1, <2>2, <2>3
<1>8. DOMAIN spent = G /\ GroupSegments(range, s) = Segments(Outflow(InScope(range, s)), spent)
  BY DEF GroupSegments
<1>. HIDE DEF rows, G, part, spent
<1>9. \A g \in G : spent[g] \in Int /\ spent[g] >= 0
  BY <1>6
<1>10. SumFunction(Segments(SumFunctionOnSet(spent, G), spent)) = SumFunctionOnSet(spent, G)
  BY <1>3, <1>8, <1>9, SegmentsFill
<1>. QED  BY <1>7, <1>8, <1>10

LEMMA ScopesFill ==
    ASSUME NEW range
    PROVE  SumFunction(SplitSegments(range)) = Outflow(InRange(range))
<1>. DEFINE rows == InRange(range)
            part == [p \in rows |-> ScopeIdOf(p)]
            spent == [s \in Scopes |-> Outflow(InScope(range, s))]
<1>1. rows \in SUBSET Postings
  BY DEF InRange
<1>2. IsFiniteSet(rows) /\ \A p \in rows : Takings[p] \in Int
  BY <1>1, TakingsTyped, FS_Subset
<1>3. IsFiniteSet(Scopes)
  BY InsightsAssumption
<1>4. \A p \in rows : part[p] \in Scopes
  <2>. SUFFICES ASSUME NEW p \in rows PROVE ScopeIdOf(p) \in Scopes
    OBVIOUS
  <2>1. CASE p.category = Uncategorized
    BY <1>1, <2>1, InsightsAssumption DEF ScopeIdOf
  <2>2. CASE p.category # Uncategorized
    <3>1. p.category \in DOMAIN GroupOf
      BY <1>1, <2>2, InsightsAssumption
    <3>2. GroupOf[p.category] \in DOMAIN ScopeOfGroup
      BY <3>1, InsightsAssumption
    <3>. QED  BY <2>2, <3>2, InsightsAssumption DEF ScopeIdOf
  <2>. QED  BY <2>1, <2>2
<1>5. \A s \in Scopes : /\ InScope(range, s) = {p \in rows : part[p] = s}
                         /\ InScope(range, s) \in SUBSET Postings
  BY <1>1 DEF InScope
<1>6. \A s \in Scopes : /\ spent[s] = SumFunctionOnSet(Takings, {p \in rows : part[p] = s})
                         /\ spent[s] \in Int /\ spent[s] >= 0
  BY <1>5, OutflowIs
<1>7. Outflow(InRange(range)) = SumFunctionOnSet(spent, Scopes)
  <2>1. Outflow(rows) = SumFunctionOnSet(Takings, rows)
    BY <1>1, OutflowIs
  <2>2. SumFunctionOnSet(Takings, rows) = SumFunctionOnSet(spent, Scopes)
    <3>. HIDE DEF rows, part, spent
    <3>. QED  BY <1>2, <1>3, <1>4, <1>6, SumOfParts
  <2>. QED  BY <2>1, <2>2
<1>8. DOMAIN spent = Scopes /\ SplitSegments(range) = Segments(Outflow(InRange(range)), spent)
  BY DEF SplitSegments
<1>. HIDE DEF rows, part, spent
<1>9. \A g \in Scopes : spent[g] \in Int /\ spent[g] >= 0
  BY <1>6
<1>10. SumFunction(Segments(SumFunctionOnSet(spent, Scopes), spent)) = SumFunctionOnSet(spent, Scopes)
  BY <1>3, <1>8, <1>9, SegmentsFill
<1>. QED  BY <1>7, <1>8, <1>10

MonthRanges == YearMonths \X YearMonths

\* Carrying into the year loses no month.
LEMMA MonthsShift ==
    ASSUME NEW when \in YearMonths, NEW delta \in Int
    PROVE  /\ shiftMonth(when, delta) \in YearMonths
           /\ Index(shiftMonth(when, delta)) = Index(when) + delta
<1>. DEFINE index == 12 * when[1] + when[2] - 1 + delta
<1>1. when[1] \in Int /\ when[2] \in Int /\ index \in Int
  BY DEF YearMonths
<1>2. /\ index \div 12 \in Int /\ index % 12 \in 0 .. 11
      /\ index = 12 * (index \div 12) + (index % 12)
  <2>. HIDE DEF index
  <2>. QED  BY <1>1
<1>3. shiftMonth(when, delta) = <<index \div 12, (index % 12) + 1>>
  BY DEF shiftMonth
<1>4. Index(shiftMonth(when, delta)) = index
  <2>. HIDE DEF index
  <2>. QED  BY <1>1, <1>2, <1>3 DEF Index
<1>5. shiftMonth(when, delta) \in YearMonths
  <2>. HIDE DEF index
  <2>. QED  BY <1>2, <1>3 DEF YearMonths
<1>. QED  BY <1>4, <1>5 DEF Index

LEMMA RangeResolves ==
    ASSUME NEW p \in Presets, NEW when \in YearMonths
    PROVE  /\ resolveRange(p, when) \in MonthRanges
           /\ resolveRange(p, when)[2] = when
           /\ MonthCount(resolveRange(p, when)) = monthsInPreset(p, when)
<1>. DEFINE n == monthsInPreset(p, when)
<1>1. n \in Int
  BY InsightsAssumption DEF monthsInPreset, YearMonths
<1>2. Index(when) \in Int
  BY DEF Index, YearMonths
<1>. HIDE DEF n
<1>3. -(n - 1) \in Int
  BY <1>1
<1>4. /\ shiftMonth(when, -(n - 1)) \in YearMonths
      /\ Index(shiftMonth(when, -(n - 1))) = Index(when) - (n - 1)
  BY <1>1, <1>2, <1>3, MonthsShift
<1>5. resolveRange(p, when) = <<shiftMonth(when, -(n - 1)), when>>
  BY DEF resolveRange, n
<1>. QED  BY <1>1, <1>2, <1>4, <1>5 DEF MonthRanges, MonthCount, n

LEMMA UnionIsFinite ==
    ASSUME NEW S, IsFiniteSet(S), NEW f, \A x \in S : IsFiniteSet(f[x])
    PROVE  IsFiniteSet(UNION {f[x] : x \in S})
<1>. DEFINE sets == {f[x] : x \in S}
            g == [x \in S |-> f[x]]
<1>1. g \in Surjection(S, sets)
  BY DEF Surjection
<1>2. \A q \in sets : IsFiniteSet(q)
  OBVIOUS
<1>. HIDE DEF sets, g
<1>3. IsFiniteSet(sets)
  BY <1>1, FS_Surjection
<1>4. IsFiniteSet(UNION sets)
  BY <1>2, <1>3, FS_UNION
<1>. QED  BY <1>4 DEF sets

LEMMA BarsFit ==
    ASSUME NEW range \in MonthRanges, NEW s \in Scopes
    PROVE  \A bar \in FlowBars(range, s) : bar \in 0 .. AxisMax(range)
<1>. DEFINE months == Index(range[1]) .. Index(range[2])
            pair(sc, i) == {IncomeOf(InMonth(range, sc, i)), Outflow(InMonth(range, sc, i))}
            all == {1} \cup UNION {FlowBars(range, sc) : sc \in Scopes}
<1>1. IsFiniteSet(months)
  <2>1. Index(range[1]) \in Int /\ Index(range[2]) \in Int
    BY DEF MonthRanges, YearMonths, Index
  <2>. QED  BY <2>1, FS_Interval
<1>2. ASSUME NEW sc \in Scopes PROVE IsFiniteSet(FlowBars(range, sc)) /\ FlowBars(range, sc) \in SUBSET Nat
  <2>1. ASSUME NEW i \in months PROVE IsFiniteSet(pair(sc, i)) /\ pair(sc, i) \in SUBSET Nat
    <3>1. InMonth(range, sc, i) \in SUBSET Postings
      BY DEF InMonth, InScope, InRange
    <3>2. IncomeOf(InMonth(range, sc, i)) \in Nat /\ Outflow(InMonth(range, sc, i)) \in Nat
      BY <3>1, IncomeTyped, OutflowIs
    <3>3. IsFiniteSet({IncomeOf(InMonth(range, sc, i))})
      BY FS_Singleton
    <3>4. pair(sc, i) = {IncomeOf(InMonth(range, sc, i))} \cup {Outflow(InMonth(range, sc, i))}
      OBVIOUS
    <3>5. IsFiniteSet(pair(sc, i))
      BY <3>3, <3>4, FS_AddElement
    <3>. QED  BY <3>2, <3>5
  <2>. DEFINE f == [i \in months |-> pair(sc, i)]
              pairs == {f[i] : i \in months}
  <2>2. \A i \in months : IsFiniteSet(f[i]) /\ f[i] \in SUBSET Nat
    BY <2>1
  <2>4. IsFiniteSet(UNION pairs) /\ UNION pairs \in SUBSET Nat
    <3>. HIDE DEF f, months, pair
    <3>. QED  BY <1>1, <2>2, UnionIsFinite
  <2>5. FlowBars(range, sc) \in {{}, UNION pairs}
    BY DEF FlowBars
  <2>. HIDE DEF pairs
  <2>. QED  BY <2>4, <2>5, FS_EmptySet
<1>3. IsFiniteSet(all) /\ all \in SUBSET Nat /\ all # {}
  <2>. DEFINE f == [sc \in Scopes |-> FlowBars(range, sc)]
              bars == {f[sc] : sc \in Scopes}
  <2>1. \A sc \in Scopes : IsFiniteSet(f[sc]) /\ f[sc] \in SUBSET Nat
    BY <1>2
  <2>3. IsFiniteSet(UNION bars) /\ UNION bars \in SUBSET Nat
    <3>. HIDE DEF f
    <3>. QED  BY <2>1, InsightsAssumption, UnionIsFinite
  <2>4. all = (UNION bars) \cup {1}
    OBVIOUS
  <2>. HIDE DEF bars, all
  <2>5. IsFiniteSet(all)
    BY <2>3, <2>4, FS_AddElement
  <2>. QED  BY <2>3, <2>4, <2>5
<1>4. all \in SUBSET Int
  BY <1>3
<1>5. Max(all) \in all /\ \A x \in all : x <= Max(all)
  <2>. HIDE DEF all
  <2>. QED  BY <1>3, <1>4, MaxOf
<1>6. AxisMax(range) = Max(all)
  BY DEF AxisMax
<1>7. FlowBars(range, s) \subseteq all
  OBVIOUS
<1>. HIDE DEF all
<1>8. AxisMax(range) \in Nat /\ \A x \in all : x \in Nat /\ x <= AxisMax(range)
  BY <1>3, <1>5, <1>6
<1>. QED
  <2>. SUFFICES ASSUME NEW bar \in FlowBars(range, s) PROVE bar \in 0 .. AxisMax(range)
    OBVIOUS
  <2>1. bar \in all
    BY <1>7
  <2>2. bar \in Nat /\ bar <= AxisMax(range) /\ AxisMax(range) \in Nat
    BY <1>8, <2>1
  <2>. QED  BY <2>2

(***************************************************************************)
(* The range chosen is always one the page has the figures of, or is being *)
(* fetched, or was refused: what it shows without them can only be what it *)
(* showed before, while it waits.                                          *)
(***************************************************************************)
InsightsInv == InsightsTypeOK /\ Chosen \in rangesHere \cup asking \cup refused

LEMMA InsightsInitially == InsightsInit => InsightsInv
<1>. SUFFICES ASSUME InsightsInit PROVE InsightsInv
  OBVIOUS
<1>1. "1M" \in Presets /\ CurrentMonth \in YearMonths /\ MaxTurns \in Nat
  BY InsightsAssumption
<1>2. resolveRange("1M", CurrentMonth) \in MonthRanges
  BY <1>1, RangeResolves
<1>3. Chosen = resolveRange("1M", CurrentMonth)
  BY DEF Chosen, InsightsInit
<1>. HIDE DEF Chosen
<1>. QED  BY <1>1, <1>2, <1>3 DEF InsightsInit, InsightsInv, InsightsTypeOK, MonthRanges

LEMMA TurnedHolds ==
    ASSUME InsightsInv, NEW p \in Presets, NEW when \in YearMonths, Turned(p, when)
    PROVE  InsightsInv'
<1>. DEFINE range == resolveRange(p, when)
<1>1. range \in MonthRanges
  BY RangeResolves
<1>2. Chosen' = range
  BY DEF Chosen, Turned
<1>3. /\ turns < MaxTurns /\ turns' = turns + 1 /\ preset' = p /\ anchor' = when
      /\ asking' = IF range \in rangesHere THEN asking ELSE asking \cup {range}
      /\ refused' = refused \ {range}
      /\ lastShown' = IF range \in rangesHere THEN range ELSE lastShown
      /\ rangesHere' = rangesHere
  BY DEF Turned
<1>4. MaxTurns \in Nat
  BY InsightsAssumption
<1>. HIDE DEF range
<1>5. InsightsTypeOK'
  BY <1>1, <1>3, <1>4 DEF InsightsInv, InsightsTypeOK, MonthRanges
<1>6. Chosen' \in rangesHere' \cup asking' \cup refused'
  BY <1>2, <1>3
<1>. QED  BY <1>5, <1>6 DEF InsightsInv

LEMMA InsightsStep == InsightsInv /\ [InsightsNext]_insightsVars => InsightsInv'
<1>. SUFFICES ASSUME InsightsInv, [InsightsNext]_insightsVars PROVE InsightsInv'
  OBVIOUS
<1>0. preset \in Presets /\ anchor \in YearMonths
  BY DEF InsightsInv, InsightsTypeOK
<1>1. ASSUME NEW p \in Presets, PickPreset(p) PROVE InsightsInv'
  BY <1>0, <1>1, TurnedHolds DEF PickPreset
<1>2. ASSUME NEW delta \in {-1, 1}, Step(delta) PROVE InsightsInv'
  <2>1. shiftMonth(anchor, delta) \in YearMonths
    BY <1>0, MonthsShift
  <2>. QED  BY <1>0, <1>2, <2>1, TurnedHolds DEF Step
<1>3. ASSUME NEW range \in asking, FiguresArrive(range) PROVE InsightsInv'
  <2>1. Chosen' = Chosen
    BY <1>3 DEF FiguresArrive, Chosen
  <2>. QED  BY <1>3, <2>1 DEF FiguresArrive, InsightsInv, InsightsTypeOK
<1>4. ASSUME NEW range \in asking, FiguresFail(range) PROVE InsightsInv'
  <2>1. Chosen' = Chosen
    BY <1>4 DEF FiguresFail, Chosen
  <2>. QED  BY <1>4, <2>1 DEF FiguresFail, InsightsInv, InsightsTypeOK
<1>5. CASE UNCHANGED insightsVars
  <2>1. Chosen' = Chosen
    BY <1>5 DEF insightsVars, Chosen
  <2>. QED  BY <1>5, <2>1 DEF insightsVars, InsightsInv, InsightsTypeOK
<1>. QED  BY <1>1, <1>2, <1>3, <1>4, <1>5 DEF InsightsNext

LEMMA FiguresFill == InsightsInv => BarsFillTheirWhole
<1>. SUFFICES ASSUME InsightsInv, ShownRange # NoRange PROVE
        /\ Chosen \notin asking =>
            /\ MonthCount(ShownRange) = monthsInPreset(preset, anchor)
            /\ ShownRange[2] = anchor
        /\ \A s \in Scopes :
            /\ SumFunction(GroupSegments(ShownRange, s)) = Outflow(InScope(ShownRange, s))
            /\ \A bar \in FlowBars(ShownRange, s) : bar \in 0 .. AxisMax(ShownRange)
        /\ SumFunction(SplitSegments(ShownRange)) = Outflow(InRange(ShownRange))
  BY DEF BarsFillTheirWhole
<1>1. ShownRange \in rangesHere /\ rangesHere \subseteq MonthRanges
  BY DEF InsightsInv, InsightsTypeOK, ShownRange, MonthRanges
<1>2. Chosen \notin asking => ShownRange = resolveRange(preset, anchor)
  <2>1. Chosen \notin asking => ShownRange = Chosen
    BY DEF InsightsInv, ShownRange
  <2>. QED  BY <2>1 DEF Chosen
<1>3. preset \in Presets /\ anchor \in YearMonths
  BY DEF InsightsInv, InsightsTypeOK
<1>. QED  BY <1>1, <1>2, <1>3, RangeResolves, GroupsFill, ScopesFill, BarsFit

(* The insights page keeps its types, and the figures shown are always     *)
(* those of a range that was fetched (InsightsPage: insightsQuery).        *)
THEOREM InsightsTypesHold == InsightsSpec => []InsightsTypeOK
<1>1. InsightsInv => InsightsTypeOK
  BY DEF InsightsInv
<1>. QED  BY <1>1, InsightsInitially, InsightsStep, PTL DEF InsightsSpec

(* Whatever postings there are, refunds, unassigned money and accounts of  *)
(* another scope among them: the parts of every bar add up to its whole,   *)
(* every monthly bar fits the common axis, and once the figures are there  *)
(* they are of the months that the preset and the arrows say               *)
(* (insights_calc.py: compute_spending_breakdown, InsightsPage.tsx).       *)
THEOREM BarsAreFilled == InsightsSpec => []BarsFillTheirWhole
<1>. QED  BY InsightsInitially, InsightsStep, FiguresFill, PTL DEF InsightsSpec

-----------------------------------------------------------------------------
(***************************************************************************)
(* The categories page. A finite set of ids has one sequence in the order  *)
(* of the server.                                                          *)
(***************************************************************************)
Ids == GroupIds \cup CategoryIds

LEMMA LastOf ==
    ASSUME sortOrder \in [Ids -> Nat], NEW S \in SUBSET Ids, IsFiniteSet(S), S # {}
    PROVE  \E x \in S : \A y \in S \ {x} : Before(y, x)
<1>. DEFINE Q == {A \in SUBSET S : A # {} => \E x \in A : \A y \in A \ {x} : Before(y, x)}
<1>0. \A x \in S : x \in Nat /\ sortOrder[x] \in Nat
  BY CategoriesAssumption DEF Ids
<1>1. ASSUME NEW A \in SUBSET S, \A x \in A : A \ {x} \in Q PROVE A \in Q
  <2>. SUFFICES ASSUME NEW y \in A PROVE \E x \in A : \A z \in A \ {x} : Before(z, x)
    OBVIOUS
  <2>1. CASE A \ {y} = {}
    BY <2>1
  <2>2. CASE A \ {y} # {}
    <3>1. PICK x \in A \ {y} : \A z \in (A \ {y}) \ {x} : Before(z, x)
      BY <1>1, <2>2
    <3>2. CASE Before(y, x)
      BY <3>1, <3>2
    <3>3. CASE ~Before(y, x)
      <4>1. Before(x, y)
        BY <1>0, <3>1, <3>3 DEF Before
      <4>2. ASSUME NEW z \in A \ {y} PROVE Before(z, y)
        <5>1. z = x \/ Before(z, x)
          BY <3>1
        <5>. QED  BY <1>0, <4>1, <5>1 DEF Before
      <4>. QED  BY <4>2
    <3>. QED  BY <3>2, <3>3
  <2>. QED  BY <2>1, <2>2
<1>2. Q \in SUBSET (SUBSET S)
  OBVIOUS
<1>3. Q = SUBSET S
  <2>. HIDE DEF Q
  <2>. QED  BY <1>1, <1>2, SubsetInduction
<1>4. S \in Q
  <2>1. S \in SUBSET S
    OBVIOUS
  <2>. HIDE DEF Q
  <2>. QED  BY <1>3, <2>1
<1>. QED  BY <1>4

LEMMA OrderExists ==
    ASSUME sortOrder \in [Ids -> Nat], NEW S \in SUBSET Ids, IsFiniteSet(S)
    PROVE  \E s \in [1 .. Cardinality(S) -> S] : Sorted(s)
<1>. DEFINE Q == {A \in SUBSET S : \E s \in [1 .. Cardinality(A) -> A] : Sorted(s)}
<1>1. ASSUME NEW A \in SUBSET S, \A x \in A : A \ {x} \in Q PROVE A \in Q
  <2>1. IsFiniteSet(A) /\ Cardinality(A) \in Nat
    BY FS_Subset, FS_CardinalityType
  <2>2. CASE A = {}
    <3>1. Cardinality(A) = 0
      BY <2>2, FS_EmptySet
    <3>. DEFINE s == [k \in 1 .. Cardinality(A) |-> k]
    <3>2. s \in [1 .. Cardinality(A) -> A] /\ Sorted(s)
      BY <3>1 DEF Sorted
    <3>. QED  BY <3>2
  <2>3. CASE A # {}
    <3>1. PICK m \in A : \A y \in A \ {m} : Before(y, m)
      BY <2>1, <2>3, LastOf
    <3>2. PICK t \in [1 .. Cardinality(A \ {m}) -> A \ {m}] : Sorted(t)
      BY <1>1, <3>1
    <3>3. Cardinality(A \ {m}) = Cardinality(A) - 1
      BY <2>1, <3>1, FS_RemoveElement
    <3>. DEFINE n == Cardinality(A)
                s == [k \in 1 .. n |-> IF k = n THEN m ELSE t[k]]
    <3>. HIDE DEF n
    <3>4. n \in Nat /\ t \in [1 .. n - 1 -> A \ {m}]
      BY <2>1, <3>2, <3>3 DEF n
    <3>5. \A k \in 1 .. n : /\ (k = n => s[k] = m)
                             /\ (k # n => k \in 1 .. n - 1 /\ s[k] = t[k] /\ s[k] \in A \ {m})
      <4>1. ASSUME NEW k \in 1 .. n PROVE s[k] = IF k = n THEN m ELSE t[k]
        OBVIOUS
      <4>2. ASSUME NEW k \in 1 .. n, k # n PROVE k \in 1 .. n - 1
        BY <3>4, <4>2
      <4>3. ASSUME NEW k \in 1 .. n - 1 PROVE t[k] \in A \ {m}
        BY <3>4
      <4>. HIDE DEF s
      <4>. QED  BY <4>1, <4>2, <4>3
    <3>6. s \in [1 .. n -> A]
      BY <3>1, <3>5
    <3>7. ASSUME NEW i \in 1 .. n, NEW j \in 1 .. n, i < j PROVE Before(s[i], s[j])
      <4>1. i # n /\ i \in 1 .. n - 1
        BY <3>4, <3>7
      <4>2. CASE j = n
        BY <3>1, <3>5, <4>1, <4>2
      <4>3. CASE j # n
        <5>1. j \in 1 .. n - 1 /\ s[j] = t[j] /\ s[i] = t[i]
          BY <3>5, <4>1, <4>3
        <5>. QED  BY <3>2, <3>4, <3>7, <4>1, <5>1 DEF Sorted
      <4>. QED  BY <4>2, <4>3
    <3>8. DOMAIN s = 1 .. n
      OBVIOUS
    <3>. HIDE DEF s
    <3>9. Sorted(s)
      BY <3>7, <3>8 DEF Sorted
    <3>. QED  BY <3>6, <3>9 DEF n
  <2>. QED  BY <2>2, <2>3
<1>2. Q \in SUBSET (SUBSET S)
  OBVIOUS
<1>3. Q = SUBSET S
  <2>. HIDE DEF Q
  <2>. QED  BY <1>1, <1>2, SubsetInduction
<1>4. S \in Q
  <2>1. S \in SUBSET S
    OBVIOUS
  <2>. HIDE DEF Q
  <2>. QED  BY <1>3, <2>1
<1>. QED  BY <1>4

\* A list of the page: no item is in it twice.
IsList(s, T) == s \in Seq(T) /\ IsInjective(s)

LEMMA OrderIs ==
    ASSUME sortOrder \in [Ids -> Nat], NEW S \in SUBSET Ids, IsFiniteSet(S)
    PROVE  /\ InOrder(S) \in [1 .. Cardinality(S) -> S] /\ Sorted(InOrder(S))
           /\ Cardinality(S) \in Nat /\ IsList(InOrder(S), S)
<1>1. InOrder(S) \in [1 .. Cardinality(S) -> S] /\ Sorted(InOrder(S))
  BY OrderExists DEF InOrder
<1>2. Cardinality(S) \in Nat
  BY FS_CardinalityType
<1>. DEFINE s == InOrder(S)
<1>. HIDE DEF s
<1>3. s \in Seq(S)
  <2>1. \E n \in Nat : s \in [1 .. n -> S]
    BY <1>1, <1>2 DEF s
  <2>. QED  BY <2>1, SeqDef
<1>4. ASSUME NEW i \in DOMAIN s, NEW j \in DOMAIN s, s[i] = s[j] PROVE i = j
  <2>1. i \in 1 .. Cardinality(S) /\ j \in 1 .. Cardinality(S) /\ s[i] \in S
    BY <1>1 DEF s
  <2>2. s[i] \in Nat /\ sortOrder[s[i]] \in Nat
    BY <2>1, CategoriesAssumption DEF Ids
  <2>3. ~Before(s[i], s[j]) /\ ~Before(s[j], s[i])
    BY <1>4, <2>2 DEF Before
  <2>4. ~(i < j) /\ ~(j < i)
    BY <1>1, <2>3 DEF Sorted, s
  <2>. QED  BY <1>2, <2>1, <2>4
<1>. QED  BY <1>1, <1>2, <1>3, <1>4 DEF IsList, IsInjective, s

\* Nothing grows from 1 .. n to 1 .. n but the identity.
LEMMA GrowingIsIdentity ==
    ASSUME NEW n \in Nat, NEW r \in [1 .. n -> 1 .. n],
           \A i, j \in 1 .. n : i < j => r[i] < r[j]
    PROVE  \A k \in 1 .. n : r[k] = k
<1>1. \A k \in 1 .. n : k \in Nat /\ r[k] \in 1 .. n /\ r[k] \in Nat
  OBVIOUS
<1>2. ASSUME NEW k \in 1 .. n, r[k] < k PROVE FALSE
  <2>. DEFINE T == {i \in 1 .. n : r[i] < i}
  <2>1. T \in SUBSET Nat /\ T # {}
    BY <1>2
  <2>2. PICK l \in T : \A i \in T : l <= i
    <3>. HIDE DEF T
    <3>. QED  BY <2>1, LeastOf
  <2>3. l - 1 \in 1 .. n /\ l - 1 < l
    BY <1>1, <2>2
  <2>4. r[l - 1] < r[l] /\ ~(r[l - 1] < l - 1)
    BY <2>2, <2>3
  <2>. QED  BY <1>1, <2>2, <2>3, <2>4
<1>3. ASSUME NEW k \in 1 .. n, r[k] > k PROVE FALSE
  <2>. DEFINE T == {n - i : i \in {j \in 1 .. n : r[j] > j}}
  <2>1. T \in SUBSET Nat /\ T # {}
    BY <1>3
  <2>2. PICK d \in T : \A i \in T : d <= i
    <3>. HIDE DEF T
    <3>. QED  BY <2>1, LeastOf
  <2>3. PICK l \in 1 .. n : r[l] > l /\ d = n - l
    BY <2>2
  <2>4. l + 1 \in 1 .. n /\ l < l + 1
    BY <1>1, <2>3
  <2>5. ~(r[l + 1] > l + 1)
    <3>. SUFFICES ASSUME r[l + 1] > l + 1 PROVE FALSE
      OBVIOUS
    <3>1. n - (l + 1) \in T
      BY <2>4
    <3>2. n - l <= n - (l + 1)
      <4>. HIDE DEF T
      <4>. QED  BY <2>2, <2>3, <3>1
    <3>. QED  BY <2>3, <3>2
  <2>6. r[l] < r[l + 1]
    BY <2>4
  <2>. QED  BY <1>1, <2>3, <2>4, <2>5, <2>6
<1>. QED
  <2>. SUFFICES ASSUME NEW k \in 1 .. n PROVE r[k] = k
    OBVIOUS
  <2>1. ~(r[k] < k) /\ ~(r[k] > k)
    BY <1>2, <1>3
  <2>. QED  BY <1>1, <2>1

\* A list whose items are numbered from 0 is the one the server shows.
LEMMA NumberedIsShown ==
    ASSUME sortOrder \in [Ids -> Nat], NEW s, IsList(s, Ids),
           \A k \in DOMAIN s : sortOrder[s[k]] = k - 1
    PROVE  s = InOrder(Range(s))
<1>. DEFINE R == Range(s)
            n == Len(s)
            shown == InOrder(R)
<1>1. n \in Nat /\ DOMAIN s = 1 .. n /\ s \in [1 .. n -> R] /\ R \in SUBSET Ids
  BY DEF IsList, Range
<1>2. IsFiniteSet(R) /\ Cardinality(R) = n
  <2>1. s \in Bijection(1 .. n, R)
    BY <1>1 DEF IsList, Bijection, Injection, Surjection, Range
  <2>2. ExistsBijection(1 .. n, R)
    BY <2>1 DEF ExistsBijection
  <2>3. Cardinality(R) = n
    <3>. HIDE DEF n, R
    <3>. QED  BY <1>1, <2>2, FS_CountingElements
  <2>4. IsFiniteSet(R)
    <3>. HIDE DEF n, R
    <3>. QED  BY <1>1, <2>2, FS_NatBijection
  <2>. QED  BY <2>3, <2>4
<1>3. shown \in [1 .. n -> R] /\ Sorted(shown)
  <2>. HIDE DEF R
  <2>. QED  BY <1>1, <1>2, OrderIs
<1>. DEFINE r == [k \in 1 .. n |-> sortOrder[shown[k]] + 1]
<1>4. ASSUME NEW x \in R PROVE \E k \in 1 .. n : x = s[k] /\ sortOrder[x] + 1 = k
  <2>1. PICK k \in 1 .. n : x = s[k]
    BY <1>1 DEF Range
  <2>2. sortOrder[s[k]] = k - 1 /\ k \in Nat
    BY <1>1
  <2>. QED  BY <2>1, <2>2
<1>. HIDE DEF R, n, shown
<1>5. \A k \in 1 .. n : r[k] \in 1 .. n /\ shown[k] = s[r[k]] /\ shown[k] \in R
  BY <1>3, <1>4
<1>6. ASSUME NEW i \in 1 .. n, NEW j \in 1 .. n, i < j PROVE r[i] < r[j]
  <2>1. Before(shown[i], shown[j])
    BY <1>3, <1>6 DEF Sorted
  <2>2. /\ shown[i] \in Nat /\ shown[j] \in Nat
        /\ sortOrder[shown[i]] \in Nat /\ sortOrder[shown[j]] \in Nat
    BY <1>1, <1>5, CategoriesAssumption DEF Ids
  <2>3. sortOrder[shown[i]] # sortOrder[shown[j]]
    <3>. SUFFICES ASSUME sortOrder[shown[i]] = sortOrder[shown[j]] PROVE FALSE
      OBVIOUS
    <3>1. shown[i] = shown[j]
      BY <1>5
    <3>. QED  BY <2>1, <2>2, <3>1 DEF Before
  <2>. QED  BY <2>1, <2>2, <2>3 DEF Before
<1>7. r \in [1 .. n -> 1 .. n]
  BY <1>5
<1>. HIDE DEF r
<1>8. \A k \in 1 .. n : r[k] = k
  BY <1>1, <1>6, <1>7, GrowingIsIdentity
<1>9. \A k \in 1 .. n : shown[k] = s[k]
  BY <1>5, <1>8
<1>. QED  BY <1>1, <1>3, <1>9 DEF shown, R

\* A drag keeps the items of its list, each once.
LEMMA MovedIsList ==
    ASSUME NEW T, NEW s, IsList(s, T), NEW i \in Range(s), NEW over \in Range(s)
    PROVE  IsList(Moved(s, i, over), T)
<1>. DEFINE n == Len(s)
            a == Place(s, i)
            b == Place(s, over)
            r == RemoveAt(s, a)
            new == InsertAt(r, b, i)
<1>1. n \in Nat /\ DOMAIN s = 1 .. n /\ \A k \in 1 .. n : s[k] \in T
  BY DEF IsList
<1>2. a \in 1 .. n /\ s[a] = i
  <2>1. \E k \in DOMAIN s : s[k] = i
    BY DEF Range
  <2>. QED  BY <1>1, <2>1 DEF Place
<1>3. b \in 1 .. n
  <2>1. \E k \in DOMAIN s : s[k] = over
    BY DEF Range
  <2>. QED  BY <1>1, <2>1 DEF Place
<1>4. \A j, k \in 1 .. n : s[j] = s[k] => j = k
  BY <1>1 DEF IsList, IsInjective
<1>. HIDE DEF n, a, b
<1>5. /\ r \in Seq(T) /\ Len(r) = n - 1
      /\ \A k \in 1 .. n - 1 : r[k] = IF k < a THEN s[k] ELSE s[k + 1]
  <2>. DEFINE left == SubSeq(s, 1, a - 1)
              right == SubSeq(s, a + 1, n)
  <2>1. left \in Seq(T) /\ Len(left) = a - 1 /\ \A k \in 1 .. a - 1 : left[k] = s[k]
    <3>1. \A k \in 1 .. a - 1 : s[k] \in T /\ 1 + k - 1 = k
      BY <1>1, <1>2
    <3>2. 1 \in Int /\ a - 1 \in Int /\ a - 1 >= 0
      BY <1>1, <1>2
    <3>. QED  BY <3>1, <3>2, SubSeqProperties
  <2>2. right \in Seq(T) /\ Len(right) = n - a /\ \A k \in 1 .. n - a : right[k] = s[a + k]
    <3>1. \A k \in a + 1 .. n : s[k] \in T
      BY <1>1, <1>2
    <3>2. a + 1 \in Int /\ n \in Int /\ n - (a + 1) + 1 = n - a /\ a <= n
      BY <1>1, <1>2
    <3>3. \A k \in 1 .. n - a : (a + 1) + k - 1 = a + k
      BY <1>1, <1>2
    <3>. QED  BY <1>1, <1>2, <3>1, <3>2, <3>3, SubSeqProperties
  <2>3. r = left \o right
    BY DEF RemoveAt, n
  <2>. HIDE DEF left, right, r
  <2>4. /\ r \in Seq(T) /\ Len(r) = (a - 1) + (n - a)
        /\ \A k \in 1 .. (a - 1) + (n - a) :
             r[k] = IF k <= a - 1 THEN left[k] ELSE right[k - (a - 1)]
    BY <2>1, <2>2, <2>3, ConcatProperties
  <2>5. (a - 1) + (n - a) = n - 1
    BY <1>1, <1>2
  <2>6. ASSUME NEW k \in 1 .. n - 1 PROVE r[k] = IF k < a THEN s[k] ELSE s[k + 1]
    <3>1. CASE k < a
      <4>1. k \in 1 .. a - 1 /\ k <= a - 1
        BY <1>1, <1>2, <3>1
      <4>. QED  BY <2>1, <2>4, <2>5, <3>1, <4>1
    <3>2. CASE ~(k < a)
      <4>1. k - (a - 1) \in 1 .. n - a /\ ~(k <= a - 1) /\ a + (k - (a - 1)) = k + 1
        BY <1>1, <1>2, <3>2
      <4>2. right[k - (a - 1)] = s[k + 1]
        BY <2>2, <4>1
      <4>. QED  BY <2>4, <2>5, <3>2, <4>1, <4>2
    <3>. QED  BY <3>1, <3>2
  <2>. QED  BY <2>4, <2>5, <2>6
<1>. HIDE DEF r
<1>6. ASSUME NEW k \in 1 .. n - 1 PROVE r[k] \in T /\ r[k] # i
  <2>1. r[k] = (IF k < a THEN s[k] ELSE s[k + 1]) /\ k \in 1 .. n /\ k + 1 \in 1 .. n
    BY <1>1, <1>5
  <2>2. k < a \/ k + 1 > a
    BY <1>1, <1>2
  <2>. QED  BY <1>1, <1>2, <1>4, <2>1, <2>2
<1>7. ASSUME NEW j \in 1 .. n - 1, NEW k \in 1 .. n - 1, r[j] = r[k] PROVE j = k
  <2>1. j \in 1 .. n /\ k \in 1 .. n /\ j + 1 \in 1 .. n /\ k + 1 \in 1 .. n
    BY <1>1
  <2>2. /\ r[j] = IF j < a THEN s[j] ELSE s[j + 1]
        /\ r[k] = IF k < a THEN s[k] ELSE s[k + 1]
    BY <1>5
  <2>3. CASE j < a /\ k < a
    BY <1>4, <1>7, <2>1, <2>2, <2>3
  <2>4. CASE j < a /\ ~(k < a)
    <3>1. j = k + 1
      BY <1>4, <1>7, <2>1, <2>2, <2>4
    <3>. QED  BY <1>2, <2>1, <2>4, <3>1
  <2>5. CASE ~(j < a) /\ k < a
    <3>1. j + 1 = k
      BY <1>4, <1>7, <2>1, <2>2, <2>5
    <3>. QED  BY <1>2, <2>1, <2>5, <3>1
  <2>6. CASE ~(j < a) /\ ~(k < a)
    <3>1. j + 1 = k + 1
      BY <1>4, <1>7, <2>1, <2>2, <2>6
    <3>. QED  BY <2>1, <3>1
  <2>. QED  BY <2>3, <2>4, <2>5, <2>6
<1>8. /\ new \in Seq(T) /\ Len(new) = n
      /\ \A k \in 1 .. n : new[k] = IF k < b THEN r[k] ELSE IF k = b THEN i ELSE r[k - 1]
  <2>. DEFINE left == SubSeq(r, 1, b - 1)
              right == SubSeq(r, b, n - 1)
  <2>1. left \in Seq(T) /\ Len(left) = b - 1 /\ \A k \in 1 .. b - 1 : left[k] = r[k]
    <3>1. \A k \in 1 .. b - 1 : r[k] \in T /\ 1 + k - 1 = k
      BY <1>1, <1>3, <1>6
    <3>2. 1 \in Int /\ b - 1 \in Int /\ b - 1 >= 0
      BY <1>1, <1>3
    <3>. QED  BY <3>1, <3>2, SubSeqProperties
  <2>2. right \in Seq(T) /\ Len(right) = n - b /\ \A k \in 1 .. n - b : right[k] = r[b + k - 1]
    <3>1. \A k \in b .. n - 1 : r[k] \in T
      BY <1>1, <1>3, <1>6
    <3>2. b \in Int /\ n - 1 \in Int /\ n - 1 - b + 1 = n - b /\ b <= n
      BY <1>1, <1>3
    <3>. QED  BY <1>1, <1>3, <3>1, <3>2, SubSeqProperties
  <2>3. <<i>> \in Seq(T) /\ Len(<<i>>) = 1 /\ <<i>>[1] = i
    BY <1>1, <1>2
  <2>4. new = (left \o <<i>>) \o right
    BY <1>5 DEF InsertAt
  <2>. HIDE DEF left, right, new
  <2>. DEFINE front == left \o <<i>>
  <2>5. /\ front \in Seq(T) /\ Len(front) = (b - 1) + 1
        /\ \A k \in 1 .. (b - 1) + 1 : front[k] = IF k <= b - 1 THEN left[k] ELSE <<i>>[k - (b - 1)]
    BY <2>1, <2>3, ConcatProperties
  <2>6. (b - 1) + 1 = b /\ b - (b - 1) = 1 /\ b + (n - b) = n
    BY <1>1, <1>3
  <2>7. /\ new \in Seq(T) /\ Len(new) = b + (n - b)
        /\ \A k \in 1 .. b + (n - b) : new[k] = IF k <= b THEN front[k] ELSE right[k - b]
    <3>1. new = front \o right
      BY <2>4
    <3>2. front \in Seq(T) /\ Len(front) = b
      BY <2>5, <2>6
    <3>. HIDE DEF front
    <3>. QED  BY <2>2, <3>1, <3>2, ConcatProperties
  <2>. HIDE DEF front
  <2>8. ASSUME NEW k \in 1 .. n
        PROVE  new[k] = IF k < b THEN r[k] ELSE IF k = b THEN i ELSE r[k - 1]
    <3>1. CASE k < b
      <4>1. k \in 1 .. b - 1 /\ k <= b - 1 /\ k <= b /\ k \in 1 .. (b - 1) + 1
        BY <1>1, <1>3, <3>1
      <4>. QED  BY <2>1, <2>5, <2>6, <2>7, <3>1, <4>1
    <3>2. CASE k = b
      <4>1. ~(b <= b - 1) /\ b \in 1 .. (b - 1) + 1 /\ b <= b /\ ~(b < b)
        BY <1>1, <1>3
      <4>2. front[b] = i
        BY <2>3, <2>5, <2>6, <4>1
      <4>. QED  BY <2>6, <2>7, <3>2, <4>1, <4>2
    <3>3. CASE k > b
      <4>1. k - b \in 1 .. n - b /\ b + (k - b) - 1 = k - 1 /\ ~(k <= b) /\ ~(k < b) /\ k # b
        BY <1>1, <1>3, <3>3
      <4>2. right[k - b] = r[k - 1]
        BY <2>2, <4>1
      <4>. QED  BY <2>6, <2>7, <4>1, <4>2
    <3>. QED  BY <1>1, <1>3, <3>1, <3>2, <3>3
  <2>. QED  BY <2>6, <2>7, <2>8
<1>. HIDE DEF new
<1>9. ASSUME NEW j \in 1 .. n, NEW k \in 1 .. n, new[j] = new[k] PROVE j = k
  <2>1. \A l \in 1 .. n : /\ (l < b => l \in 1 .. n - 1 /\ new[l] = r[l])
                          /\ (l = b => new[l] = i)
                          /\ (l > b => l - 1 \in 1 .. n - 1 /\ new[l] = r[l - 1])
    BY <1>1, <1>3, <1>8
  <2>2. CASE j = b
    <3>1. ~(k < b) /\ ~(k > b)
      BY <1>6, <1>9, <2>1, <2>2
    <3>. QED  BY <1>1, <1>3, <2>2, <3>1
  <2>3. CASE k = b
    <3>1. ~(j < b) /\ ~(j > b)
      BY <1>6, <1>9, <2>1, <2>3
    <3>. QED  BY <1>1, <1>3, <2>3, <3>1
  <2>4. CASE j < b /\ k < b
    BY <1>7, <1>9, <2>1, <2>4
  <2>5. CASE j < b /\ k > b
    <3>1. j = k - 1
      BY <1>7, <1>9, <2>1, <2>5
    <3>. QED  BY <1>1, <1>3, <2>5, <3>1
  <2>6. CASE j > b /\ k < b
    <3>1. j - 1 = k
      BY <1>7, <1>9, <2>1, <2>6
    <3>. QED  BY <1>1, <1>3, <2>6, <3>1
  <2>7. CASE j > b /\ k > b
    <3>1. j - 1 = k - 1
      BY <1>7, <1>9, <2>1, <2>7
    <3>. QED  BY <1>1, <3>1
  <2>. QED  BY <1>1, <1>3, <2>2, <2>3, <2>4, <2>5, <2>6, <2>7
<1>10. IsInjective(new)
  BY <1>8, <1>9 DEF IsInjective
<1>. QED  BY <1>8, <1>10 DEF IsList, Moved, new, r, a, b

-----------------------------------------------------------------------------
(***************************************************************************)
(* The invariant. The list is made of lists without repetition, the calls  *)
(* are those the dialogs make, and the order of the last drag is, item by  *)
(* item, either still in flight or on the server.                          *)
(***************************************************************************)
CallNames == {"editCategory", "deleteCategory", "editGroup", "deleteGroup",
              "newCategory", "newGroup", "import"}

IsCall(k) == k.name \in CallNames /\ (k.name = "import" => DOMAIN k.rows \subseteq Nat)

TreeMade(t) ==
    /\ t = [groups |-> t.groups, scopes |-> t.scopes, categories |-> t.categories]
    /\ IsList(t.groups, GroupIds)
    /\ t.categories = [g \in DOMAIN t.categories |-> t.categories[g]]
    /\ \A g \in DOMAIN t.categories : IsList(t.categories[g], CategoryIds)

FormsMade ==
    /\ rowForm = [id |-> rowForm.id, choice |-> rowForm.choice]
    /\ catDialog = [name |-> catDialog.name, id |-> catDialog.id, choice |-> catDialog.choice]
    /\ \A k \in catCalls : IsCall(k)

PatchOf(k) == [item |-> dropped[k], order |-> k - 1]

DragSent ==
    /\ IsList(dropped, Ids)
    /\ orderCalls \subseteq [item : Ids, order : Nat]
    /\ ~mixed =>
        /\ \A k \in DOMAIN dropped : PatchOf(k) \in orderCalls \/ sortOrder[dropped[k]] = k - 1
        /\ \A p \in orderCalls : \E k \in DOMAIN dropped : p = PatchOf(k)

CategoriesInv == CategoriesTypeOK /\ TreeMade(tree) /\ FormsMade /\ DragSent

serverTyped ==
    /\ groupScope \in [GroupIds -> GroupScopes \cup {NoScope}]
    /\ groupOf \in [CategoryIds -> GroupIds \cup {NoId}]
    /\ sortOrder \in [Ids -> Nat]
    /\ \A c \in CategoryIds : groupOf[c] \in Groups \cup {NoId}

LEMMA TreeIsMade == serverTyped => TreeMade(Tree)
<1>. SUFFICES ASSUME serverTyped PROVE TreeMade(Tree)
  OBVIOUS
<1>. USE DEF serverTyped
<1>1. Groups \in SUBSET GroupIds /\ \A g \in Groups : CategoriesIn(g) \in SUBSET CategoryIds
  BY DEF Groups, CategoriesIn
<1>2. IsFiniteSet(Groups) /\ \A g \in Groups : IsFiniteSet(CategoriesIn(g))
  BY <1>1, CategoriesAssumption, FS_Subset
<1>3. Groups \in SUBSET Ids /\ \A g \in Groups : CategoriesIn(g) \in SUBSET Ids
  BY <1>1 DEF Ids
<1>4. IsList(InOrder(Groups), Groups)
  BY <1>2, <1>3, OrderIs
<1>5. \A g \in Groups : IsList(InOrder(CategoriesIn(g)), CategoriesIn(g))
  BY <1>2, <1>3, OrderIs
<1>6. IsList(InOrder(Groups), GroupIds)
  BY <1>1, <1>4 DEF IsList
<1>7. \A g \in Groups : IsList(InOrder(CategoriesIn(g)), CategoryIds)
  BY <1>1, <1>5 DEF IsList
<1>. QED  BY <1>6, <1>7 DEF TreeMade, Tree

LEMMA CategoriesInitially == CategoriesInit => CategoriesInv
<1>. SUFFICES ASSUME CategoriesInit PROVE CategoriesInv
  OBVIOUS
<1>. DEFINE first == CHOOSE g \in GroupIds : \A h \in GroupIds : g <= h
<1>1. first \in GroupIds
  <2>1. \E g \in GroupIds : \A h \in GroupIds : g <= h
    BY CategoriesAssumption, LeastOf
  <2>. QED  BY <2>1
<1>. HIDE DEF first
<1>2. PICK s \in GroupScopes : groupScope = [g \in GroupIds |-> s]
  BY DEF CategoriesInit
<1>3. groupOf = [c \in CategoryIds |-> first]
  BY DEF CategoriesInit, first
<1>4. serverTyped
  BY <1>1, <1>2, <1>3, CategoriesAssumption DEF CategoriesInit, serverTyped, Groups, Ids
<1>5. TreeMade(tree)
  BY <1>4, TreeIsMade DEF CategoriesInit
<1>6. FormsMade
  BY DEF CategoriesInit, FormsMade, NoRowForm, NoCategoryDialog
<1>7. DragSent
  BY DEF CategoriesInit, DragSent, IsList, IsInjective
<1>8. CategoriesTypeOK
  <2>1. rowForm.id = NoId /\ catDialog.id = NoId /\ orderCalls = {} /\ catCount = 0
    BY DEF CategoriesInit, NoRowForm, NoCategoryDialog
  <2>2. {mixed, brokenPage} \subseteq BOOLEAN
    BY DEF CategoriesInit
  <2>3. catCount \in 0 .. MaxCategoryCalls
    BY <2>1, CategoriesAssumption
  <2>. QED  BY <1>4, <2>1, <2>2, <2>3 DEF CategoriesTypeOK, serverTyped, Ids
<1>. QED  BY <1>5, <1>6, <1>7, <1>8 DEF CategoriesInv

\* What a call does to the server keeps its types.
LEMMA OutcomeTyped ==
    ASSUME serverTyped, NEW k, IsCall(k), CategoryOutcome(k)
    PROVE  serverTyped'
<1>. USE DEF serverTyped
<1>1. \A S \in SUBSET GroupIds : S # {} => NewItem(S) \in S
  <2>. SUFFICES ASSUME NEW S \in SUBSET GroupIds, S # {} PROVE NewItem(S) \in S
    OBVIOUS
  <2>1. \E i \in S : \A j \in S : i <= j
    <3>1. S \in SUBSET Nat
      BY CategoriesAssumption
    <3>. QED  BY <3>1, LeastOf
  <2>. QED  BY <2>1 DEF NewItem
<1>2. \A S \in SUBSET CategoryIds : S # {} => NewItem(S) \in S
  <2>. SUFFICES ASSUME NEW S \in SUBSET CategoryIds, S # {} PROVE NewItem(S) \in S
    OBVIOUS
  <2>1. \E i \in S : \A j \in S : i <= j
    <3>1. S \in SUBSET Nat
      BY CategoriesAssumption
    <3>. QED  BY <3>1, LeastOf
  <2>. QED  BY <2>1 DEF NewItem
<1>3. Groups \subseteq GroupIds /\ NoScope \notin GroupScopes /\ NoId \notin GroupIds
  BY CategoriesAssumption DEF Groups
<1>4. ASSUME NEW g, NEW order \in Nat, AddCategory(g, order) PROVE serverTyped'
  <2>1. FreeCategories \in SUBSET CategoryIds /\ FreeCategories # {}
    BY <1>4 DEF AddCategory, FreeCategories
  <2>2. NewItem(FreeCategories) \in CategoryIds
    BY <1>2, <2>1
  <2>3. g \in Groups /\ Groups' = Groups
    BY <1>4 DEF AddCategory, Groups
  <2>. QED  BY <1>3, <1>4, <2>2, <2>3 DEF AddCategory
<1>5. ASSUME NEW s \in GroupScopes \cup {NoScope}, AddGroup(s) PROVE serverTyped'
  <2>1. FreeGroups \in SUBSET GroupIds /\ FreeGroups # {}
    BY <1>5 DEF AddGroup, FreeGroups
  <2>2. NewItem(FreeGroups) \in GroupIds
    BY <1>1, <2>1
  <2>3. Groups \subseteq Groups'
    BY <1>5, <2>2 DEF AddGroup, Groups
  <2>. QED  BY <1>5, <2>2, <2>3 DEF AddGroup
<1>6. CASE k.name = "editCategory"
  <2>1. /\ k.choice \in Groups /\ UNCHANGED <<groupScope, sortOrder>>
        /\ groupOf' = [groupOf EXCEPT ![k.id] = k.choice]
    BY <1>6 DEF CategoryOutcome
  <2>2. Groups' = Groups
    BY <2>1 DEF Groups
  <2>. QED  BY <1>3, <2>1, <2>2
<1>7. CASE k.name = "deleteCategory"
  <2>1. UNCHANGED <<groupScope, sortOrder>> /\ groupOf' = [groupOf EXCEPT ![k.id] = NoId]
    BY <1>7 DEF CategoryOutcome
  <2>2. Groups' = Groups
    BY <2>1 DEF Groups
  <2>. QED  BY <1>3, <2>1, <2>2
<1>8. CASE k.name = "editGroup"
  <2>1. /\ k.id \in Groups /\ UNCHANGED <<groupOf, sortOrder>>
        /\ groupScope' = [groupScope EXCEPT ![k.id] = IF k.choice \in GroupScopes THEN k.choice ELSE @]
    BY <1>8 DEF CategoryOutcome
  <2>2. Groups' = Groups
    BY <1>3, <2>1 DEF Groups
  <2>. QED  BY <1>3, <2>1, <2>2
<1>9. CASE k.name = "deleteGroup"
  <2>1. /\ k.id \in Groups /\ UNCHANGED sortOrder
        /\ groupScope' = [groupScope EXCEPT ![k.id] = NoScope]
        /\ groupOf' = [c \in CategoryIds |-> IF groupOf[c] = k.id THEN NoId ELSE groupOf[c]]
    BY <1>9 DEF CategoryOutcome
  <2>2. Groups' = Groups \ {k.id}
    BY <1>3, <2>1 DEF Groups
  <2>. QED  BY <1>3, <2>1, <2>2
<1>10. CASE k.name = "newCategory"
  <2>1. AddCategory(k.id, 0)
    BY <1>10 DEF CategoryOutcome
  <2>. QED  BY <1>4, <2>1
<1>11. CASE k.name = "newGroup"
  <2>1. \E s \in GroupScopes : AddGroup(s)
    BY <1>11 DEF CategoryOutcome
  <2>. QED  BY <1>5, <2>1
<1>12. CASE k.name = "import"
  <2>1. CASE Range(k.rows) \subseteq Groups
    <3>. DEFINE rows == k.rows
                Order(i) == Cardinality(CategoriesIn(rows[i])) + Cardinality({j \in 1 .. i - 1 : rows[j] = rows[i]})
    <3>1. PICK new \in [DOMAIN rows -> FreeCategories] :
            /\ UNCHANGED groupScope
            /\ groupOf' = [c \in CategoryIds |->
                   IF c \in Range(new) THEN rows[CHOOSE i \in DOMAIN rows : new[i] = c] ELSE groupOf[c]]
            /\ sortOrder' = [i \in GroupIds \cup CategoryIds |->
                   IF i \in Range(new) THEN Order(CHOOSE j \in DOMAIN rows : new[j] = i) ELSE sortOrder[i]]
      BY <1>12, <2>1 DEF CategoryOutcome, ImportCategories
    <3>2. \A c \in Range(new) : \E i \in DOMAIN rows : new[i] = c
      BY DEF Range
    <3>3. \A i \in DOMAIN rows : rows[i] \in Groups
      BY <2>1 DEF Range
    <3>4. groupOf' \in [CategoryIds -> GroupIds \cup {NoId}]
          /\ \A c \in CategoryIds : groupOf'[c] \in Groups \cup {NoId}
      BY <1>3, <3>1, <3>2, <3>3
    <3>5. \A i \in Nat : Order(i) \in Nat
      <4>. SUFFICES ASSUME NEW i \in Nat PROVE Order(i) \in Nat
        OBVIOUS
      <4>1. CategoriesIn(rows[i]) \in SUBSET CategoryIds
        BY DEF CategoriesIn
      <4>2. Cardinality(CategoriesIn(rows[i])) \in Nat
        BY <4>1, CategoriesAssumption, FS_Subset, FS_CardinalityType
      <4>. DEFINE earlier == {j \in 1 .. i - 1 : rows[j] = rows[i]}
      <4>3. earlier \in SUBSET (1 .. i - 1) /\ IsFiniteSet(1 .. i - 1)
        BY FS_Interval
      <4>. HIDE DEF earlier
      <4>4. Cardinality(earlier) \in Nat
        BY <4>3, FS_Subset, FS_CardinalityType
      <4>. QED  BY <4>2, <4>4 DEF earlier
    <3>6. DOMAIN rows \subseteq Nat
      BY <1>12 DEF IsCall
    <3>. HIDE DEF rows, Order
    <3>7. sortOrder' \in [GroupIds \cup CategoryIds -> Nat]
      <4>1. \A i \in Range(new) : Order(CHOOSE j \in DOMAIN rows : new[j] = i) \in Nat
        BY <3>2, <3>5, <3>6
      <4>2. sortOrder \in [GroupIds \cup CategoryIds -> Nat]
        BY DEF Ids
      <4>. HIDE DEF serverTyped
      <4>. QED  BY <3>1, <4>1, <4>2
    <3>8. Groups' = Groups
      BY <3>1 DEF Groups
    <3>. QED  BY <3>1, <3>4, <3>7, <3>8 DEF Ids
  <2>2. CASE ~(Range(k.rows) \subseteq Groups)
    <3>1. AddGroup(NoScope)
      BY <1>12, <2>2 DEF CategoryOutcome
    <3>. QED  BY <1>5, <3>1
  <2>. QED  BY <2>1, <2>2
<1>. QED  BY <1>6, <1>7, <1>8, <1>9, <1>10, <1>11, <1>12 DEF IsCall, CallNames

\* What the steps leave alone, they keep.
serverAndDrag == <<serverVars, dragVars>>

LEMMA DragKept == CategoriesInv /\ UNCHANGED serverAndDrag => serverTyped' /\ DragSent'
BY DEF CategoriesInv, CategoriesTypeOK, DragSent, PatchOf, serverTyped, Groups, Ids,
       serverAndDrag, serverVars, dragVars

LEMMA FormsKept ==
    CategoriesInv /\ UNCHANGED <<rowForm, catDialog, catCalls>> => FormsMade'
BY DEF CategoriesInv, FormsMade

\* A list in the order of a drag, and its PATCHes.
LEMMA DragIsSent ==
    ASSUME CategoriesInv, NEW old, NEW T \in SUBSET Ids, IsList(dropped', T),
           orderCalls' = orderCalls \cup Numbered(old, dropped'),
           mixed' = (mixed \/ orderCalls # {}), UNCHANGED serverVars
    PROVE  DragSent'
<1>1. dropped' \in Seq(Ids) /\ IsInjective(dropped')
  BY DEF IsList
<1>2. orderCalls' \subseteq [item : Ids, order : Nat]
  <2>1. \A k \in DOMAIN dropped' : k - 1 \in Nat /\ dropped'[k] \in Ids
    BY <1>1
  <2>. QED  BY <2>1 DEF Numbered, CategoriesInv, DragSent
<1>3. ASSUME ~mixed'
      PROVE  /\ \A k \in DOMAIN dropped' : PatchOf(k)' \in orderCalls'
             /\ \A p \in orderCalls' : \E k \in DOMAIN dropped' : p = PatchOf(k)'
  <2>1. orderCalls = {}
    BY <1>3
  <2>. QED  BY <2>1 DEF Numbered, PatchOf
<1>. QED  BY <1>1, <1>2, <1>3 DEF DragSent, IsList

LEMMA GroupsDropped ==
    ASSUME CategoriesInv, NEW g \in GroupIds, NEW over \in GroupIds, DropGroup(g, over)
    PROVE  CategoriesInv'
<1>. DEFINE new == Moved(tree.groups, g, over)
<1>1. IsList(new, GroupIds)
  BY MovedIsList DEF DropGroup, CategoriesInv, TreeMade
<1>2. tree' = [groups |-> new, scopes |-> tree.scopes, categories |-> tree.categories]
  BY DEF DropGroup, CategoriesInv, TreeMade
<1>. HIDE DEF new
<1>3. TreeMade(tree')
  BY <1>1, <1>2 DEF CategoriesInv, TreeMade
<1>4. DragSent'
  <2>1. /\ dropped' = new /\ orderCalls' = orderCalls \cup Numbered(tree.groups, dropped')
        /\ mixed' = (mixed \/ orderCalls # {}) /\ UNCHANGED serverVars
    BY <1>2 DEF DropGroup
  <2>2. GroupIds \in SUBSET Ids
    BY DEF Ids
  <2>. QED  BY <1>1, <2>1, <2>2, DragIsSent
<1>5. FormsMade'
  BY FormsKept DEF DropGroup
<1>6. CategoriesTypeOK'
  <2>1. mixed' \in BOOLEAN
    BY DEF DropGroup
  <2>2. catCount' \in 0 .. MaxCategoryCalls
    BY CategoriesAssumption DEF DropGroup, CountCall, CategoriesInv, CategoriesTypeOK
  <2>3. \A p \in orderCalls' : p.item \in GroupIds \cup CategoryIds
    BY <1>4 DEF DragSent, Ids
  <2>4. UNCHANGED <<serverVars, rowForm, catDialog, brokenPage>>
    BY DEF DropGroup
  <2>. QED  BY <2>1, <2>2, <2>3, <2>4 DEF CategoriesInv, CategoriesTypeOK, serverVars, Groups
<1>. QED  BY <1>3, <1>4, <1>5, <1>6 DEF CategoriesInv

LEMMA CategoryDropped ==
    ASSUME CategoriesInv, NEW c \in CategoryIds, NEW over \in CategoryIds, DropCategory(c, over)
    PROVE  CategoriesInv'
<1>. DEFINE newOf(g) == IF over \in Range(tree.categories[g])
                        THEN Moved(tree.categories[g], c, over) ELSE tree.categories[g]
<1>1. PICK g \in ListedUnder(c) :
        /\ tree' = [tree EXCEPT !.categories[g] = newOf(g)]
        /\ orderCalls' = orderCalls \cup Numbered(tree.categories[g], newOf(g))
        /\ dropped' = newOf(g)
  BY DEF DropCategory
<1>2. g \in DOMAIN tree.categories /\ c \in Range(tree.categories[g])
  BY DEF ListedUnder
<1>3. IsList(tree.categories[g], CategoryIds)
  BY <1>2 DEF CategoriesInv, TreeMade
<1>4. IsList(newOf(g), CategoryIds)
  BY <1>2, <1>3, MovedIsList
<1>. DEFINE new == newOf(g)
<1>5. IsList(new, CategoryIds) /\ dropped' = new /\ tree' = [tree EXCEPT !.categories[g] = new]
      /\ orderCalls' = orderCalls \cup Numbered(tree.categories[g], dropped')
  BY <1>1, <1>4
<1>. HIDE DEF new, newOf
<1>6. TreeMade(tree')
  <2>1. tree' = [groups |-> tree.groups, scopes |-> tree.scopes,
                 categories |-> [tree.categories EXCEPT ![g] = new]]
    BY <1>5 DEF CategoriesInv, TreeMade
  <2>2. tree'.categories = [h \in DOMAIN tree.categories |->
                             IF h = g THEN new ELSE tree.categories[h]]
    BY <2>1 DEF CategoriesInv, TreeMade
  <2>. QED  BY <1>5, <2>1, <2>2 DEF CategoriesInv, TreeMade
<1>7. DragSent'
  <2>1. mixed' = (mixed \/ orderCalls # {}) /\ UNCHANGED serverVars
    BY DEF DropCategory
  <2>2. CategoryIds \in SUBSET Ids
    BY DEF Ids
  <2>. QED  BY <1>5, <2>1, <2>2, DragIsSent
<1>8. FormsMade'
  BY FormsKept DEF DropCategory
<1>9. CategoriesTypeOK'
  <2>1. mixed' \in BOOLEAN
    BY DEF DropCategory
  <2>2. catCount' \in 0 .. MaxCategoryCalls
    BY CategoriesAssumption DEF DropCategory, CountCall, CategoriesInv, CategoriesTypeOK
  <2>3. \A p \in orderCalls' : p.item \in GroupIds \cup CategoryIds
    BY <1>7 DEF DragSent, Ids
  <2>4. UNCHANGED <<serverVars, rowForm, catDialog, brokenPage>>
    BY DEF DropCategory
  <2>. QED  BY <2>1, <2>2, <2>3, <2>4 DEF CategoriesInv, CategoriesTypeOK, serverVars, Groups
<1>. QED  BY <1>6, <1>7, <1>8, <1>9 DEF CategoriesInv

\* A PATCH that arrives numbers its own item and no other.
LEMMA OneOrderSaved ==
    ASSUME CategoriesInv, NEW p \in orderCalls, OrderSaved(p)
    PROVE  CategoriesInv'
<1>1. p.item \in Ids /\ p.order \in Nat /\ p = [item |-> p.item, order |-> p.order]
  BY DEF CategoriesInv, DragSent
<1>2. sortOrder \in [Ids -> Nat]
  BY DEF CategoriesInv, CategoriesTypeOK, Ids
<1>3. /\ sortOrder' = [sortOrder EXCEPT ![p.item] = p.order]
      /\ orderCalls' = orderCalls \ {p} /\ mixed' = mixed /\ dropped' = dropped
  BY DEF OrderSaved
<1>4. sortOrder' \in [Ids -> Nat]
  BY <1>1, <1>2, <1>3
<1>5. DragSent'
  <2>1. IsList(dropped, Ids) /\ DOMAIN dropped = 1 .. Len(dropped) /\ Len(dropped) \in Nat
        /\ \A k \in DOMAIN dropped : dropped[k] \in Ids
    BY DEF CategoriesInv, DragSent, IsList
  <2>2. ASSUME ~mixed, NEW k \in DOMAIN dropped
        PROVE  PatchOf(k) \in orderCalls' \/ sortOrder'[dropped[k]] = k - 1
    <3>1. CASE PatchOf(k) = p
      <4>1. p.item = dropped[k] /\ p.order = k - 1
        BY <3>1 DEF PatchOf
      <4>. QED  BY <1>2, <1>3, <2>1, <4>1
    <3>2. CASE PatchOf(k) # p
      <4>1. CASE PatchOf(k) \in orderCalls
        BY <1>3, <3>2, <4>1
      <4>2. CASE sortOrder[dropped[k]] = k - 1
        <5>1. PICK j \in DOMAIN dropped : p = PatchOf(j)
          BY <2>2 DEF CategoriesInv, DragSent
        <5>2. j # k
          BY <3>2, <5>1
        <5>3. p.item = dropped[j] /\ dropped[j] # dropped[k]
          BY <2>1, <5>1, <5>2 DEF PatchOf, IsList, IsInjective
        <5>. QED  BY <1>2, <1>3, <2>1, <4>2, <5>3
      <4>. QED  BY <2>2, <4>1, <4>2 DEF CategoriesInv, DragSent
    <3>. QED  BY <3>1, <3>2
  <2>3. \A k : PatchOf(k)' = PatchOf(k)
    BY <1>3 DEF PatchOf
  <2>4. orderCalls' \subseteq orderCalls
    BY <1>3
  <2>. QED  BY <1>3, <2>1, <2>2, <2>3, <2>4 DEF CategoriesInv, DragSent
<1>6. TreeMade(tree')
  BY DEF OrderSaved, CategoriesInv
<1>7. FormsMade'
  BY FormsKept DEF OrderSaved
<1>8. CategoriesTypeOK'
  <2>1. UNCHANGED <<groupScope, groupOf, rowForm, catDialog, mixed, brokenPage, catCount>>
    BY DEF OrderSaved
  <2>2. \A q \in orderCalls' : q.item \in GroupIds \cup CategoryIds
    BY <1>3 DEF CategoriesInv, CategoriesTypeOK
  <2>. QED  BY <1>4, <2>1, <2>2 DEF CategoriesInv, CategoriesTypeOK, Groups, Ids
<1>. QED  BY <1>5, <1>6, <1>7, <1>8 DEF CategoriesInv

\* A step that leaves the server, the drags and the list alone: the forms and
\* the calls of the dialogs.
LEMMA FormsStep ==
    ASSUME CategoriesInv, UNCHANGED serverAndDrag, UNCHANGED <<tree, brokenPage>>, FormsMade',
           rowForm'.id \in CategoryIds \cup {NoId},
           catDialog'.id \in GroupIds \cup CategoryIds \cup {NoId},
           catCount' \in 0 .. MaxCategoryCalls
    PROVE  CategoriesInv'
<1>1. DragSent' /\ TreeMade(tree')
  BY DragKept DEF CategoriesInv
<1>2. CategoriesTypeOK'
  BY DEF CategoriesInv, CategoriesTypeOK, serverAndDrag, serverVars, dragVars, Groups
<1>. QED  BY <1>1, <1>2 DEF CategoriesInv

LEMMA RowShown ==
    ASSUME CategoriesInv, NEW f, ShowRow(f), f = [id |-> f.id, choice |-> f.choice],
           f.id \in CategoryIds \cup {NoId}
    PROVE  CategoriesInv'
<1>1. FormsMade'
  BY DEF ShowRow, CategoriesInv, FormsMade
<1>2. UNCHANGED <<tree, brokenPage>> /\ UNCHANGED serverAndDrag
  BY DEF ShowRow, serverAndDrag
<1>3. /\ rowForm'.id \in CategoryIds \cup {NoId}
      /\ catDialog'.id \in GroupIds \cup CategoryIds \cup {NoId}
      /\ catCount' \in 0 .. MaxCategoryCalls
  BY DEF ShowRow, CategoriesInv, CategoriesTypeOK
<1>. QED  BY <1>1, <1>2, <1>3, FormsStep

LEMMA DialogShown ==
    ASSUME CategoriesInv, NEW d, ShowDialog(d),
           d = [name |-> d.name, id |-> d.id, choice |-> d.choice],
           d.id \in GroupIds \cup CategoryIds \cup {NoId}
    PROVE  CategoriesInv'
<1>1. FormsMade'
  BY DEF ShowDialog, CategoriesInv, FormsMade
<1>2. UNCHANGED <<tree, brokenPage>> /\ UNCHANGED serverAndDrag
  BY DEF ShowDialog, serverAndDrag
<1>3. /\ rowForm'.id \in CategoryIds \cup {NoId}
      /\ catDialog'.id \in GroupIds \cup CategoryIds \cup {NoId}
      /\ catCount' \in 0 .. MaxCategoryCalls
  BY DEF ShowDialog, CategoriesInv, CategoriesTypeOK
<1>. QED  BY <1>1, <1>2, <1>3, FormsStep

LEMMA CallSent ==
    ASSUME CategoriesInv, NEW call, SendCategoryCall(call), IsCall(call)
    PROVE  CategoriesInv'
<1>1. FormsMade'
  BY DEF SendCategoryCall, CategoriesInv, FormsMade
<1>2. UNCHANGED <<tree, brokenPage>> /\ UNCHANGED serverAndDrag
  BY DEF SendCategoryCall, serverAndDrag
<1>3. /\ rowForm'.id \in CategoryIds \cup {NoId}
      /\ catDialog'.id \in GroupIds \cup CategoryIds \cup {NoId}
  BY DEF SendCategoryCall, CategoriesInv, CategoriesTypeOK
<1>4. catCount' \in 0 .. MaxCategoryCalls
  BY CategoriesAssumption DEF SendCategoryCall, CountCall, CategoriesInv, CategoriesTypeOK
<1>. QED  BY <1>1, <1>2, <1>3, <1>4, FormsStep

\* The list of a refetch.
LEMMA TreeHasArrived == CategoriesInv /\ TreeArrives => CategoriesInv'
<1>. SUFFICES ASSUME CategoriesInv, TreeArrives PROVE CategoriesInv'
  OBVIOUS
<1>1. serverTyped /\ tree' = Tree
  BY DEF CategoriesInv, CategoriesTypeOK, serverTyped, Ids, TreeArrives
<1>2. TreeMade(tree')
  BY <1>1, TreeIsMade
<1>3. UNCHANGED serverAndDrag
  BY DEF TreeArrives, serverAndDrag
<1>4. DragSent'
  BY <1>3, DragKept
<1>5. PICK choice : catDialog' = [catDialog EXCEPT !.choice = choice]
  BY DEF TreeArrives
<1>6. catDialog' = [name |-> catDialog.name, id |-> catDialog.id, choice |-> choice]
  BY <1>5 DEF CategoriesInv, FormsMade
<1>7. FormsMade'
  BY <1>6 DEF TreeArrives, CategoriesInv, FormsMade
<1>8. brokenPage' \in BOOLEAN
  BY DEF TreeArrives
<1>9. CategoriesTypeOK'
  <2>1. UNCHANGED <<serverVars, dragVars, rowForm, catCount>>
    BY DEF TreeArrives
  <2>. QED  BY <1>6, <1>8, <2>1
            DEF CategoriesInv, CategoriesTypeOK, serverVars, dragVars, Groups
<1>. QED  BY <1>2, <1>4, <1>7, <1>9 DEF CategoriesInv

\* A change of the server that is no PATCH: nothing is asked of the order then.
LEMMA ServerChanged ==
    ASSUME CategoriesInv, serverTyped', mixed' = TRUE, FormsMade',
           UNCHANGED <<tree, orderCalls, dropped, brokenPage>>,
           rowForm'.id \in CategoryIds \cup {NoId},
           catDialog'.id \in GroupIds \cup CategoryIds \cup {NoId},
           catCount' \in 0 .. MaxCategoryCalls
    PROVE  CategoriesInv'
<1>1. TreeMade(tree')
  BY DEF CategoriesInv
<1>2. DragSent'
  BY DEF CategoriesInv, DragSent
<1>3. CategoriesTypeOK'
  BY DEF CategoriesInv, CategoriesTypeOK, serverTyped, Ids
<1>. QED  BY <1>1, <1>2, <1>3 DEF CategoriesInv

LEMMA OrderLost ==
    ASSUME CategoriesInv, NEW p \in orderCalls, OrderNotSaved(p)
    PROVE  CategoriesInv'
<1>1. UNCHANGED <<serverVars, tree, rowForm, catDialog, catCalls, dropped, brokenPage, catCount>>
      /\ orderCalls' \subseteq orderCalls /\ mixed' = TRUE
  BY DEF OrderNotSaved
<1>2. TreeMade(tree')
  BY <1>1 DEF CategoriesInv
<1>3. DragSent'
  BY <1>1 DEF CategoriesInv, DragSent
<1>4. FormsMade'
  BY <1>1, FormsKept
<1>5. CategoriesTypeOK'
  BY <1>1 DEF CategoriesInv, CategoriesTypeOK, serverVars, Groups
<1>. QED  BY <1>2, <1>3, <1>4, <1>5 DEF CategoriesInv

LEMMA CallSucceeded ==
    ASSUME CategoriesInv, NEW k \in catCalls, CategoryCallSucceeds(k)
    PROVE  CategoriesInv'
<1>1. serverTyped'
  <2>1. serverTyped /\ IsCall(k) /\ CategoryOutcome(k)
    BY DEF CategoriesInv, CategoriesTypeOK, serverTyped, Ids, FormsMade, CategoryCallSucceeds
  <2>. QED  BY <2>1, OutcomeTyped
<1>2. /\ catDialog' = NoCategoryDialog \/ catDialog' = catDialog
      /\ rowForm' = NoRowForm \/ rowForm' = rowForm
      /\ catCalls' \subseteq catCalls
  BY DEF CategoryCallSucceeds
<1>3. FormsMade'
  BY <1>2 DEF CategoriesInv, FormsMade, NoCategoryDialog, NoRowForm
<1>4. /\ rowForm'.id \in CategoryIds \cup {NoId}
      /\ catDialog'.id \in GroupIds \cup CategoryIds \cup {NoId}
  BY <1>2 DEF CategoriesInv, CategoriesTypeOK, NoCategoryDialog, NoRowForm
<1>5. /\ catCount' \in 0 .. MaxCategoryCalls /\ mixed' = TRUE
      /\ UNCHANGED <<tree, orderCalls, dropped, brokenPage>>
  BY DEF CategoryCallSucceeds, CategoriesInv, CategoriesTypeOK
<1>. QED  BY <1>1, <1>3, <1>4, <1>5, ServerChanged

LEMMA ChangedByOthers == CategoriesInv /\ CategoriesChangeElsewhere => CategoriesInv'
<1>. SUFFICES ASSUME CategoriesInv, CategoriesChangeElsewhere PROVE CategoriesInv'
  OBVIOUS
<1>1. serverTyped'
  <2>1. PICK k : IsCall(k) /\ CategoryOutcome(k)
    <3>1. ASSUME NEW g \in Groups, CategoryOutcome(CategoryCall("deleteGroup", g))
          PROVE  \E k : IsCall(k) /\ CategoryOutcome(k)
      <4>1. IsCall(CategoryCall("deleteGroup", g))
        BY DEF CategoryCall, IsCall, CallNames
      <4>. QED  BY <3>1, <4>1
    <3>2. ASSUME NEW c \in CategoryIds, CategoryOutcome(CategoryCall("deleteCategory", c))
          PROVE  \E k : IsCall(k) /\ CategoryOutcome(k)
      <4>1. IsCall(CategoryCall("deleteCategory", c))
        BY DEF CategoryCall, IsCall, CallNames
      <4>. QED  BY <3>2, <4>1
    <3>. QED  BY <3>1, <3>2 DEF CategoriesChangeElsewhere
  <2>2. serverTyped
    BY DEF CategoriesInv, CategoriesTypeOK, serverTyped, Ids
  <2>. QED  BY <2>1, <2>2, OutcomeTyped
<1>2. UNCHANGED <<tree, orderCalls, rowForm, catDialog, catCalls, dropped, brokenPage>> /\ mixed' = TRUE
  BY DEF CategoriesChangeElsewhere
<1>3. FormsMade'
  BY <1>2, FormsKept
<1>4. /\ rowForm'.id \in CategoryIds \cup {NoId}
      /\ catDialog'.id \in GroupIds \cup CategoryIds \cup {NoId}
  BY <1>2 DEF CategoriesInv, CategoriesTypeOK
<1>5. catCount' \in 0 .. MaxCategoryCalls
  BY CategoriesAssumption
     DEF CategoriesChangeElsewhere, CountCall, CategoriesInv, CategoriesTypeOK
<1>. QED  BY <1>1, <1>2, <1>3, <1>4, <1>5, ServerChanged

LEMMA CategoriesStep == CategoriesInv /\ [CategoriesNext]_categoriesVars => CategoriesInv'
<1>. SUFFICES ASSUME CategoriesInv, [CategoriesNext]_categoriesVars PROVE CategoriesInv'
  OBVIOUS
<1>1. CASE UNCHANGED categoriesVars
  <2>1. UNCHANGED serverAndDrag /\ UNCHANGED <<tree, rowForm, catDialog, catCalls, brokenPage, catCount>>
    BY <1>1 DEF categoriesVars, serverAndDrag
  <2>. QED  BY <2>1, FormsKept, FormsStep DEF CategoriesInv, CategoriesTypeOK
<1>2. CASE TreeArrives
  BY <1>2, TreeHasArrived
<1>3. CASE CancelRow
  BY <1>3, RowShown DEF CancelRow, NoRowForm
<1>4. CASE OpenYnabImport
  BY <1>4, DialogShown DEF OpenYnabImport, NoCategoryDialog
<1>5. CASE CloseCategoryDialog
  BY <1>5, DialogShown DEF CloseCategoryDialog, NoCategoryDialog
<1>6. CASE SubmitRow
  BY <1>6, CallSent DEF SubmitRow, IsCall, CallNames
<1>7. CASE SubmitDialog
  BY <1>7, CallSent DEF SubmitDialog, IsCall, CallNames
<1>8. CASE SubmitNew
  BY <1>8, CallSent DEF SubmitNew, CategoryCall, IsCall, CallNames
<1>9. CASE SubmitImport
  <2>1. PICK rows \in SeqOf(Range(tree.groups) \cup {NoId}, MaxImportRows) :
            SendCategoryCall([name |-> "import", rows |-> rows])
    BY <1>9 DEF SubmitImport
  <2>2. DOMAIN rows \subseteq Nat
    BY CategoriesAssumption DEF SeqOf
  <2>3. IsCall([name |-> "import", rows |-> rows])
    BY <2>2 DEF IsCall, CallNames
  <2>. QED  BY <2>1, <2>3, CallSent
<1>10. CASE CategoriesChangeElsewhere
  BY <1>10, ChangedByOthers
<1>11. ASSUME NEW g \in GroupIds, NEW h \in GroupIds, DropGroup(g, h) PROVE CategoriesInv'
  BY <1>11, GroupsDropped
<1>12. ASSUME NEW c \in CategoryIds, NEW d \in CategoryIds, DropCategory(c, d) PROVE CategoriesInv'
  BY <1>12, CategoryDropped
<1>13. ASSUME NEW p \in orderCalls, OrderSaved(p) PROVE CategoriesInv'
  BY <1>13, OneOrderSaved
<1>14. ASSUME NEW p \in orderCalls, OrderNotSaved(p) PROVE CategoriesInv'
  BY <1>14, OrderLost
<1>15. ASSUME NEW c \in CategoryIds, StartCategoryEdit(c) PROVE CategoriesInv'
  BY <1>15, RowShown DEF StartCategoryEdit
<1>16. ASSUME NEW c \in CategoryIds, OpenCategoryDelete(c) PROVE CategoriesInv'
  BY <1>16, DialogShown DEF OpenCategoryDelete
<1>17. ASSUME NEW c \in CategoryIds, ChooseReassign(c) PROVE CategoriesInv'
  <2>1. [catDialog EXCEPT !.choice = c] = [name |-> catDialog.name, id |-> catDialog.id, choice |-> c]
    BY DEF CategoriesInv, FormsMade
  <2>. QED  BY <1>17, <2>1, DialogShown DEF ChooseReassign, CategoriesInv, CategoriesTypeOK
<1>18. ASSUME NEW g \in GroupIds, ChooseGroup(g) PROVE CategoriesInv'
  <2>1. [rowForm EXCEPT !.choice = g] = [id |-> rowForm.id, choice |-> g]
    BY DEF CategoriesInv, FormsMade
  <2>. QED  BY <1>18, <2>1, RowShown DEF ChooseGroup, CategoriesInv, CategoriesTypeOK
<1>19. ASSUME NEW g \in GroupIds, NEW n \in {"editGroup", "deleteGroup"}, OpenGroupDialog(n, g)
       PROVE  CategoriesInv'
  BY <1>19, DialogShown DEF OpenGroupDialog
<1>20. ASSUME NEW s \in GroupScopes, ChooseGroupScope(s) PROVE CategoriesInv'
  <2>1. [catDialog EXCEPT !.choice = s] = [name |-> catDialog.name, id |-> catDialog.id, choice |-> s]
    BY DEF CategoriesInv, FormsMade
  <2>. QED  BY <1>20, <2>1, DialogShown DEF ChooseGroupScope, CategoriesInv, CategoriesTypeOK
<1>21. ASSUME NEW k \in catCalls, CategoryCallSucceeds(k) PROVE CategoriesInv'
  BY <1>21, CallSucceeded
<1>22. ASSUME NEW k \in catCalls, CategoryCallFails(k) PROVE CategoriesInv'
  <2>1. UNCHANGED serverAndDrag /\ UNCHANGED <<tree, rowForm, catDialog, brokenPage, catCount>>
        /\ catCalls' \subseteq catCalls
    BY <1>22 DEF CategoryCallFails, serverAndDrag
  <2>2. FormsMade'
    BY <2>1 DEF CategoriesInv, FormsMade
  <2>. QED  BY <2>1, <2>2, FormsStep DEF CategoriesInv, CategoriesTypeOK
<1>. QED  BY <1>1, <1>2, <1>3, <1>4, <1>5, <1>6, <1>7, <1>8, <1>9, <1>10, <1>11, <1>12,
             <1>13, <1>14, <1>15, <1>16, <1>17, <1>18, <1>19, <1>20, <1>21, <1>22
          DEF CategoriesNext

(* The categories page keeps its types: a category always has a group that *)
(* is there, or is gone (CategoriesPage.tsx, routers/categories.py).       *)
THEOREM CategoriesTypesHold == CategoriesSpec => []CategoriesTypeOK
<1>1. CategoriesInv => CategoriesTypeOK
  BY DEF CategoriesInv
<1>. QED  BY <1>1, CategoriesInitially, CategoriesStep, PTL DEF CategoriesSpec

(* The PATCHes of a drag may arrive in any order, with refetches between   *)
(* them that put the old order back on the page: once all are through, the *)
(* server lists the items as they were dropped (CategoriesPage.tsx:        *)
(* handleDragEnd).                                                         *)
THEOREM DroppedOrderIsKept == CategoriesSpec => []OrderIsAsDropped
<1>1. CategoriesInv => OrderIsAsDropped
  <2>. SUFFICES ASSUME CategoriesInv, orderCalls = {}, ~mixed PROVE dropped = InOrder(Range(dropped))
    BY DEF OrderIsAsDropped
  <2>1. sortOrder \in [Ids -> Nat] /\ IsList(dropped, Ids)
        /\ \A k \in DOMAIN dropped : sortOrder[dropped[k]] = k - 1
    BY DEF CategoriesInv, CategoriesTypeOK, DragSent, Ids
  <2>. QED  BY <2>1, NumberedIsShown
<1>. QED  BY <1>1, CategoriesInitially, CategoriesStep, PTL DEF CategoriesSpec
=============================================================================
