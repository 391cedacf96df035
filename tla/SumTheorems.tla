---------------------------- MODULE SumTheorems ----------------------------
(***************************************************************************)
(* What MapThenSumSet computes: the facts about sums over finite sets on   *)
(* which the byte counter, the budget and the loss totals of the backlog   *)
(* rest.  Each is proved by taking a smallest set for which it fails: no   *)
(* induction theorem with an operator parameter is needed.                 *)
(***************************************************************************)
EXTENDS Integers, FiniteSets, FiniteSetsExt, FiniteSetTheorems, WellFoundedInduction, TLAPS

\* A collection of subsets of a finite set has a smallest member.
LEMMA SmallestSet ==
  ASSUME NEW S, IsFiniteSet(S), NEW C, C \subseteq SUBSET S, C # {}
  PROVE  \E T \in C : \A U \in C : U \subseteq T => U = T
<1>1. IsWellFoundedOn(StrictSubsetOrdering(S), SUBSET S)
  BY FS_StrictSubsetOrderingWellFounded, FS_FiniteSubsetsOfFinite
<1>2. PICK T \in C : \A U \in C : <<U, T>> \notin StrictSubsetOrdering(S)
  BY <1>1, WFMin
<1>3. ASSUME NEW U \in C, U \subseteq T, U # T PROVE FALSE
  BY <1>2, <1>3 DEF StrictSubsetOrdering
<1> QED BY <1>3

Pick(s) == CHOOSE x \in s : TRUE

\* The function that MapThenSumSet computes over the subsets of S.
Sums(f, S, g) ==
  g = [s \in SUBSET S |-> IF s = {} THEN 0 ELSE f[Pick(s)] + g[s \ {Pick(s)}]]

LEMMA PickIn == ASSUME NEW s, s # {} PROVE Pick(s) \in s
BY DEF Pick

LEMMA SumsAt ==
  ASSUME NEW f, NEW S, NEW g, Sums(f, S, g), NEW s \in SUBSET S
  PROVE  /\ s = {} => g[s] = 0
         /\ s # {} => g[s] = f[Pick(s)] + g[s \ {Pick(s)}]
<1>1. g[s] = IF s = {} THEN 0 ELSE f[Pick(s)] + g[s \ {Pick(s)}]
  BY DEF Sums
<1> QED BY <1>1

LEMMA SumsAgree ==
  ASSUME NEW f, NEW A, NEW B, NEW g, NEW h, Sums(f, A, g), Sums(f, B, h),
         NEW S, S \subseteq A, S \subseteq B, IsFiniteSet(S)
  PROVE  g[S] = h[S]
<1> DEFINE C == {T \in SUBSET S : g[T] # h[T]}
<1>1. SUFFICES ASSUME C # {} PROVE FALSE
  OBVIOUS
<1>2. PICK T \in C : \A U \in C : U \subseteq T => U = T
  <2>1. C \subseteq SUBSET S
    OBVIOUS
  <2> HIDE DEF C
  <2> QED BY <1>1, <2>1, SmallestSet
<1>3. T # {}
  BY SumsAt
<1>4. Pick(T) \in T /\ T \ {Pick(T)} \notin C
  BY <1>2, <1>3, PickIn
<1>5. g[T \ {Pick(T)}] = h[T \ {Pick(T)}]
  BY <1>4
<1>6. g[T] = f[Pick(T)] + g[T \ {Pick(T)}] /\ h[T] = f[Pick(T)] + h[T \ {Pick(T)}]
  BY <1>3, SumsAt
<1> QED BY <1>5, <1>6

LEMMA SumsExist ==
  ASSUME NEW f, NEW S, IsFiniteSet(S)
  PROVE  \E g : Sums(f, S, g)
<1> DEFINE C == {T \in SUBSET S : ~ \E g : Sums(f, T, g)}
<1>1. SUFFICES ASSUME C # {} PROVE FALSE
  OBVIOUS
<1>2. PICK T \in C : \A U \in C : U \subseteq T => U = T
  <2>1. C \subseteq SUBSET S
    OBVIOUS
  <2> HIDE DEF C
  <2> QED BY <1>1, <2>1, SmallestSet
<1> DEFINE G(U) == CHOOSE g : Sums(f, U, g)
           H(U) == G(U)[U]
           t == [s \in SUBSET T |-> IF s = {} THEN 0 ELSE f[Pick(s)] + H(s \ {Pick(s)})]
<1>3. \A U \in SUBSET T : U # T => Sums(f, U, G(U))
  <2>1. ASSUME NEW U \in SUBSET T, U # T PROVE \E g : Sums(f, U, g)
    BY <1>2, <2>1
  <2> QED BY <2>1
<1>4. ASSUME NEW U \in SUBSET T, U # T PROVE t[U] = H(U)
  <2>0. IsFiniteSet(U)
    BY FS_Subset
  <2>1. Sums(f, U, G(U))
    BY <1>3, <1>4
  <2> HIDE DEF G
  <2>2. CASE U = {}
    BY <2>1, <2>2, SumsAt
  <2>3. CASE U # {}
    <3> DEFINE V == U \ {Pick(U)}
    <3>1. Pick(U) \in U /\ V \subseteq U /\ V # T /\ V \in SUBSET T
      BY <2>3, PickIn
    <3>2. Sums(f, V, G(V))
      BY <1>3, <3>1
    <3>3. IsFiniteSet(V)
      BY <2>0, <3>1, FS_Subset
    <3>4. G(U)[V] = G(V)[V]
      BY <2>1, <3>1, <3>2, <3>3, SumsAgree
    <3>5. G(U)[U] = f[Pick(U)] + G(U)[V]
      BY <2>1, <2>3, SumsAt
    <3>6. t[U] = f[Pick(U)] + H(V)
      BY <2>3
    <3> QED BY <3>4, <3>5, <3>6
  <2> QED BY <2>2, <2>3
<1>5. ASSUME NEW s \in SUBSET T, s # {} PROVE H(s \ {Pick(s)}) = t[s \ {Pick(s)}]
  <2>1. Pick(s) \in s
    BY <1>5, PickIn
  <2> QED BY <1>4, <2>1
<1> HIDE DEF H, G
<1>6. Sums(f, T, t)
  BY <1>5 DEF Sums
<1> QED BY <1>2, <1>6

\* MapThenSumSet of a function's values.
Sum(f, S) == MapThenSumSet(LAMBDA x : f[x], S)

LEMMA SumIsSums ==
  ASSUME NEW f, NEW S, IsFiniteSet(S)
  PROVE  \E g : Sums(f, S, g) /\ Sum(f, S) = g[S]
<1> DEFINE iter[s \in SUBSET S] ==
             IF s = {} THEN 0
             ELSE LET x == CHOOSE x \in s : TRUE IN f[x] + iter[s \ {x}]
<1>1. Sum(f, S) = iter[S]
  BY DEF Sum, MapThenSumSet, MapThenFoldSet
<1> DEFINE Eq(g) == g = [s \in SUBSET S |->
                         IF s = {} THEN 0
                         ELSE LET x == CHOOSE x \in s : TRUE IN f[x] + g[s \ {x}]]
<1>2. \A g : Sums(f, S, g) <=> Eq(g)
  BY DEF Sums, Pick
<1>4. iter = CHOOSE g : Eq(g)
  OBVIOUS
<1> HIDE DEF Eq, iter
<1>3. \E g : Eq(g)
  <2>1. PICK g : Sums(f, S, g)
    BY SumsExist
  <2> QED BY <1>2, <2>1
<1>5. Eq(iter)
  BY <1>3, <1>4, Zenon
<1> QED BY <1>1, <1>2, <1>5

\* The recursion over S gives the sum of every subset of S.
LEMMA SumOfSubsets ==
  ASSUME NEW f, NEW S, IsFiniteSet(S), NEW g, Sums(f, S, g), NEW T \in SUBSET S
  PROVE  Sum(f, T) = g[T]
<1>1. IsFiniteSet(T)
  BY FS_Subset
<1>2. PICK h : Sums(f, T, h) /\ Sum(f, T) = h[T]
  BY <1>1, SumIsSums
<1>3. h[T] = g[T]
  BY <1>1, <1>2, SumsAgree
<1> QED BY <1>2, <1>3

LEMMA SumPick ==
  ASSUME NEW f, NEW S, IsFiniteSet(S)
  PROVE  /\ S = {} => Sum(f, S) = 0
         /\ S # {} => Pick(S) \in S /\ Sum(f, S) = f[Pick(S)] + Sum(f, S \ {Pick(S)})
<1>1. PICK g : Sums(f, S, g)
  BY SumsExist
<1>2. \A T \in SUBSET S : Sum(f, T) = g[T]
  BY <1>1, SumOfSubsets
<1>3. /\ S = {} => g[S] = 0
      /\ S # {} => g[S] = f[Pick(S)] + g[S \ {Pick(S)}]
  BY <1>1, SumsAt
<1> QED BY <1>2, <1>3, PickIn

\* A sum of naturals is a natural.
LEMMA SumType ==
  ASSUME NEW S, IsFiniteSet(S), NEW f, \A x \in S : f[x] \in Nat
  PROVE  Sum(f, S) \in Nat
<1> DEFINE C == {T \in SUBSET S : Sum(f, T) \notin Nat}
<1>1. SUFFICES ASSUME C # {} PROVE FALSE
  OBVIOUS
<1>2. PICK T \in C : \A U \in C : U \subseteq T => U = T
  <2>1. C \subseteq SUBSET S
    OBVIOUS
  <2> HIDE DEF C
  <2> QED BY <1>1, <2>1, SmallestSet
<1>3. IsFiniteSet(T)
  BY FS_Subset
<1>4. T # {} /\ Pick(T) \in T /\ Sum(f, T) = f[Pick(T)] + Sum(f, T \ {Pick(T)})
  <2>1. Sum(f, T) \notin Nat
    BY <1>2
  <2>2. T = {} => Sum(f, T) = 0
    BY <1>3, SumPick
  <2>3. T # {}
    BY <2>1, <2>2
  <2> QED BY <1>3, <2>3, SumPick
<1>5. Sum(f, T \ {Pick(T)}) \in Nat
  BY <1>2, <1>4
<1> QED BY <1>4, <1>5

\* Any element may be taken out of a sum.
LEMMA SumRemove ==
  ASSUME NEW S, IsFiniteSet(S), NEW f, \A x \in S : f[x] \in Nat, NEW x \in S
  PROVE  Sum(f, S) = f[x] + Sum(f, S \ {x})
<1> DEFINE Splits(T) == \A y \in T : Sum(f, T) = f[y] + Sum(f, T \ {y})
           C == {T \in SUBSET S : ~Splits(T)}
<1>1. SUFFICES ASSUME C # {} PROVE FALSE
  OBVIOUS
<1>2. PICK T \in C : \A U \in C : U \subseteq T => U = T
  <2>1. C \subseteq SUBSET S
    OBVIOUS
  <2> HIDE DEF C
  <2> QED BY <1>1, <2>1, SmallestSet
<1>3. PICK y \in T : Sum(f, T) # f[y] + Sum(f, T \ {y})
  BY <1>2
<1> DEFINE c == Pick(T)
<1>4. IsFiniteSet(T)
  BY FS_Subset
<1>5. c \in T /\ Sum(f, T) = f[c] + Sum(f, T \ {c})
  BY <1>3, <1>4, SumPick
<1> HIDE DEF c
<1>6. y # c
  BY <1>3, <1>5
<1>7. \A U \in SUBSET T : U # T => Splits(U)
  BY <1>2
<1>8. Sum(f, T \ {c}) = f[y] + Sum(f, (T \ {c}) \ {y})
  BY <1>5, <1>6, <1>7
<1>9. Sum(f, T \ {y}) = f[c] + Sum(f, (T \ {y}) \ {c})
  BY <1>5, <1>6, <1>7
<1>10. Sum(f, (T \ {c}) \ {y}) = Sum(f, (T \ {y}) \ {c})
  <2>1. (T \ {c}) \ {y} = (T \ {y}) \ {c}
    OBVIOUS
  <2> QED BY <2>1, Zenon
<1>11. IsFiniteSet((T \ {y}) \ {c}) /\ Sum(f, (T \ {y}) \ {c}) \in Nat
  <2>1. (T \ {y}) \ {c} \in SUBSET T
    OBVIOUS
  <2>2. IsFiniteSet((T \ {y}) \ {c})
    BY <1>4, <2>1, FS_Subset
  <2> QED BY <2>1, <2>2, SumType
<1>12. f[c] \in Nat /\ f[y] \in Nat
  BY <1>5
<1> QED BY <1>3, <1>5, <1>8, <1>9, <1>10, <1>11, <1>12

\* A sum is that of a part and of the rest.
LEMMA SumSplit ==
  ASSUME NEW S, IsFiniteSet(S), NEW f, \A x \in S : f[x] \in Nat, NEW D \in SUBSET S
  PROVE  Sum(f, S) = Sum(f, D) + Sum(f, S \ D)
<1> DEFINE C == {T \in SUBSET D : Sum(f, S) # Sum(f, T) + Sum(f, S \ T)}
<1>1. SUFFICES ASSUME C # {} PROVE FALSE
  OBVIOUS
<1>2. PICK T \in C : \A U \in C : U \subseteq T => U = T
  <2>1. C \subseteq SUBSET S
    OBVIOUS
  <2> HIDE DEF C
  <2> QED BY <1>1, <2>1, SmallestSet
<1>a. ASSUME NEW U \in SUBSET S PROVE IsFiniteSet(U) /\ Sum(f, U) \in Nat
  <2>1. IsFiniteSet(U)
    BY FS_Subset
  <2> QED BY <2>1, SumType
<1>3. T # {}
  <2>1. SUFFICES ASSUME T = {} PROVE FALSE
    OBVIOUS
  <2>2. S \ T = S
    BY <2>1
  <2>3. Sum(f, S \ T) = Sum(f, S)
    BY <2>2, Zenon
  <2>4. Sum(f, T) = 0 /\ Sum(f, S) \in Nat
    BY <2>1, <1>a, SumPick
  <2>5. Sum(f, S) # Sum(f, T) + Sum(f, S \ T)
    BY <1>2
  <2> QED BY <2>3, <2>4, <2>5
<1>4. PICK y : y \in T
  BY <1>3
<1>5. T \ {y} \notin C
  BY <1>2, <1>4
<1>6. Sum(f, S) = Sum(f, T \ {y}) + Sum(f, S \ (T \ {y}))
  BY <1>5
<1>7. Sum(f, T) = f[y] + Sum(f, T \ {y})
  BY <1>4, <1>a, SumRemove
<1>8. Sum(f, S \ (T \ {y})) = f[y] + Sum(f, S \ T)
  <2>1. (S \ (T \ {y})) \ {y} = S \ T /\ y \in S \ (T \ {y}) /\ S \ (T \ {y}) \in SUBSET S
    BY <1>4
  <2> QED BY <2>1, <1>a, SumRemove
<1>9. /\ f[y] \in Nat /\ Sum(f, T) \in Nat /\ Sum(f, T \ {y}) \in Nat /\ Sum(f, S \ T) \in Nat
      /\ Sum(f, S) # Sum(f, T) + Sum(f, S \ T)
  BY <1>2, <1>4, <1>a
<1> QED BY <1>6, <1>7, <1>8, <1>9

\* It depends on the values it adds only.
LEMMA SumSame ==
  ASSUME NEW S, IsFiniteSet(S), NEW f, NEW h, \A x \in S : f[x] = h[x]
  PROVE  Sum(f, S) = Sum(h, S)
<1> DEFINE C == {T \in SUBSET S : Sum(f, T) # Sum(h, T)}
<1>1. SUFFICES ASSUME C # {} PROVE FALSE
  OBVIOUS
<1>2. PICK T \in C : \A U \in C : U \subseteq T => U = T
  <2>1. C \subseteq SUBSET S
    OBVIOUS
  <2> HIDE DEF C
  <2> QED BY <1>1, <2>1, SmallestSet
<1>3. IsFiniteSet(T)
  BY FS_Subset
<1>4. T # {}
  BY <1>2, <1>3, SumPick
<1>5. /\ Pick(T) \in T /\ Sum(f, T) = f[Pick(T)] + Sum(f, T \ {Pick(T)})
      /\ Sum(h, T) = h[Pick(T)] + Sum(h, T \ {Pick(T)})
  BY <1>3, <1>4, SumPick
<1>6. T \ {Pick(T)} \notin C /\ Pick(T) \in S
  BY <1>2, <1>5
<1> QED BY <1>2, <1>5, <1>6

\* A part adds up to no more than the whole.
LEMMA SumSubset ==
  ASSUME NEW S, IsFiniteSet(S), NEW f, \A x \in S : f[x] \in Nat, NEW D \in SUBSET S
  PROVE  Sum(f, D) \in Nat /\ Sum(f, S) \in Nat /\ Sum(f, D) <= Sum(f, S)
<1>1. S \ D \in SUBSET S /\ IsFiniteSet(D) /\ IsFiniteSet(S \ D)
  BY FS_Subset
<1>2. Sum(f, D) \in Nat /\ Sum(f, S \ D) \in Nat
  BY <1>1, SumType
<1>3. Sum(f, S) = Sum(f, D) + Sum(f, S \ D)
  BY SumSplit
<1> QED BY <1>2, <1>3

\* Smaller values add up to a smaller sum.
LEMMA SumMonotone ==
  ASSUME NEW S, IsFiniteSet(S), NEW f, NEW h,
         \A x \in S : f[x] \in Nat /\ h[x] \in Nat /\ f[x] <= h[x]
  PROVE  Sum(f, S) <= Sum(h, S)
<1> DEFINE C == {T \in SUBSET S : ~(Sum(f, T) <= Sum(h, T))}
<1>1. SUFFICES ASSUME C # {} PROVE FALSE
  OBVIOUS
<1>2. PICK T \in C : \A U \in C : U \subseteq T => U = T
  <2>1. C \subseteq SUBSET S
    OBVIOUS
  <2> HIDE DEF C
  <2> QED BY <1>1, <2>1, SmallestSet
<1>3. IsFiniteSet(T) /\ ~(Sum(f, T) <= Sum(h, T))
  BY <1>2, FS_Subset
<1>4. T # {}
  <2>1. T = {} => Sum(f, T) = 0 /\ Sum(h, T) = 0
    BY <1>3, SumPick
  <2> QED BY <1>3, <2>1
<1> DEFINE c == Pick(T)
<1>5. /\ c \in T /\ Sum(f, T) = f[c] + Sum(f, T \ {c})
      /\ Sum(h, T) = h[c] + Sum(h, T \ {c})
  BY <1>3, <1>4, SumPick
<1> HIDE DEF c
<1>6. Sum(f, T \ {c}) <= Sum(h, T \ {c})
  BY <1>2, <1>5
<1>7. /\ Sum(f, T \ {c}) \in Nat /\ Sum(h, T \ {c}) \in Nat
      /\ f[c] \in Nat /\ h[c] \in Nat /\ f[c] <= h[c]
  <2>1. IsFiniteSet(T \ {c}) /\ c \in S /\ \A x \in T \ {c} : f[x] \in Nat /\ h[x] \in Nat
    BY <1>3, <1>5, FS_RemoveElement
  <2> QED BY <2>1, SumType
<1> QED BY <1>3, <1>5, <1>6, <1>7

\* One value raised raises the sum as much.
LEMMA SumRaise ==
  ASSUME NEW S, IsFiniteSet(S), NEW f \in [S -> Nat], NEW h \in [S -> Nat],
         NEW x \in S, NEW d \in Nat, h[x] = f[x] + d, \A y \in S \ {x} : h[y] = f[y]
  PROVE  Sum(h, S) = Sum(f, S) + d
<1>2. IsFiniteSet(S \ {x})
  BY FS_RemoveElement
<1>3. Sum(h, S) = h[x] + Sum(h, S \ {x}) /\ Sum(f, S) = f[x] + Sum(f, S \ {x})
  BY SumRemove
<1>4. Sum(h, S \ {x}) = Sum(f, S \ {x})
  BY <1>2, SumSame
<1>5. Sum(f, S \ {x}) \in Nat
  BY <1>2, SumType
<1>6. f[x] \in Nat
  OBVIOUS
<1> QED BY <1>3, <1>4, <1>5, <1>6
============================================================================
