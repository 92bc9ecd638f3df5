------------------------ MODULE CapitalRegistry_proofs ------------------------
(***************************************************************************)
(* Sums over finite sets, as the registry adds up its reservations and the *)
(* pipeline its positions: what adding, removing and changing one element  *)
(* does to the sum.  A smallest counterexample stands where induction      *)
(* would: the library's induction rules take an operator, its theorem that *)
(* proper inclusion is well founded does not.                              *)
(***************************************************************************)
EXTENDS CapitalRegistry, FiniteSetTheorems, WellFoundedInduction, TLAPS

\* Among sets of subsets of a finite set there is a smallest one.
LEMMA SmallestSet ==
    ASSUME NEW S, IsFiniteSet(S), NEW B \in SUBSET (SUBSET S), B # {}
    PROVE  \E T \in B : \A U \in SUBSET T : U # T => U \notin B
<1>1. IsWellFoundedOn(StrictSubsetOrdering(S), SUBSET S)
  BY FS_StrictSubsetOrderingWellFounded, FS_FiniteSubsetsOfFinite
<1>2. PICK T \in B : \A U \in B : <<U, T>> \notin StrictSubsetOrdering(S)
  BY <1>1, WFMin
<1>3. ASSUME NEW U \in SUBSET T, U # T, U \in B PROVE FALSE
  <2>1. <<U, T>> \in StrictSubsetOrdering(S)
    BY <1>3 DEF StrictSubsetOrdering
  <2> QED
    BY <1>2, <1>3, <2>1
<1> QED
  BY <1>3

Chosen(T) == CHOOSE x \in T : TRUE

\* The recursive function behind a sum: g adds f up over every subset of S.
Adds(f, S, g) ==
    g = [T \in SUBSET S |-> IF T = {} THEN 0 ELSE f[Chosen(T)] + g[T \ {Chosen(T)}]]

SumOf(f, S) == (CHOOSE g : Adds(f, S, g))[S]

LEMMA ChosenFacts ==
    ASSUME NEW T, T # {}
    PROVE  /\ Chosen(T) \in T
           /\ T \ {Chosen(T)} \subseteq T
           /\ T \ {Chosen(T)} # T
  BY DEF Chosen

LEMMA AddsEmpty ==
    ASSUME NEW S, NEW f, NEW g, Adds(f, S, g)
    PROVE  g[{}] = 0
  BY DEF Adds

LEMMA AddsStep ==
    ASSUME NEW S, NEW f, NEW g, Adds(f, S, g), NEW T, T \subseteq S, T # {}
    PROVE  g[T] = f[Chosen(T)] + g[T \ {Chosen(T)}]
  BY DEF Adds

\* Two such functions agree where both are defined.
LEMMA AddsUnique ==
    ASSUME NEW S, IsFiniteSet(S), NEW f, NEW Sg, NEW g, NEW Sh, NEW h,
           S \subseteq Sg, S \subseteq Sh, Adds(f, Sg, g), Adds(f, Sh, h)
    PROVE  \A T \in SUBSET S : g[T] = h[T]
<1> DEFINE B == {T \in SUBSET S : g[T] # h[T]}
<1> SUFFICES ASSUME B # {} PROVE FALSE
  OBVIOUS
<1>1. B \in SUBSET (SUBSET S)
  OBVIOUS
<1> HIDE DEF B
<1>2. PICK T \in B : \A U \in SUBSET T : U # T => U \notin B
  BY <1>1, SmallestSet
<1>3. T \subseteq Sg /\ T \subseteq Sh /\ T \subseteq S /\ g[T] # h[T]
  BY <1>2 DEF B
<1>4. CASE T = {}
  <2>1. g[T] = 0
    BY <1>4, AddsEmpty
  <2>2. h[T] = 0
    BY <1>4, AddsEmpty
  <2> QED
    BY <1>3, <2>1, <2>2
<1>5. CASE T # {}
  <2> DEFINE U == T \ {Chosen(T)}
  <2>1. U # T /\ U \subseteq T
    BY <1>5, ChosenFacts
  <2>2. g[T] = f[Chosen(T)] + g[U]
    BY <1>3, <1>5, AddsStep
  <2>3. h[T] = f[Chosen(T)] + h[U]
    BY <1>3, <1>5, AddsStep
  <2>4. g[U] = h[U]
    BY <1>2, <1>3, <2>1 DEF B
  <2> QED
    BY <1>3, <2>2, <2>3, <2>4
<1> QED
  BY <1>4, <1>5

\* The function exists: a finite set is summed by way of its subsets.
LEMMA AddsExists ==
    ASSUME NEW S, IsFiniteSet(S), NEW f
    PROVE  \E g : Adds(f, S, g)
<1> DEFINE B == {T \in SUBSET S : ~ \E g : Adds(f, T, g)}
<1> SUFFICES ASSUME B # {} PROVE FALSE
  BY DEF Adds
<1>0. B \in SUBSET (SUBSET S)
  OBVIOUS
<1> HIDE DEF B
<1>1. PICK T \in B : \A U \in SUBSET T : U # T => U \notin B
  BY <1>0, SmallestSet
<1>2. T \in SUBSET S /\ ~ \E g : Adds(f, T, g)
  BY <1>1 DEF B
<1> DEFINE part(V) == (CHOOSE g : Adds(f, V, g))[V]
           whole == IF T = {} THEN 0 ELSE f[Chosen(T)] + part(T \ {Chosen(T)})
           total == [V \in SUBSET T |-> IF V = T THEN whole ELSE part(V)]
<1>3. \A V \in SUBSET T : V # T => Adds(f, V, CHOOSE g : Adds(f, V, g))
  <2> TAKE V \in SUBSET T
  <2> HAVE V # T
  <2>1. \E g : Adds(f, V, g)
    BY <1>1, <1>2 DEF B
  <2> QED
    BY <2>1, Zenon
<1>4. ASSUME NEW V \in SUBSET T, V # T, V # {}
      PROVE  part(V) = f[Chosen(V)] + part(V \ {Chosen(V)})
  <2> DEFINE W == V \ {Chosen(V)}
             gV == CHOOSE g : Adds(f, V, g)
             gW == CHOOSE g : Adds(f, W, g)
  <2>1. Chosen(V) \in V
    BY <1>4 DEF Chosen
  <2>2. W \in SUBSET T /\ W # T /\ W \subseteq V
    BY <1>4, <2>1
  <2>3. Adds(f, V, gV) /\ Adds(f, W, gW)
    BY <1>3, <1>4, <2>2
  <2>4. IsFiniteSet(W)
    BY <1>2, <2>2, FS_Subset
  <2> HIDE DEF gV, gW
  <2>5. gV[V] = f[Chosen(V)] + gV[W]
    BY <1>4, <2>3, AddsStep
  <2> HIDE DEF W
  <2>6. gV[W] = gW[W]
    <3>1. W \in SUBSET W /\ W \subseteq W
      OBVIOUS
    <3>2. \A X \in SUBSET W : gV[X] = gW[X]
      BY <2>2, <2>3, <2>4, AddsUnique
    <3> QED
      BY <3>1, <3>2
  <2> QED
    BY <2>5, <2>6 DEF gV, gW, W
<1>5. {} # T => part({}) = 0
  <2> SUFFICES ASSUME {} # T PROVE part({}) = 0
    OBVIOUS
  <2>1. Adds(f, {}, CHOOSE g : Adds(f, {}, g))
    BY <1>3
  <2> DEFINE g0 == CHOOSE g : Adds(f, {}, g)
  <2> HIDE DEF g0
  <2>3. Adds(f, {}, g0)
    BY <2>1 DEF g0
  <2>4. g0[{}] = 0
    BY <2>3, AddsEmpty
  <2> QED
    BY <2>4 DEF g0
<1> HIDE DEF part
<1>6. ASSUME NEW V \in SUBSET T
      PROVE  total[V] = IF V = {} THEN 0 ELSE f[Chosen(V)] + total[V \ {Chosen(V)}]
  <2>1. V # {} => V \ {Chosen(V)} # T /\ V \ {Chosen(V)} \in SUBSET T
    BY DEF Chosen
  <2>2. CASE V = T
    BY <1>6, <2>1, <2>2
  <2>3. CASE V # T
    BY <1>4, <1>5, <1>6, <2>1, <2>3
  <2> QED
    BY <2>2, <2>3
<1>7. Adds(f, T, total)
  <2> HIDE DEF whole
  <2>1. total = [V \in SUBSET T |-> total[V]]
    OBVIOUS
  <2> HIDE DEF total
  <2> QED
    BY <1>6, <2>1 DEF Adds
<1> QED
  BY <1>2, <1>7

\* A sum over a subset is the same whichever function it is read from.
LEMMA SumOfAny ==
    ASSUME NEW S, IsFiniteSet(S), NEW f, NEW g, NEW T, T \subseteq S, Adds(f, S, g)
    PROVE  g[T] = SumOf(f, T)
<1> DEFINE h == CHOOSE g1 : Adds(f, T, g1)
<1>1. IsFiniteSet(T)
  BY FS_Subset
<1>2. \E g1 : Adds(f, T, g1)
  BY <1>1, AddsExists
<1>3. Adds(f, T, h)
  BY <1>2, Zenon
<1> HIDE DEF h
<1>4. \A U \in SUBSET T : g[U] = h[U]
  BY <1>1, <1>3, AddsUnique
<1>5. T \in SUBSET T
  OBVIOUS
<1> QED
  BY <1>4, <1>5 DEF SumOf, h

LEMMA SumEmpty ==
    ASSUME NEW f
    PROVE  SumOf(f, {}) = 0
<1>1. IsFiniteSet({})
  BY FS_EmptySet
<1>2. PICK g : Adds(f, {}, g)
  BY <1>1, AddsExists
<1>3. g[{}] = 0
  BY <1>2, AddsEmpty
<1>4. g[{}] = SumOf(f, {})
  BY <1>1, <1>2, SumOfAny
<1> QED
  BY <1>3, <1>4

\* The sum takes its elements in some order ...
LEMMA SumStep ==
    ASSUME NEW S, IsFiniteSet(S), NEW f, S # {}
    PROVE  SumOf(f, S) = f[Chosen(S)] + SumOf(f, S \ {Chosen(S)})
<1>1. PICK g : Adds(f, S, g)
  BY AddsExists
<1>2. S \subseteq S /\ S \ {Chosen(S)} \subseteq S
  OBVIOUS
<1>3. g[S] = f[Chosen(S)] + g[S \ {Chosen(S)}]
  BY <1>1, <1>2, AddsStep
<1>4. g[S] = SumOf(f, S)
  BY <1>1, <1>2, SumOfAny
<1>5. g[S \ {Chosen(S)}] = SumOf(f, S \ {Chosen(S)})
  BY <1>1, <1>2, SumOfAny
<1> QED
  BY <1>3, <1>4, <1>5

LEMMA SumInt ==
    ASSUME NEW S, IsFiniteSet(S), NEW f, \A x \in S : f[x] \in Int
    PROVE  SumOf(f, S) \in Int
<1> DEFINE B == {T \in SUBSET S : SumOf(f, T) \notin Int}
<1> SUFFICES ASSUME B # {} PROVE FALSE
  OBVIOUS
<1>1. B \in SUBSET (SUBSET S)
  OBVIOUS
<1> HIDE DEF B
<1>2. PICK T \in B : \A U \in SUBSET T : U # T => U \notin B
  BY <1>1, SmallestSet
<1>3. T \subseteq S /\ SumOf(f, T) \notin Int
  BY <1>2 DEF B
<1>4. IsFiniteSet(T)
  BY <1>3, FS_Subset
<1>5. T # {}
  BY <1>3, SumEmpty
<1> DEFINE U == T \ {Chosen(T)}
<1>6. U \subseteq T /\ U # T /\ Chosen(T) \in T
  BY <1>5, ChosenFacts
<1>7. SumOf(f, T) = f[Chosen(T)] + SumOf(f, U)
  BY <1>4, <1>5, SumStep
<1>8. SumOf(f, U) \in Int
  BY <1>2, <1>3, <1>6 DEF B
<1>9. f[Chosen(T)] \in Int
  BY <1>3, <1>6
<1> HIDE DEF U
<1> QED
  BY <1>3, <1>7, <1>8, <1>9

\* ... and the order does not matter: any element may be taken first.
LEMMA SumRemove ==
    ASSUME NEW S, IsFiniteSet(S), NEW f, \A x \in S : f[x] \in Int, NEW e \in S
    PROVE  SumOf(f, S) = f[e] + SumOf(f, S \ {e})
<1> DEFINE B == {T \in SUBSET S : ~ \A x \in T : SumOf(f, T) = f[x] + SumOf(f, T \ {x})}
<1> SUFFICES ASSUME B # {} PROVE FALSE
  OBVIOUS
<1>1. B \in SUBSET (SUBSET S)
  OBVIOUS
<1> HIDE DEF B
<1>2. PICK T \in B : \A U \in SUBSET T : U # T => U \notin B
  BY <1>1, SmallestSet
<1>3. T \subseteq S
  BY <1>2 DEF B
<1>4. PICK x \in T : SumOf(f, T) # f[x] + SumOf(f, T \ {x})
  BY <1>2 DEF B
<1>5. IsFiniteSet(T) /\ T # {}
  BY <1>3, <1>4, FS_Subset
<1> DEFINE y == Chosen(T)
           U == T \ {y}
           V == T \ {x}
           W == (T \ {y}) \ {x}
<1>6. y \in T /\ U \subseteq T /\ U # T
  BY <1>5, ChosenFacts
<1>7. SumOf(f, T) = f[y] + SumOf(f, U)
  BY <1>5, SumStep
<1>8. x # y
  BY <1>4, <1>7
<1> HIDE DEF y
<1>9. x \in U /\ y \in V /\ V \subseteq T /\ V # T /\ W = V \ {y} /\ W \subseteq S
      /\ U \subseteq S /\ V \subseteq S
  BY <1>3, <1>4, <1>6, <1>8
<1>10. SumOf(f, U) = f[x] + SumOf(f, U \ {x})
  <2>1. U \notin B
    BY <1>2, <1>6
  <2> QED
    BY <1>9, <2>1 DEF B
<1>11. SumOf(f, V) = f[y] + SumOf(f, V \ {y})
  <2>1. V \notin B
    BY <1>2, <1>9
  <2> QED
    BY <1>9, <2>1 DEF B
<1>12. f[x] \in Int /\ f[y] \in Int
  BY <1>3, <1>4, <1>6
<1>13. SumOf(f, W) \in Int
  <2>1. IsFiniteSet(W) /\ \A z \in W : f[z] \in Int
    BY <1>9, FS_Subset
  <2> QED
    BY <2>1, SumInt
<1>14. V \ {y} = W /\ U \ {x} = W
  BY <1>9
<1>15. SumOf(f, U) = f[x] + SumOf(f, W)
  BY <1>10, <1>14
<1>16. SumOf(f, V) = f[y] + SumOf(f, W)
  BY <1>11, <1>14
<1> DEFINE sT == SumOf(f, T)
           sU == SumOf(f, U)
           sV == SumOf(f, V)
           sW == SumOf(f, W)
<1> HIDE DEF U, V, W, sT, sU, sV, sW
<1>17. sT # f[x] + sV
  BY <1>4 DEF sT, sV, V
<1> QED
  BY <1>7, <1>12, <1>13, <1>15, <1>16, <1>17 DEF sT, sU, sV, sW

\* Functions that agree on a set have the same sum over it.
LEMMA SumSame ==
    ASSUME NEW S, IsFiniteSet(S), NEW f, NEW g, \A x \in S : f[x] = g[x]
    PROVE  SumOf(f, S) = SumOf(g, S)
<1> DEFINE B == {T \in SUBSET S : SumOf(f, T) # SumOf(g, T)}
<1> SUFFICES ASSUME B # {} PROVE FALSE
  OBVIOUS
<1>1. B \in SUBSET (SUBSET S)
  OBVIOUS
<1> HIDE DEF B
<1>2. PICK T \in B : \A U \in SUBSET T : U # T => U \notin B
  BY <1>1, SmallestSet
<1>3. T \subseteq S /\ SumOf(f, T) # SumOf(g, T)
  BY <1>2 DEF B
<1>4. IsFiniteSet(T)
  BY <1>3, FS_Subset
<1>5. T # {}
  BY <1>3, SumEmpty
<1> DEFINE U == T \ {Chosen(T)}
<1>6. U \subseteq T /\ U # T /\ Chosen(T) \in T
  BY <1>5, ChosenFacts
<1>7. SumOf(f, T) = f[Chosen(T)] + SumOf(f, U)
  BY <1>4, <1>5, SumStep
<1>8. SumOf(g, T) = g[Chosen(T)] + SumOf(g, U)
  BY <1>4, <1>5, SumStep
<1>9. SumOf(f, U) = SumOf(g, U)
  BY <1>2, <1>3, <1>6 DEF B
<1>10. f[Chosen(T)] = g[Chosen(T)]
  BY <1>3, <1>6
<1> QED
  BY <1>3, <1>7, <1>8, <1>9, <1>10

\* Changing one element changes the sum by the difference.
LEMMA SumChange ==
    ASSUME NEW S, IsFiniteSet(S), NEW f, NEW g, NEW e \in S,
           \A x \in S : f[x] \in Int, g[e] \in Int,
           \A x \in S \ {e} : g[x] = f[x]
    PROVE  SumOf(g, S) = SumOf(f, S) - f[e] + g[e]
<1>1. SumOf(f, S) = f[e] + SumOf(f, S \ {e})
  BY SumRemove
<1>2. \A x \in S : g[x] \in Int
  OBVIOUS
<1>3. SumOf(g, S) = g[e] + SumOf(g, S \ {e})
  BY <1>2, SumRemove
<1>4. IsFiniteSet(S \ {e})
  BY FS_RemoveElement
<1>5. SumOf(f, S \ {e}) = SumOf(g, S \ {e})
  BY <1>4, SumSame
<1>6. SumOf(f, S \ {e}) \in Int
  BY <1>4, SumInt
<1>7. f[e] \in Int /\ g[e] \in Int
  OBVIOUS
<1> QED
  BY <1>1, <1>3, <1>5, <1>6, <1>7

\* A sum of naturals is not less than the sum over a part.
LEMMA SumMonotone ==
    ASSUME NEW S, IsFiniteSet(S), NEW f, \A x \in S : f[x] \in Nat, NEW P, P \subseteq S
    PROVE  SumOf(f, P) <= SumOf(f, S)
<1> DEFINE B == {U \in SUBSET S : \E T \in SUBSET U : ~(SumOf(f, T) <= SumOf(f, U))}
<1> SUFFICES ASSUME B # {} PROVE FALSE
  OBVIOUS
<1>1. B \in SUBSET (SUBSET S)
  OBVIOUS
<1> HIDE DEF B
<1>2. PICK U \in B : \A V \in SUBSET U : V # U => V \notin B
  BY <1>1, SmallestSet
<1>3. PICK T \in SUBSET U : ~(SumOf(f, T) <= SumOf(f, U))
  BY <1>2 DEF B
<1>4. U \subseteq S
  BY <1>2 DEF B
<1>5. IsFiniteSet(U) /\ \A x \in U : f[x] \in Int
  BY <1>4, FS_Subset
<1>6. SumOf(f, U) \in Int
  BY <1>5, SumInt
<1>7. PICK x \in U : x \notin T
  <2>1. T # U
    BY <1>3, <1>6
  <2> QED
    BY <2>1
<1> DEFINE V == U \ {x}
<1>8. V \subseteq U /\ V # U /\ T \subseteq V /\ V \subseteq S
  BY <1>4, <1>7
<1>9. SumOf(f, U) = f[x] + SumOf(f, V)
  BY <1>5, SumRemove
<1> HIDE DEF V
<1>10. SumOf(f, T) <= SumOf(f, V)
  BY <1>2, <1>8 DEF B
<1>11. SumOf(f, V) \in Int /\ SumOf(f, T) \in Int
  <2>1. IsFiniteSet(V) /\ (\A y \in V : f[y] \in Int)
    BY <1>8, FS_Subset
  <2>2. IsFiniteSet(T) /\ (\A y \in T : f[y] \in Int)
    BY <1>5, FS_Subset
  <2> QED
    BY <2>1, <2>2, SumInt
<1>12. f[x] \in Nat
  BY <1>4
<1> QED
  BY <1>3, <1>6, <1>9, <1>10, <1>11, <1>12

LEMMA SumNat ==
    ASSUME NEW S, IsFiniteSet(S), NEW f, \A x \in S : f[x] \in Nat
    PROVE  SumOf(f, S) \in Nat
<1>1. SumOf(f, S) \in Int
  BY SumInt
<1>2. SumOf(f, {}) <= SumOf(f, S)
  BY SumMonotone
<1> QED
  BY <1>1, <1>2, SumEmpty

-----------------------------------------------------------------------------
(* The registry's sum *)

ReservedIn(res) == MapThenSumSet(LAMBDA r : res[r].amount, DOMAIN res)
AmountsOf(res) == [r \in DOMAIN res |-> res[r].amount]

\* The recursive function that ReservedIn unfolds to.
AddsAmounts(res, g) ==
    g = [s \in SUBSET DOMAIN res |->
            IF s = {} THEN 0
            ELSE LET x == CHOOSE x \in s : TRUE
                 IN  res[x].amount + g[s \ {x}]]

\* What the registry adds up is the sum of the amounts of its reservations.
LEMMA ReservedSum ==
    ASSUME NEW res, IsFiniteSet(DOMAIN res)
    PROVE  ReservedIn(res) = SumOf(AmountsOf(res), DOMAIN res)
<1> DEFINE D == DOMAIN res
           f == AmountsOf(res)
           iter == CHOOSE g : AddsAmounts(res, g)
<1>1. \A g : AddsAmounts(res, g) <=> Adds(f, D, g)
  <2> TAKE g
  <2>1. \A s \in SUBSET D : s # {} => f[Chosen(s)] = res[Chosen(s)].amount
    BY ChosenFacts DEF AmountsOf
  <2> HIDE DEF f
  <2> QED
    BY <2>1 DEF Adds, AddsAmounts, Chosen
<1> HIDE DEF f
<1>2. \E g : AddsAmounts(res, g)
  BY <1>1, AddsExists
<1>3. AddsAmounts(res, iter)
  BY <1>2, Zenon
<1>4. ReservedIn(res) = iter[D]
  BY DEF ReservedIn, MapThenSumSet, MapThenFoldSet, AddsAmounts
<1> HIDE DEF iter
<1>5. Adds(f, D, iter)
  BY <1>1, <1>3
<1>6. iter[D] = SumOf(f, D)
  BY <1>5, SumOfAny
<1> QED
  BY <1>4, <1>6 DEF f

\* What each call of the registry does to the sum.
Reservable(res) ==
    IsFiniteSet(DOMAIN res) /\ \A r \in DOMAIN res : res[r].amount \in Nat

\* Nothing is withheld without a reservation.
LEMMA ReservedNone ==
    DOMAIN reservations = {} => Reserved = 0
<1> SUFFICES ASSUME DOMAIN reservations = {} PROVE Reserved = 0
  OBVIOUS
<1>1. ReservedIn(reservations) = SumOf(AmountsOf(reservations), {})
  BY ReservedSum, FS_EmptySet
<1> QED
  BY <1>1, SumEmpty DEF Reserved, ReservedIn

LEMMA AmountsFacts ==
    ASSUME NEW res
    PROVE  \A r \in DOMAIN res : AmountsOf(res)[r] = res[r].amount
  BY DEF AmountsOf

\* One reservation withholds its amount.
LEMMA ReservedOne ==
    \A r : DOMAIN reservations = {r} /\ reservations[r].amount \in Int
           => Reserved = reservations[r].amount
<1> SUFFICES ASSUME NEW r, DOMAIN reservations = {r}, reservations[r].amount \in Int
             PROVE  Reserved = reservations[r].amount
  OBVIOUS
<1> DEFINE f == AmountsOf(reservations)
<1>1. IsFiniteSet({r}) /\ {r} \ {r} = {} /\ r \in {r}
  BY FS_Singleton
<1>2. f[r] = reservations[r].amount
  BY AmountsFacts
<1>3. ReservedIn(reservations) = SumOf(f, {r})
  BY <1>1, ReservedSum
<1> HIDE DEF f
<1>4. SumOf(f, {r}) = f[r] + SumOf(f, {r} \ {r})
  <2>1. \A x \in {r} : f[x] \in Int
    BY <1>2
  <2> QED
    BY <1>1, <2>1, SumRemove
<1>5. SumOf(f, {r} \ {r}) = 0
  BY <1>1, SumEmpty
<1> QED
  BY <1>2, <1>3, <1>4, <1>5 DEF Reserved, ReservedIn

LEMMA ReservedNat ==
    ASSUME NEW res, Reservable(res)
    PROVE  ReservedIn(res) \in Nat
<1>1. \A r \in DOMAIN res : AmountsOf(res)[r] \in Nat
  BY AmountsFacts DEF Reservable
<1> QED
  BY <1>1, ReservedSum, SumNat DEF Reservable

\* Adding a reservation adds its amount.
LEMMA ReservedAdd ==
    ASSUME NEW res, Reservable(res), NEW e, e \notin DOMAIN res, NEW rec, rec.amount \in Nat,
           NEW new, new = [x \in DOMAIN res \cup {e} |-> IF x = e THEN rec ELSE res[x]]
    PROVE  Reservable(new) /\ ReservedIn(new) = ReservedIn(res) + rec.amount
<1> DEFINE D == DOMAIN res
           N == DOMAIN new
           f == AmountsOf(res)
           g == AmountsOf(new)
<1>1. N = D \cup {e} /\ N \ {e} = D /\ e \in N /\ IsFiniteSet(D) /\ IsFiniteSet(N)
  BY FS_AddElement DEF Reservable
<1>2. Reservable(new)
  BY <1>1 DEF Reservable
<1>3. \A x \in D : g[x] = f[x] /\ g[x] \in Int
  BY <1>1, AmountsFacts DEF Reservable
<1>4. g[e] = rec.amount /\ \A x \in N : g[x] \in Int
  <2>1. g[e] = new[e].amount /\ new[e] = rec
    BY <1>1, AmountsFacts
  <2>2. \A x \in N : x \in D \/ x = e
    BY <1>1
  <2> HIDE DEF g, N, D
  <2> QED
    BY <1>3, <2>1, <2>2
<1>5. ReservedIn(new) = SumOf(g, N) /\ ReservedIn(res) = SumOf(f, D)
  BY <1>1, ReservedSum
<1> HIDE DEF f, g, N, D
<1>6. SumOf(g, N) = g[e] + SumOf(g, N \ {e})
  BY <1>1, <1>4, SumRemove
<1>7. SumOf(g, N \ {e}) = SumOf(f, D)
  BY <1>1, <1>3, SumSame
<1>8. SumOf(f, D) \in Int
  BY <1>1, <1>3, SumInt
<1> QED
  BY <1>2, <1>4, <1>5, <1>6, <1>7, <1>8

\* Forgetting one reservation takes its amount away.
LEMMA ReservedDrop ==
    ASSUME NEW res, Reservable(res), NEW e \in DOMAIN res
    PROVE  ReservedIn(Restrict(res, DOMAIN res \ {e})) = ReservedIn(res) - res[e].amount
<1> DEFINE D == DOMAIN res
           new == Restrict(res, D \ {e})
           f == AmountsOf(res)
           g == AmountsOf(new)
<1>1. DOMAIN new = D \ {e} /\ IsFiniteSet(D) /\ IsFiniteSet(D \ {e})
      /\ \A x \in D \ {e} : new[x] = res[x]
  BY FS_RemoveElement DEF Reservable, Restrict
<1> HIDE DEF new
<1>2. \A x \in D : f[x] = res[x].amount /\ f[x] \in Int
  BY AmountsFacts DEF Reservable
<1>3. \A x \in D \ {e} : g[x] = f[x]
  BY <1>1, <1>2, AmountsFacts
<1>4. ReservedIn(new) = SumOf(g, D \ {e}) /\ ReservedIn(res) = SumOf(f, D)
  BY <1>1, ReservedSum
<1> HIDE DEF f, g
<1>5. SumOf(f, D) = f[e] + SumOf(f, D \ {e})
  BY <1>1, <1>2, SumRemove
<1>6. SumOf(g, D \ {e}) = SumOf(f, D \ {e})
  BY <1>1, <1>3, SumSame
<1>7. SumOf(f, D \ {e}) \in Int
  BY <1>1, <1>2, SumInt
<1>8. f[e] = res[e].amount /\ f[e] \in Int
  BY <1>2
<1>9. ReservedIn(new) = ReservedIn(res) - res[e].amount
  BY <1>4, <1>5, <1>6, <1>7, <1>8
<1> QED
  BY <1>9 DEF new

\* Forgetting any reservations frees what they withheld and withholds no more.
LEMMA ReservedForget ==
    ASSUME NEW res, Reservable(res), NEW ids
    PROVE  /\ Reservable(Restrict(res, DOMAIN res \ ids))
           /\ ReservedIn(Restrict(res, DOMAIN res \ ids)) <= ReservedIn(res)
<1> DEFINE D == DOMAIN res
           new == Restrict(res, D \ ids)
           f == AmountsOf(res)
           g == AmountsOf(new)
<1>1. DOMAIN new = D \ ids /\ IsFiniteSet(D) /\ IsFiniteSet(D \ ids)
      /\ (\A x \in D \ ids : new[x] = res[x]) /\ D \ ids \subseteq D
  BY FS_Subset DEF Reservable, Restrict
<1> HIDE DEF new
<1>2. \A x \in D : f[x] \in Nat
  BY AmountsFacts DEF Reservable
<1>3. \A x \in D \ ids : g[x] = f[x]
  BY <1>1, AmountsFacts
<1>4. ReservedIn(new) = SumOf(g, D \ ids) /\ ReservedIn(res) = SumOf(f, D)
  BY <1>1, ReservedSum
<1>5. Reservable(new)
  BY <1>1 DEF Reservable
<1> HIDE DEF f, g
<1>6. SumOf(g, D \ ids) = SumOf(f, D \ ids)
  BY <1>1, <1>3, SumSame
<1>7. SumOf(f, D \ ids) <= SumOf(f, D)
  BY <1>1, <1>2, SumMonotone
<1>8. Reservable(new) /\ ReservedIn(new) <= ReservedIn(res)
  BY <1>4, <1>5, <1>6, <1>7
<1> QED
  BY <1>8 DEF new
=============================================================================
