----------------------------- MODULE FiniteSums -----------------------------
(***************************************************************************)
(* Facts about SumFunctionOnSet(f, S), the sum of f[x] over the elements x *)
(* of a finite set S: it is the one its recursion describes, any element   *)
(* can be taken out first, and it depends on the values of f in S alone.   *)
(*                                                                         *)
(* The induction theorems of the library take the property to be proved as *)
(* an operator.  Here induction is on the set of counterexamples instead:  *)
(* if some subset of a finite set is one, some subset is a smallest one.   *)
(***************************************************************************)
EXTENDS Integers, FiniteSets, Functions, FiniteSetTheorems, WellFoundedInduction, TLAPS

(* Induction on finite sets: a property that fails of some subset of S     *)
(* fails of one whose proper subsets all have it.                          *)
LEMMA SmallestSubset ==
  ASSUME NEW S, IsFiniteSet(S), NEW B \in SUBSET SUBSET S, B # {}
  PROVE  \E T \in B : \A U \in B : U \subseteq T => U = T
<1> DEFINE R == StrictSubsetOrdering(S)
<1>1. IsWellFoundedOn(R, SUBSET S)
  BY FS_StrictSubsetOrderingWellFounded, FS_FiniteSubsetsOfFinite
<1> HIDE DEF R
<1>2. PICK T \in B : \A U \in B : ~ (<<U, T>> \in R)
  BY <1>1, WFMin
<1> QED
  BY <1>2 DEF R, StrictSubsetOrdering

(* The element a sum takes first, those it leaves, and what it is to be    *)
(* the function of sums over the subsets of T.                             *)
Picked(s) == CHOOSE x \in s : TRUE
Rest(s) == s \ {Picked(s)}
Sums(iter, f, T) ==
  iter = [s \in SUBSET T |-> IF s = {} THEN 0 ELSE f[Picked(s)] + iter[Rest(s)]]

(* The recursion goes down.                                                *)
LEMMA PickedInside ==
  ASSUME NEW s, s # {}
  PROVE  Picked(s) \in s /\ Rest(s) \subseteq s /\ Rest(s) # s
BY DEF Picked, Rest

(* Two functions of sums agree wherever both are defined.                  *)
LEMMA SumsAgree ==
  ASSUME NEW S, IsFiniteSet(S), NEW f, NEW T \in SUBSET S, NEW U \in SUBSET S,
         NEW g, NEW h, Sums(g, f, T), Sums(h, f, U)
  PROVE  \A s \in SUBSET (T \cap U) : g[s] = h[s]
<1> DEFINE B == {s \in SUBSET (T \cap U) : g[s] # h[s]}
<1> SUFFICES ASSUME B # {} PROVE FALSE
  OBVIOUS
<1>1. PICK s \in B : \A t \in B : t \subseteq s => t = s
  <2>1. B \in SUBSET SUBSET S
    OBVIOUS
  <2> HIDE DEF B
  <2> QED
    BY <2>1, SmallestSubset
<1>2. s \in SUBSET T /\ s \in SUBSET U /\ g[s] # h[s]
  OBVIOUS
<1>3. /\ g[s] = IF s = {} THEN 0 ELSE f[Picked(s)] + g[Rest(s)]
      /\ h[s] = IF s = {} THEN 0 ELSE f[Picked(s)] + h[Rest(s)]
  BY <1>2 DEF Sums
<1>4. s # {}
  BY <1>2, <1>3
<1>5. Rest(s) \subseteq s /\ Rest(s) # s
  BY <1>4, PickedInside
<1>6. g[Rest(s)] = h[Rest(s)]
  BY <1>1, <1>5
<1> QED
  BY <1>2, <1>3, <1>4, <1>6

(* There is a function of sums over the subsets of any finite set: the     *)
(* recursive definition of the sum defines something.                      *)
LEMMA SumsExist ==
  ASSUME NEW S, IsFiniteSet(S), NEW f
  PROVE  \A T \in SUBSET S : \E g : Sums(g, f, T)
<1> DEFINE B == {T \in SUBSET S : ~ \E g : Sums(g, f, T)}
<1> SUFFICES ASSUME B # {} PROVE FALSE
  OBVIOUS
<1>1. PICK T \in B : \A U \in B : U \subseteq T => U = T
  <2>1. B \in SUBSET SUBSET S
    OBVIOUS
  <2> HIDE DEF B
  <2> QED
    BY <2>1, SmallestSubset
<1>2. T \in SUBSET S /\ ~ \E g : Sums(g, f, T)
  OBVIOUS
<1> DEFINE G(t) == CHOOSE g : Sums(g, f, t)
           sum == [s \in SUBSET T |-> IF s = {} THEN 0 ELSE f[Picked(s)] + G(Rest(s))[Rest(s)]]
<1>3. ASSUME NEW t \in SUBSET T, t # T
      PROVE  Sums(G(t), f, t)
  <2>1. \E g : Sums(g, f, t)
    BY <1>1, <1>2, <1>3
  <2> QED
    BY <2>1
<1> HIDE DEF B, G
<1>4. ASSUME NEW t \in SUBSET T, t # T
      PROVE  sum[t] = G(t)[t]
  <2>1. G(t)[t] = IF t = {} THEN 0 ELSE f[Picked(t)] + G(t)[Rest(t)]
    BY <1>3, <1>4 DEF Sums
  <2>2. CASE t = {}
    BY <2>1, <2>2
  <2>3. CASE t # {}
    <3>1. Rest(t) \in SUBSET T /\ Rest(t) # T /\ Rest(t) \subseteq t
      BY <1>4, <2>3, PickedInside
    <3>2. Sums(G(t), f, t) /\ Sums(G(Rest(t)), f, Rest(t))
      BY <1>3, <1>4, <3>1
    <3>3. G(t)[Rest(t)] = G(Rest(t))[Rest(t)]
      <4>1. t \in SUBSET S /\ Rest(t) \in SUBSET S /\ Rest(t) \in SUBSET (t \cap Rest(t))
        BY <1>2, <3>1
      <4> QED
        BY <3>2, <4>1, SumsAgree
    <3> QED
      BY <2>1, <2>3, <3>3
  <2> QED
    BY <2>2, <2>3
<1>5. ASSUME NEW s \in SUBSET T
      PROVE  sum[s] = IF s = {} THEN 0 ELSE f[Picked(s)] + sum[Rest(s)]
  <2>1. CASE s = {}
    BY <2>1
  <2>2. CASE s # {}
    <3>1. Rest(s) \in SUBSET T /\ Rest(s) # T
      BY <2>2, PickedInside
    <3> QED
      BY <1>4, <2>2, <3>1
  <2> QED
    BY <2>1, <2>2
<1>6. Sums(sum, f, T)
  <2>1. sum = [s \in SUBSET T |-> IF s = {} THEN 0 ELSE f[Picked(s)] + sum[Rest(s)]]
    BY <1>5
  <2> HIDE DEF sum
  <2> QED
    BY <2>1 DEF Sums
<1> QED
  BY <1>2, <1>6

(* The sum obeys its recursion.                                            *)
LEMMA SumUnfolds ==
  ASSUME NEW S, IsFiniteSet(S), NEW f
  PROVE  SumFunctionOnSet(f, S) =
           IF S = {} THEN 0 ELSE f[Picked(S)] + SumFunctionOnSet(f, Rest(S))
<1> DEFINE G(t) == CHOOSE g : Sums(g, f, t)
<1>1. \A T : SumFunctionOnSet(f, T) = G(T)[T]
  BY DEF SumFunctionOnSet, FoldFunctionOnSet, MapThenFoldSet, Sums, Picked, Rest
<1>2. \A T \in SUBSET S : Sums(G(T), f, T)
  <2> SUFFICES ASSUME NEW T \in SUBSET S PROVE Sums(G(T), f, T)
    OBVIOUS
  <2>1. \E g : Sums(g, f, T)
    BY SumsExist
  <2> QED
    BY <2>1
<1> HIDE DEF G
<1>3. G(S)[S] = IF S = {} THEN 0 ELSE f[Picked(S)] + G(S)[Rest(S)]
  <2>1. Sums(G(S), f, S)
    BY <1>2
  <2> QED
    BY <2>1 DEF Sums
<1>4. CASE S = {}
  BY <1>1, <1>3, <1>4
<1>5. CASE S # {}
  <2>1. Rest(S) \in SUBSET S
    BY <1>5, PickedInside
  <2>2. Sums(G(S), f, S) /\ Sums(G(Rest(S)), f, Rest(S))
    BY <1>2, <2>1
  <2>3. Rest(S) \in SUBSET (S \cap Rest(S))
    BY <2>1
  <2>4. G(S)[Rest(S)] = G(Rest(S))[Rest(S)]
    BY <2>1, <2>2, <2>3, SumsAgree
  <2> QED
    BY <1>1, <1>3, <1>5, <2>4
<1> QED
  BY <1>4, <1>5

-----------------------------------------------------------------------------
(* The sum over no elements.                                               *)
LEMMA SumOfNone ==
  ASSUME NEW f
  PROVE  SumFunctionOnSet(f, {}) = 0
BY SumUnfolds, FS_EmptySet

(* A sum of integers is an integer.                                        *)
LEMMA SumIsInt ==
  ASSUME NEW S, IsFiniteSet(S), NEW f, \A x \in S : f[x] \in Int
  PROVE  \A T \in SUBSET S : SumFunctionOnSet(f, T) \in Int
<1> DEFINE B == {T \in SUBSET S : SumFunctionOnSet(f, T) \notin Int}
<1> SUFFICES ASSUME B # {} PROVE FALSE
  OBVIOUS
<1>1. PICK T \in B : \A U \in B : U \subseteq T => U = T
  <2>1. B \in SUBSET SUBSET S
    OBVIOUS
  <2> HIDE DEF B
  <2> QED
    BY <2>1, SmallestSubset
<1>2. T # {}
  BY SumOfNone
<1>3. Picked(T) \in T /\ Rest(T) \in SUBSET S /\ Rest(T) \subseteq T /\ Rest(T) # T
  BY <1>2, PickedInside
<1>4. SumFunctionOnSet(f, Rest(T)) \in Int
  BY <1>1, <1>3
<1>5. IsFiniteSet(T)
  BY FS_Subset
<1>6. SumFunctionOnSet(f, T) = f[Picked(T)] + SumFunctionOnSet(f, Rest(T))
  BY <1>2, <1>5, SumUnfolds
<1> QED
  BY <1>3, <1>4, <1>6

(* The order does not matter: any element can be taken out first.          *)
LEMMA SumTakes ==
  ASSUME NEW S, IsFiniteSet(S), NEW f, \A x \in S : f[x] \in Int, NEW e \in S
  PROVE  SumFunctionOnSet(f, S) = f[e] + SumFunctionOnSet(f, S \ {e})
<1> DEFINE Sum(T) == SumFunctionOnSet(f, T)
           Splits(T) == \A x \in T : Sum(T) = f[x] + Sum(T \ {x})
           B == {T \in SUBSET S : ~ Splits(T)}
<1> SUFFICES ASSUME B # {} PROVE FALSE
  OBVIOUS
<1>1. PICK T \in B : \A U \in B : U \subseteq T => U = T
  <2>1. B \in SUBSET SUBSET S
    OBVIOUS
  <2> HIDE DEF B
  <2> QED
    BY <2>1, SmallestSubset
<1>2. \A U \in SUBSET S : Sum(U) \in Int
  BY SumIsInt
<1>3. T \in SUBSET S /\ IsFiniteSet(T)
  BY FS_Subset
<1>4. \A U \in SUBSET T : U # T => Splits(U)
  BY <1>1, <1>3
<1>5. PICK x \in T : Sum(T) # f[x] + Sum(T \ {x})
  OBVIOUS
<1> DEFINE p == Picked(T)
<1>6. p \in T /\ Sum(T) = f[p] + Sum(T \ {p})
  BY <1>3, <1>5, SumUnfolds, PickedInside DEF Rest
<1>7. x # p
  BY <1>5, <1>6
<1> DEFINE both == T \ {x, p}
<1> HIDE DEF Sum, p, B
<1>8. Sum(T \ {p}) = f[x] + Sum(both)
  <2>1. T \ {p} \in SUBSET T /\ T \ {p} # T /\ x \in T \ {p} /\ (T \ {p}) \ {x} = both
    BY <1>6, <1>7
  <2> QED
    BY <1>4, <2>1
<1>9. Sum(T \ {x}) = f[p] + Sum(both)
  <2>1. T \ {x} \in SUBSET T /\ T \ {x} # T /\ p \in T \ {x} /\ (T \ {x}) \ {p} = both
    BY <1>6, <1>7
  <2> QED
    BY <1>4, <2>1
<1>10. f[x] \in Int /\ f[p] \in Int /\ Sum(both) \in Int
  <2>1. both \in SUBSET S
    BY <1>3
  <2> QED
    BY <1>2, <1>3, <1>6, <2>1
<1> HIDE DEF both
<1> QED
  BY <1>5, <1>6, <1>8, <1>9, <1>10

(* The sum depends on the values of the function in the set alone.         *)
LEMMA SumAgrees ==
  ASSUME NEW S, IsFiniteSet(S), NEW f, NEW g, \A x \in S : f[x] = g[x]
  PROVE  SumFunctionOnSet(f, S) = SumFunctionOnSet(g, S)
<1> DEFINE B == {T \in SUBSET S : SumFunctionOnSet(f, T) # SumFunctionOnSet(g, T)}
<1> SUFFICES ASSUME B # {} PROVE FALSE
  OBVIOUS
<1>1. PICK T \in B : \A U \in B : U \subseteq T => U = T
  <2>1. B \in SUBSET SUBSET S
    OBVIOUS
  <2> HIDE DEF B
  <2> QED
    BY <2>1, SmallestSubset
<1>2. T # {}
  BY SumOfNone
<1>3. Picked(T) \in T /\ Rest(T) \in SUBSET S /\ Rest(T) \subseteq T /\ Rest(T) # T
  BY <1>2, PickedInside
<1>4. SumFunctionOnSet(f, Rest(T)) = SumFunctionOnSet(g, Rest(T))
  BY <1>1, <1>3
<1>5. IsFiniteSet(T)
  BY FS_Subset
<1>6. /\ SumFunctionOnSet(f, T) = f[Picked(T)] + SumFunctionOnSet(f, Rest(T))
      /\ SumFunctionOnSet(g, T) = g[Picked(T)] + SumFunctionOnSet(g, Rest(T))
  BY <1>2, <1>5, SumUnfolds
<1>7. f[Picked(T)] = g[Picked(T)]
  BY <1>3
<1> QED
  BY <1>4, <1>6, <1>7

(* When the function changes at one element, so does the sum.              *)
LEMMA SumMoves ==
  ASSUME NEW S, IsFiniteSet(S), NEW f, NEW g, NEW e \in S,
         \A x \in S : f[x] \in Int /\ g[x] \in Int,
         \A x \in S \ {e} : f[x] = g[x]
  PROVE  SumFunctionOnSet(g, S) = SumFunctionOnSet(f, S) + (g[e] - f[e])
<1>1. SumFunctionOnSet(f, S) = f[e] + SumFunctionOnSet(f, S \ {e})
  BY SumTakes
<1>2. SumFunctionOnSet(g, S) = g[e] + SumFunctionOnSet(g, S \ {e})
  BY SumTakes
<1>3. IsFiniteSet(S \ {e})
  BY FS_Subset
<1>4. SumFunctionOnSet(f, S \ {e}) = SumFunctionOnSet(g, S \ {e})
  BY <1>3, SumAgrees
<1>5. SumFunctionOnSet(f, S \ {e}) \in Int
  BY SumIsInt
<1> QED
  BY <1>1, <1>2, <1>4, <1>5

(* The sum of two functions is the sum of their sums.                      *)
LEMMA SumAdds ==
  ASSUME NEW S, IsFiniteSet(S), NEW f, NEW g, NEW h,
         \A x \in S : f[x] \in Int /\ g[x] \in Int /\ h[x] = f[x] + g[x]
  PROVE  SumFunctionOnSet(h, S) = SumFunctionOnSet(f, S) + SumFunctionOnSet(g, S)
<1> DEFINE Fails(T) == SumFunctionOnSet(h, T) # SumFunctionOnSet(f, T) + SumFunctionOnSet(g, T)
           B == {T \in SUBSET S : Fails(T)}
<1>1. SUFFICES ASSUME Fails(S) PROVE FALSE
  OBVIOUS
<1>2. B \in SUBSET SUBSET S /\ B # {}
  BY <1>1
<1>3. PICK T \in B : \A U \in B : U \subseteq T => U = T
  <2> HIDE DEF B
  <2> QED
    BY <1>2, SmallestSubset
<1>4. T \subseteq S /\ IsFiniteSet(T)
  BY <1>3, FS_Subset
<1>5. T # {}
  <2>1. SumFunctionOnSet(f, {}) = 0 /\ SumFunctionOnSet(g, {}) = 0 /\ SumFunctionOnSet(h, {}) = 0
    BY SumOfNone
  <2>2. ~Fails({})
    BY <2>1
  <2>3. Fails(T)
    BY <1>3
  <2> HIDE DEF Fails, B
  <2> QED
    BY <2>2, <2>3
<1>6. PICK e \in T : TRUE
  BY <1>5
<1>7. ~Fails(T \ {e}) /\ IsFiniteSet(T \ {e})
  <2>1. T \ {e} \in SUBSET S /\ T \ {e} # T
    BY <1>4, <1>6
  <2> QED
    BY <1>3, <1>4, <2>1, FS_Subset
<1>8. \A k : (\A x \in S : k[x] \in Int) =>
        /\ SumFunctionOnSet(k, T) = k[e] + SumFunctionOnSet(k, T \ {e})
        /\ SumFunctionOnSet(k, T \ {e}) \in Int
  BY <1>4, <1>6, <1>7, SumTakes, SumIsInt
<1>9. \A x \in S : h[x] \in Int
  OBVIOUS
<1>10. /\ SumFunctionOnSet(f, T) = f[e] + SumFunctionOnSet(f, T \ {e})
       /\ SumFunctionOnSet(g, T) = g[e] + SumFunctionOnSet(g, T \ {e})
       /\ SumFunctionOnSet(h, T) = h[e] + SumFunctionOnSet(h, T \ {e})
       /\ SumFunctionOnSet(f, T \ {e}) \in Int /\ SumFunctionOnSet(g, T \ {e}) \in Int
  BY <1>8, <1>9
<1>11. f[e] \in Int /\ g[e] \in Int /\ h[e] = f[e] + g[e]
  BY <1>4, <1>6
<1> QED
  BY <1>3, <1>7, <1>10, <1>11

(* A sum of natural numbers is one.                                        *)
LEMMA SumOfNaturals ==
  ASSUME NEW S, IsFiniteSet(S), NEW f, \A x \in S : f[x] \in Nat
  PROVE  \A T \in SUBSET S : SumFunctionOnSet(f, T) \in Nat
<1> DEFINE B == {T \in SUBSET S : SumFunctionOnSet(f, T) \notin Nat}
<1> SUFFICES ASSUME B # {} PROVE FALSE
  OBVIOUS
<1>1. PICK T \in B : \A U \in B : U \subseteq T => U = T
  <2>1. B \in SUBSET SUBSET S
    OBVIOUS
  <2> HIDE DEF B
  <2> QED
    BY <2>1, SmallestSubset
<1>2. T # {}
  BY SumOfNone
<1>3. Picked(T) \in T /\ Rest(T) \in SUBSET S /\ Rest(T) \subseteq T /\ Rest(T) # T
  BY <1>2, PickedInside
<1>4. SumFunctionOnSet(f, Rest(T)) \in Nat
  BY <1>1, <1>3
<1>5. IsFiniteSet(T)
  BY FS_Subset
<1>6. SumFunctionOnSet(f, T) = f[Picked(T)] + SumFunctionOnSet(f, Rest(T))
  BY <1>2, <1>5, SumUnfolds
<1> QED
  BY <1>3, <1>4, <1>6

(* A sum of natural numbers over fewer elements is no larger.              *)
LEMMA SumOfFewer ==
  ASSUME NEW S, IsFiniteSet(S), NEW f, \A x \in S : f[x] \in Nat
  PROVE  \A T \in SUBSET S : SumFunctionOnSet(f, T) <= SumFunctionOnSet(f, S)
<1> DEFINE Sum(T) == SumFunctionOnSet(f, T)
           B == {T \in SUBSET S : ~ (Sum(S \ T) <= Sum(S))}
<1>0. \A T \in SUBSET S : Sum(T) \in Nat
  BY SumOfNaturals
<1> HIDE DEF Sum
<1>1. B = {}
  <2> SUFFICES ASSUME B # {} PROVE FALSE
    OBVIOUS
  <2>1. PICK T \in B : \A U \in B : U \subseteq T => U = T
    <3>1. B \in SUBSET SUBSET S
      OBVIOUS
    <3> HIDE DEF B
    <3> QED
      BY <3>1, SmallestSubset
  <2>2. T # {}
    <3>1. Sum(S) \in Nat
      BY <1>0
    <3>2. CASE T = {}
      <4>1. S \ T = S
        BY <3>2
      <4>2. ~ (Sum(S \ T) <= Sum(S))
        OBVIOUS
      <4>3. ~ (Sum(S) <= Sum(S))
        BY <4>1, <4>2
      <4> QED
        BY <3>1, <4>3
    <3> QED
      BY <3>2
  <2>3. PICK e \in T : e \in S
    BY <2>2
  <2>4. T \ {e} \notin B
    BY <2>1, <2>3
  <2>5. Sum(S \ (T \ {e})) <= Sum(S)
    BY <2>4
  <2>6. IsFiniteSet(S \ (T \ {e}))
    BY FS_Subset
  <2>7. e \in S \ (T \ {e}) /\ (S \ (T \ {e})) \ {e} = S \ T
    BY <2>3
  <2>8. Sum(S \ (T \ {e})) = f[e] + Sum(S \ T)
    BY <2>6, <2>7, SumTakes DEF Sum
  <2>9. Sum(S \ T) \in Nat /\ Sum(S) \in Nat /\ f[e] \in Nat
    BY <1>0, <2>3
  <2>10. Sum(S \ T) <= Sum(S)
    BY <2>5, <2>8, <2>9
  <2> QED
    BY <2>1, <2>10
<1>2. ASSUME NEW T \in SUBSET S PROVE Sum(T) <= Sum(S)
  <2>1. S \ T \notin B /\ S \ (S \ T) = T
    BY <1>1
  <2> QED
    BY <2>1
<1> QED
  BY <1>2 DEF Sum

(* Elements at which the function is zero do not count.                    *)
LEMMA SumOfSupport ==
  ASSUME NEW S, IsFiniteSet(S), NEW f, \A x \in S : f[x] \in Int,
         NEW T \in SUBSET S, \A x \in S \ T : f[x] = 0
  PROVE  SumFunctionOnSet(f, S) = SumFunctionOnSet(f, T)
<1> DEFINE Sum(U) == SumFunctionOnSet(f, U)
           B == {U \in SUBSET (S \ T) : Sum(T \cup U) # Sum(T)}
<1>0. \A U \in SUBSET S : Sum(U) \in Int
  BY SumIsInt
<1> HIDE DEF Sum
<1>1. B = {}
  <2> SUFFICES ASSUME B # {} PROVE FALSE
    OBVIOUS
  <2>1. PICK U \in B : \A V \in B : V \subseteq U => V = U
    <3>1. B \in SUBSET SUBSET S
      OBVIOUS
    <3> HIDE DEF B
    <3> QED
      BY <3>1, SmallestSubset
  <2>2. U # {}
    <3>1. CASE U = {}
      <4>1. T \cup U = T
        BY <3>1
      <4>2. Sum(T \cup U) # Sum(T)
        OBVIOUS
      <4> QED
        BY <4>1, <4>2
    <3> QED
      BY <3>1
  <2>3. PICK e \in U : e \in S \ T
    BY <2>2
  <2>4. U \ {e} \notin B
    BY <2>1, <2>3
  <2>5. Sum(T \cup (U \ {e})) = Sum(T)
    BY <2>4
  <2>6. IsFiniteSet(T \cup U)
    BY FS_Subset
  <2>7. e \in T \cup U /\ (T \cup U) \ {e} = T \cup (U \ {e})
    BY <2>3
  <2>8. Sum(T \cup U) = f[e] + Sum(T \cup (U \ {e}))
    BY <2>6, <2>7, SumTakes DEF Sum
  <2>9. f[e] = 0 /\ Sum(T) \in Int
    BY <1>0, <2>3
  <2> QED
    BY <2>5, <2>8, <2>9
<1>2. S \ T \notin B /\ T \cup (S \ T) = S
  BY <1>1
<1>3. Sum(S) = Sum(T)
  BY <1>2
<1> QED
  BY <1>3 DEF Sum

(* A sum of zeros.                                                         *)
LEMMA SumOfNothing ==
  ASSUME NEW S, IsFiniteSet(S), NEW f, \A x \in S : f[x] = 0
  PROVE  SumFunctionOnSet(f, S) = 0
BY SumOfSupport, SumOfNone
=============================================================================
