------------------------------ MODULE SumLemmas ------------------------------
(***************************************************************************)
(* Sums over finite sets: what SumFunctionOnSet does to wallets, fees and  *)
(* credits, for sets of any size.                                          *)
(***************************************************************************)
EXTENDS Integers, FiniteSets, Functions, FiniteSetTheorems, WellFoundedInduction, TLAPS

Pick(s) == CHOOSE x \in s : TRUE

\* What the sum of f over s is, when g holds the sums over its subsets.
Added(f, g, s) == IF s = {} THEN 0 ELSE f[Pick(s)] + g[s \ {Pick(s)}]
Adds(f, D, g) == g = [s \in SUBSET D |-> Added(f, g, s)]
AddsUpTo(f, D, g, n) ==
    /\ g = [s \in SUBSET D |-> g[s]]
    /\ \A s \in SUBSET D : Cardinality(s) <= n => g[s] = Added(f, g, s)

-----------------------------------------------------------------------------
(* Induction.                                                              *)

\* A set of naturals has a least element.
LEMMA Least ==
  ASSUME NEW T, T \subseteq Nat, T # {}
  PROVE  \E n \in T : \A m \in T : n <= m
<1>1. PICK n \in T : \A m \in T : ~(<<m, n>> \in OpToRel(<, Nat))
  BY NatLessThanWellFounded, WFMin
<1>2. \A m \in T : <<m, n>> \in OpToRel(<, Nat) <=> m < n
  BY DEF OpToRel
<1>3. \A m \in T : ~(m < n)
  BY <1>1, <1>2
<1>4. \A m \in T : n <= m
  BY <1>3
<1> QED BY <1>4

\* A set of subsets of a finite set has a minimal one.
LEMMA Minimal ==
  ASSUME NEW D, IsFiniteSet(D), NEW B \in SUBSET (SUBSET D), B # {}
  PROVE  \E s \in B : \A x \in s : s \ {x} \notin B
<1> DEFINE T == {Cardinality(s) : s \in B}
<1>1. \A s \in SUBSET D : IsFiniteSet(s) /\ Cardinality(s) \in Nat
  BY FS_Subset, FS_CardinalityType
<1>2. T \subseteq Nat /\ T # {}
  BY <1>1
<1>3. PICK n \in T : \A m \in T : n <= m
  BY <1>2, Least
<1>4. PICK s \in B : n = Cardinality(s)
  BY <1>3
<1>5. ASSUME NEW x \in s, s \ {x} \in B PROVE FALSE
  <2>1. Cardinality(s \ {x}) = Cardinality(s) - 1
    BY <1>1, FS_RemoveElement
  <2>2. Cardinality(s) <= Cardinality(s \ {x})
    BY <1>3, <1>4, <1>5
  <2> QED BY <1>1, <2>1, <2>2
<1> QED BY <1>5

-----------------------------------------------------------------------------
(* The sums exist, and there is one of each.                               *)

\* What is picked from a set is in it.
LEMMA Picked == \A s : s # {} => Pick(s) \in s
  BY DEF Pick

\* There are sums over the subsets with at most n elements, for every n.
LEMMA SumsUpTo ==
  ASSUME NEW f, NEW D, IsFiniteSet(D)
  PROVE  \A n \in Nat : \E g : AddsUpTo(f, D, g, n)
<1> DEFINE Bad == {n \in Nat : ~\E g : AddsUpTo(f, D, g, n)}
<1>0. \A s \in SUBSET D : IsFiniteSet(s) /\ Cardinality(s) \in Nat
  BY FS_Subset, FS_CardinalityType
<1>1. SUFFICES ASSUME Bad # {} PROVE FALSE
  OBVIOUS
<1>2. PICK n \in Bad : \A m \in Bad : n <= m
  BY <1>1, Least
<1>3. CASE n = 0
  <2> DEFINE g == [s \in SUBSET D |-> 0]
  <2>1. \A s \in SUBSET D : Cardinality(s) <= 0 => s = {}
    BY <1>0, FS_EmptySet
  <2>2. AddsUpTo(f, D, g, 0)
    BY <2>1 DEF AddsUpTo, Added
  <2> QED BY <1>2, <1>3, <2>2
<1>4. CASE n # 0
  <2>1. n - 1 \in Nat /\ n - 1 \notin Bad
    BY <1>2, <1>4
  <2>2. PICK g : AddsUpTo(f, D, g, n - 1)
    BY <2>1
  <2> DEFINE h == [s \in SUBSET D |-> Added(f, g, s)]
  <2>3. ASSUME NEW s \in SUBSET D, Cardinality(s) <= n
        PROVE  h[s] = Added(f, h, s)
    <3>1. CASE s = {}
      BY <3>1 DEF Added
    <3>2. CASE s # {}
      <4> DEFINE t == s \ {Pick(s)}
      <4>1. Pick(s) \in s
        BY <3>2, Picked
      <4>2. t \in SUBSET D /\ Cardinality(t) = Cardinality(s) - 1
        BY <1>0, <4>1, FS_RemoveElement
      <4>3. Cardinality(t) <= n - 1
        BY <1>0, <2>1, <2>3, <4>2
      <4>4. g[t] = Added(f, g, t)
        BY <2>2, <4>2, <4>3 DEF AddsUpTo
      <4>5. h[t] = g[t]
        BY <4>2, <4>4
      <4>6. Added(f, g, s) = f[Pick(s)] + g[t] /\ Added(f, h, s) = f[Pick(s)] + h[t]
        BY <3>2 DEF Added
      <4> QED BY <4>5, <4>6
    <3> QED BY <3>1, <3>2
  <2>4. AddsUpTo(f, D, h, n)
    <3>1. h = [s \in SUBSET D |-> h[s]]
      OBVIOUS
    <3> QED BY <2>3, <3>1 DEF AddsUpTo
  <2> QED BY <1>2, <2>4
<1> QED BY <1>3, <1>4

\* The function that SumFunctionOnSet chooses adds up f.
LEMMA SumsExist ==
  ASSUME NEW f, NEW D, IsFiniteSet(D)
  PROVE  \E g : Adds(f, D, g) /\ SumFunctionOnSet(f, D) = g[D]
<1>1. PICK g : AddsUpTo(f, D, g, Cardinality(D))
  BY SumsUpTo, FS_CardinalityType
<1>2. \A s \in SUBSET D : Cardinality(s) <= Cardinality(D)
  BY FS_Subset
<1>3. Adds(f, D, g)
  BY <1>1, <1>2 DEF Adds, AddsUpTo
<1>4. SumFunctionOnSet(f, D) = (CHOOSE h : Adds(f, D, h))[D]
  BY DEF SumFunctionOnSet, FoldFunctionOnSet, MapThenFoldSet, Adds, Added, Pick
<1> QED BY <1>3, <1>4

\* Two of them agree where both are defined.
LEMMA SumsUnique ==
  ASSUME NEW f, NEW D, IsFiniteSet(D), NEW E \in SUBSET D,
         NEW g, Adds(f, D, g), NEW h, Adds(f, E, h)
  PROVE  \A s \in SUBSET E : g[s] = h[s]
<1> DEFINE B == {s \in SUBSET E : g[s] # h[s]}
<1>1. SUFFICES ASSUME B # {} PROVE FALSE
  OBVIOUS
<1>2. IsFiniteSet(E)
  BY FS_Subset
<1>3. PICK s \in B : \A x \in s : s \ {x} \notin B
  BY <1>1, <1>2, Minimal
<1>4. g[s] = Added(f, g, s) /\ h[s] = Added(f, h, s)
  BY <1>3 DEF Adds
<1>5. s # {} => g[s \ {Pick(s)}] = h[s \ {Pick(s)}]
  BY <1>3, Picked
<1> QED BY <1>3, <1>4, <1>5 DEF Added

\* Nothing adds up to nothing.
LEMMA SumNone == ASSUME NEW f PROVE SumFunctionOnSet(f, {}) = 0
<1>1. PICK g : Adds(f, {}, g) /\ SumFunctionOnSet(f, {}) = g[{}]
  BY SumsExist, FS_EmptySet
<1> QED BY <1>1 DEF Adds, Added

\* A sum is the element picked, and the sum over the others.
LEMMA SumPick ==
  ASSUME NEW f, NEW D, IsFiniteSet(D), D # {}
  PROVE  SumFunctionOnSet(f, D) = f[Pick(D)] + SumFunctionOnSet(f, D \ {Pick(D)})
<1> DEFINE E == D \ {Pick(D)}
<1>1. IsFiniteSet(E) /\ E \in SUBSET D
  BY FS_Subset
<1>2. PICK g : Adds(f, D, g) /\ SumFunctionOnSet(f, D) = g[D]
  BY SumsExist
<1>3. PICK h : Adds(f, E, h) /\ SumFunctionOnSet(f, E) = h[E]
  BY <1>1, SumsExist
<1>4. g[E] = h[E]
  BY <1>1, <1>2, <1>3, SumsUnique
<1>5. g[D] = f[Pick(D)] + g[E]
  BY <1>2 DEF Adds, Added
<1> QED BY <1>2, <1>3, <1>4, <1>5

-----------------------------------------------------------------------------
(* Sums of integers.                                                       *)

\* A sum of integers is an integer.
LEMMA SumType ==
  ASSUME NEW f, NEW D, IsFiniteSet(D), \A x \in D : f[x] \in Int
  PROVE  SumFunctionOnSet(f, D) \in Int
<1> DEFINE B == {s \in SUBSET D : SumFunctionOnSet(f, s) \notin Int}
<1>1. SUFFICES ASSUME B # {} PROVE FALSE
  OBVIOUS
<1>2. PICK s \in B : \A x \in s : s \ {x} \notin B
  BY <1>1, Minimal
<1>3. IsFiniteSet(s) /\ s # {}
  <2>1. {} \notin B
    BY SumNone
  <2> QED BY <1>2, <2>1, FS_Subset
<1>4. SumFunctionOnSet(f, s) = f[Pick(s)] + SumFunctionOnSet(f, s \ {Pick(s)})
  BY <1>3, SumPick
<1>5. Pick(s) \in s /\ SumFunctionOnSet(f, s \ {Pick(s)}) \in Int
  BY <1>2, <1>3, Picked
<1> QED BY <1>2, <1>4, <1>5

\* Any element of a sum may be taken out.
LEMMA SumRemove ==
  ASSUME NEW f, NEW D, IsFiniteSet(D), \A x \in D : f[x] \in Int, NEW y \in D
  PROVE  SumFunctionOnSet(f, D) = f[y] + SumFunctionOnSet(f, D \ {y})
<1> DEFINE B == {s \in SUBSET D : \E x \in s :
                     SumFunctionOnSet(f, s) # f[x] + SumFunctionOnSet(f, s \ {x})}
<1>1. SUFFICES ASSUME B # {} PROVE FALSE
  OBVIOUS
<1>2. PICK s \in B : \A x \in s : s \ {x} \notin B
  BY <1>1, Minimal
<1>3. PICK x \in s : SumFunctionOnSet(f, s) # f[x] + SumFunctionOnSet(f, s \ {x})
  BY <1>2
<1> DEFINE p == Pick(s)
           r == (s \ {x}) \ {p}
<1>4. /\ IsFiniteSet(s) /\ IsFiniteSet(s \ {x}) /\ IsFiniteSet(r)
      /\ s \subseteq D /\ r \subseteq D
  BY <1>2, FS_Subset
<1>5. p \in s /\ SumFunctionOnSet(f, s) = f[p] + SumFunctionOnSet(f, s \ {p})
  BY <1>3, <1>4, Picked, SumPick
<1>6. p # x
  BY <1>3, <1>5
<1>7. SumFunctionOnSet(f, s \ {x}) = f[p] + SumFunctionOnSet(f, r)
  BY <1>2, <1>5, <1>6
<1>8. SumFunctionOnSet(f, s \ {p}) = f[x] + SumFunctionOnSet(f, r)
  <2>1. r = (s \ {p}) \ {x}
    OBVIOUS
  <2> QED BY <1>2, <1>5, <1>6, <2>1
<1>9. f[x] \in Int /\ f[p] \in Int /\ SumFunctionOnSet(f, r) \in Int
  BY <1>4, <1>5, SumType
<1> QED BY <1>3, <1>5, <1>7, <1>8, <1>9

\* Functions that agree on a set have the same sum.
LEMMA SumAgree ==
  ASSUME NEW f, NEW h, NEW D, IsFiniteSet(D), \A x \in D : f[x] = h[x]
  PROVE  SumFunctionOnSet(f, D) = SumFunctionOnSet(h, D)
<1> DEFINE B == {s \in SUBSET D : SumFunctionOnSet(f, s) # SumFunctionOnSet(h, s)}
<1>1. SUFFICES ASSUME B # {} PROVE FALSE
  OBVIOUS
<1>2. PICK s \in B : \A x \in s : s \ {x} \notin B
  BY <1>1, Minimal
<1>3. IsFiniteSet(s) /\ s # {}
  <2>1. {} \notin B
    BY SumNone
  <2> QED BY <1>2, <2>1, FS_Subset
<1>4. /\ SumFunctionOnSet(f, s) = f[Pick(s)] + SumFunctionOnSet(f, s \ {Pick(s)})
      /\ SumFunctionOnSet(h, s) = h[Pick(s)] + SumFunctionOnSet(h, s \ {Pick(s)})
  BY <1>3, SumPick
<1>5. /\ Pick(s) \in s /\ f[Pick(s)] = h[Pick(s)]
      /\ SumFunctionOnSet(f, s \ {Pick(s)}) = SumFunctionOnSet(h, s \ {Pick(s)})
  BY <1>2, <1>3, Picked
<1> QED BY <1>2, <1>4, <1>5

\* A sum of zeros.
LEMMA SumZero ==
  ASSUME NEW f, NEW D, IsFiniteSet(D), \A x \in D : f[x] = 0
  PROVE  SumFunctionOnSet(f, D) = 0
<1> DEFINE B == {s \in SUBSET D : SumFunctionOnSet(f, s) # 0}
<1>1. SUFFICES ASSUME B # {} PROVE FALSE
  OBVIOUS
<1>2. PICK s \in B : \A x \in s : s \ {x} \notin B
  BY <1>1, Minimal
<1>3. IsFiniteSet(s) /\ s # {}
  <2>1. {} \notin B
    BY SumNone
  <2> QED BY <1>2, <2>1, FS_Subset
<1>4. SumFunctionOnSet(f, s) = f[Pick(s)] + SumFunctionOnSet(f, s \ {Pick(s)})
  BY <1>3, SumPick
<1>5. f[Pick(s)] = 0 /\ SumFunctionOnSet(f, s \ {Pick(s)}) = 0
  BY <1>2, <1>3, Picked
<1> QED BY <1>2, <1>4, <1>5

\* A change of one value changes the sum by as much.
LEMMA SumChange ==
  ASSUME NEW f, NEW h, NEW D, IsFiniteSet(D), NEW y \in D,
         \A x \in D : f[x] \in Int /\ h[x] \in Int, \A x \in D \ {y} : f[x] = h[x]
  PROVE  SumFunctionOnSet(h, D) = SumFunctionOnSet(f, D) + (h[y] - f[y])
<1>1. IsFiniteSet(D \ {y})
  BY FS_Subset
<1>2. /\ SumFunctionOnSet(f, D) = f[y] + SumFunctionOnSet(f, D \ {y})
      /\ SumFunctionOnSet(h, D) = h[y] + SumFunctionOnSet(h, D \ {y})
  BY SumRemove
<1>3. SumFunctionOnSet(f, D \ {y}) = SumFunctionOnSet(h, D \ {y})
  BY <1>1, SumAgree
<1>4. SumFunctionOnSet(f, D \ {y}) \in Int
  BY <1>1, SumType
<1> QED BY <1>2, <1>3, <1>4

\* What is added on a part of the set is added to the sum.
LEMMA SumGrows ==
  ASSUME NEW D, IsFiniteSet(D), NEW S \in SUBSET D, NEW f, NEW a, NEW h,
         \A x \in D : f[x] \in Int, \A x \in S : a[x] \in Int,
         \A x \in D : h[x] = IF x \in S THEN f[x] + a[x] ELSE f[x]
  PROVE  SumFunctionOnSet(h, D) = SumFunctionOnSet(f, D) + SumFunctionOnSet(a, S)
<1> DEFINE Good(s) == SumFunctionOnSet(h, s) = SumFunctionOnSet(f, s)
                                               + SumFunctionOnSet(a, s \cap S)
           B == {s \in SUBSET D : ~Good(s)}
<1>1. SUFFICES ASSUME B # {} PROVE FALSE
  <2>1. D \cap S = S
    OBVIOUS
  <2> QED BY <2>1
<1>2. PICK s \in B : \A x \in s : s \ {x} \notin B
  BY <1>1, Minimal
<1>3. IsFiniteSet(s) /\ s # {}
  <2>1. {} \notin B
    <3>1. {} \cap S = {}
      OBVIOUS
    <3> QED BY <3>1, SumNone
  <2> QED BY <1>2, <2>1, FS_Subset
<1> DEFINE p == Pick(s)
           r == s \ {p}
<1>4. p \in s /\ p \in D /\ r \subseteq D /\ IsFiniteSet(r) /\ IsFiniteSet(s \cap S)
      /\ IsFiniteSet(r \cap S)
  BY <1>2, <1>3, Picked, FS_Subset
<1>5. /\ SumFunctionOnSet(f, s) = f[p] + SumFunctionOnSet(f, r)
      /\ SumFunctionOnSet(h, s) = h[p] + SumFunctionOnSet(h, r)
  BY <1>3, SumPick
<1>6. SumFunctionOnSet(h, r) = SumFunctionOnSet(f, r) + SumFunctionOnSet(a, r \cap S)
  BY <1>2, <1>4
<1>7. SumFunctionOnSet(f, r) \in Int /\ SumFunctionOnSet(a, r \cap S) \in Int
  BY <1>4, SumType
<1>8. CASE p \in S
  <2>1. (s \cap S) \ {p} = r \cap S /\ p \in s \cap S
    BY <1>4, <1>8
  <2>2. SumFunctionOnSet(a, s \cap S) = a[p] + SumFunctionOnSet(a, r \cap S)
    BY <1>4, <2>1, SumRemove
  <2> HIDE DEF p, r
  <2> QED BY <1>2, <1>4, <1>5, <1>6, <1>7, <1>8, <2>2
<1>9. CASE p \notin S
  <2>1. s \cap S = r \cap S
    BY <1>4, <1>9
  <2>2. SumFunctionOnSet(a, s \cap S) = SumFunctionOnSet(a, r \cap S)
    BY <2>1
  <2>3. h[p] = f[p]
    BY <1>4, <1>9
  <2> HIDE DEF p, r
  <2> QED BY <1>2, <1>4, <1>5, <1>6, <1>7, <2>2, <2>3
<1> QED BY <1>8, <1>9
=============================================================================
