----------------------------- MODULE SumTheorems -----------------------------
(***************************************************************************)
(* Facts about SumFunctionOnSet, the sum of an integer function over a     *)
(* finite set, for any function and any finite set.                        *)
(*                                                                         *)
(* The fold behind it is a recursive function on the subsets of the set,   *)
(* chosen by CHOOSE.  SumUnfold shows that such a function exists and what *)
(* the sum does with the element it picks; every other lemma rests on that *)
(* one.  The inductions are over the size of a set and over its subsets,   *)
(* by a least counterexample: the relations < and \subset are well founded *)
(* (NatLeast, SmallestSubset).                                             *)
(*                                                                         *)
(* The last part is about recursion over 0..n: Onwards is the induction,   *)
(* Iterated the existence of a function whose value at each number is a    *)
(* function of that number and of the value before.                        *)
(***************************************************************************)
EXTENDS Integers, FiniteSets, Functions, FiniteSetTheorems, WellFoundedInduction, TLAPS

\* The element the fold takes out of a set next.
Pick(s) == CHOOSE x \in s : TRUE

\* g is the recursive function the fold is defined by, on the subsets in D.
Summing(g, f, D) ==
    g = [s \in D |-> IF s = {} THEN 0 ELSE f[Pick(s)] + g[s \ {Pick(s)}]]

\* It is one of the set's.
LEMMA PickIn == ASSUME NEW s, s # {} PROVE Pick(s) \in s
BY DEF Pick

\* The library's definition of the sum, unfolded.
LEMMA SumIsChosen ==
    ASSUME NEW f, NEW S
    PROVE  SumFunctionOnSet(f, S) = (CHOOSE g : Summing(g, f, SUBSET S))[S]
BY Zenon DEF SumFunctionOnSet, FoldFunctionOnSet, MapThenFoldSet, Summing, Pick

\* A set of natural numbers has a least one: induction over Nat.
LEMMA NatLeast ==
    ASSUME NEW T, T \subseteq Nat, T # {}
    PROVE  \E n \in T : \A m \in T : ~ (m < n)
<1>1. \E n \in T : \A m \in T : ~ (<<m, n>> \in OpToRel(<, Nat))
  BY NatLessThanWellFounded, WFMin, Zenon
<1> QED BY <1>1, Zenon DEF OpToRel

\* The subsets of S of at most n elements.
Upto(S, n) == {s \in SUBSET S : Cardinality(s) <= n}

\* They are all the subsets once n is the size of S.
LEMMA SubsetsUpto ==
    ASSUME NEW S, IsFiniteSet(S)
    PROVE  Upto(S, Cardinality(S)) = SUBSET S
BY FS_Subset DEF Upto

\* Without its next element a set is one smaller.
LEMMA SmallerUpto ==
    ASSUME NEW S, IsFiniteSet(S), NEW n \in Nat, NEW s \in Upto(S, n + 1), s # {}
    PROVE  s \ {Pick(s)} \in Upto(S, n)
<1>1. IsFiniteSet(s) /\ Pick(s) \in s
  BY FS_Subset, PickIn DEF Upto
<1>2. Cardinality(s \ {Pick(s)}) = Cardinality(s) - 1
  BY <1>1, FS_RemoveElement
<1>3. Cardinality(s) \in Nat
  BY <1>1, FS_CardinalityType
<1> QED BY <1>2, <1>3 DEF Upto

\* The recursion has a solution on the subsets of each size.
LEMMA SolutionUpto ==
    ASSUME NEW f, NEW S, IsFiniteSet(S), NEW n \in Nat
    PROVE  \E g : Summing(g, f, Upto(S, n))
<1> DEFINE Failing == {m \in Nat : ~ \E g : Summing(g, f, Upto(S, m))}
<1> SUFFICES ASSUME Failing # {} PROVE FALSE
  BY DEF Failing
<1>1. PICK m \in Failing : \A k \in Failing : ~ (k < m)
  BY NatLeast
<1>2. m \in Nat
  OBVIOUS
<1>3. CASE m = 0
  <2> DEFINE g == [s \in Upto(S, m) |-> 0]
  <2>1. \A s \in Upto(S, m) : s = {}
    BY <1>3, FS_EmptySet, FS_Subset, FS_CardinalityType DEF Upto
  <2>2. Summing(g, f, Upto(S, m))
    BY <2>1 DEF Summing
  <2> QED BY <2>2
<1>4. CASE m # 0
  <2> DEFINE n0 == m - 1
  <2>1. n0 \in Nat /\ n0 < m /\ m = n0 + 1
    BY <1>2, <1>4
  <2>2. PICK g : Summing(g, f, Upto(S, n0))
    BY <1>1, <2>1
  <2> DEFINE h == [s \in Upto(S, m) |-> IF s = {} THEN 0 ELSE f[Pick(s)] + g[s \ {Pick(s)}]]
  <2> HIDE DEF n0
  <2>3. \A s \in Upto(S, n0) : s \in Upto(S, m) /\ h[s] = g[s]
    <3>1. \A s \in Upto(S, n0) : s \in Upto(S, m)
      <4> SUFFICES ASSUME NEW s \in Upto(S, n0) PROVE s \in Upto(S, m)
        OBVIOUS
      <4>1. s \in SUBSET S /\ Cardinality(s) \in Nat
        BY FS_Subset, FS_CardinalityType DEF Upto
      <4> QED BY <2>1, <4>1 DEF Upto
    <3>2. \A s \in Upto(S, n0) : g[s] = IF s = {} THEN 0 ELSE f[Pick(s)] + g[s \ {Pick(s)}]
      BY <2>2 DEF Summing
    <3> QED BY <3>1, <3>2
  <2>4. \A s \in Upto(S, m) : s # {} => h[s \ {Pick(s)}] = g[s \ {Pick(s)}]
    BY <2>1, <2>3, SmallerUpto
  <2>5. h = [s \in Upto(S, m) |-> IF s = {} THEN 0 ELSE f[Pick(s)] + h[s \ {Pick(s)}]]
    BY <2>4
  <2>6. Summing(h, f, Upto(S, m))
    BY <2>5 DEF Summing
  <2> QED BY <2>6
<1> QED BY <1>3, <1>4

\* So the fold's own function is a solution.
LEMMA SolutionChosen ==
    ASSUME NEW f, NEW S, IsFiniteSet(S)
    PROVE  Summing(CHOOSE g : Summing(g, f, SUBSET S), f, SUBSET S)
<1>1. \E g : Summing(g, f, SUBSET S)
  <2>1. Cardinality(S) \in Nat
    BY FS_CardinalityType
  <2>2. \E g : Summing(g, f, Upto(S, Cardinality(S)))
    BY <2>1, SolutionUpto
  <2> QED BY <2>2, SubsetsUpto
<1> QED BY <1>1, Zenon

\* Two solutions agree wherever both are defined.
LEMMA SolutionsAgree ==
    ASSUME NEW f, NEW S, IsFiniteSet(S), NEW T \in SUBSET S, NEW g, NEW h,
           Summing(g, f, SUBSET S), Summing(h, f, SUBSET T)
    PROVE  \A s \in SUBSET T : g[s] = h[s]
<1> DEFINE Failing == {m \in Nat : \E s \in SUBSET T : Cardinality(s) = m /\ g[s] # h[s]}
<1> SUFFICES ASSUME NEW s0 \in SUBSET T, g[s0] # h[s0] PROVE FALSE
  OBVIOUS
<1>1. \A s \in SUBSET T : IsFiniteSet(s) /\ Cardinality(s) \in Nat
  BY FS_Subset, FS_CardinalityType
<1>2. Failing # {}
  BY <1>1
<1>3. PICK m \in Failing : \A k \in Failing : ~ (k < m)
  BY <1>2, NatLeast
<1>4. PICK s \in SUBSET T : Cardinality(s) = m /\ g[s] # h[s]
  BY <1>3
<1>5. /\ g[s] = IF s = {} THEN 0 ELSE f[Pick(s)] + g[s \ {Pick(s)}]
      /\ h[s] = IF s = {} THEN 0 ELSE f[Pick(s)] + h[s \ {Pick(s)}]
  BY DEF Summing
<1>6. s # {}
  BY <1>4, <1>5
<1>7. Cardinality(s \ {Pick(s)}) = m - 1 /\ m - 1 \in Nat
  <2>1. Pick(s) \in s /\ IsFiniteSet(s) /\ m \in Nat
    BY <1>1, <1>4, <1>6, PickIn
  <2>2. IsFiniteSet(s \ {Pick(s)}) /\ Cardinality(s \ {Pick(s)}) = m - 1
    BY <1>4, <2>1, FS_RemoveElement
  <2> QED BY <2>2, FS_CardinalityType
<1>8. g[s \ {Pick(s)}] = h[s \ {Pick(s)}]
  <2>1. s \ {Pick(s)} \in SUBSET T
    OBVIOUS
  <2> QED BY <1>3, <1>7, <2>1
<1> QED BY <1>4, <1>5, <1>8

\* A sum takes out the element the fold picks.
LEMMA SumUnfold ==
    ASSUME NEW f, NEW S, IsFiniteSet(S)
    PROVE  /\ SumFunctionOnSet(f, {}) = 0
           /\ S # {} => SumFunctionOnSet(f, S)
                          = f[Pick(S)] + SumFunctionOnSet(f, S \ {Pick(S)})
<1>1. ASSUME NEW T, IsFiniteSet(T)
      PROVE  \E g : Summing(g, f, SUBSET T) /\ SumFunctionOnSet(f, T) = g[T]
  BY <1>1, SolutionChosen, SumIsChosen, Zenon
<1>2. SumFunctionOnSet(f, {}) = 0
  BY <1>1, FS_EmptySet DEF Summing
<1>3. ASSUME S # {}
      PROVE  SumFunctionOnSet(f, S) = f[Pick(S)] + SumFunctionOnSet(f, S \ {Pick(S)})
  <2>1. IsFiniteSet(S \ {Pick(S)})
    BY FS_RemoveElement
  <2>2. PICK g : Summing(g, f, SUBSET S) /\ SumFunctionOnSet(f, S) = g[S]
    BY <1>1
  <2>3. PICK h : /\ Summing(h, f, SUBSET (S \ {Pick(S)}))
                 /\ SumFunctionOnSet(f, S \ {Pick(S)}) = h[S \ {Pick(S)}]
    BY <1>1, <2>1
  <2>4. g[S] = f[Pick(S)] + g[S \ {Pick(S)}]
    BY <1>3, <2>2 DEF Summing
  <2>5. g[S \ {Pick(S)}] = h[S \ {Pick(S)}]
    <3> DEFINE R == S \ {Pick(S)}
    <3>1. R \in SUBSET S /\ Summing(g, f, SUBSET S) /\ Summing(h, f, SUBSET R)
      BY <2>2, <2>3
    <3> HIDE DEF R
    <3>2. g[R] = h[R]
      BY <3>1, SolutionsAgree
    <3> QED BY <3>2 DEF R
  <2> QED BY <2>2, <2>3, <2>4, <2>5
<1> QED BY <1>2, <1>3

\* Induction over the subsets of a finite set: a set of counterexamples has a
\* smallest member.
LEMMA SmallestSubset ==
    ASSUME NEW S, IsFiniteSet(S), NEW B, B \subseteq SUBSET S, B # {}
    PROVE  \E s \in B : IsFiniteSet(s) /\ \A t \in SUBSET s : t # s => t \notin B
<1>1. IsWellFoundedOn(StrictSubsetOrdering(S), SUBSET S)
  BY FS_FiniteSubsetsOfFinite, FS_StrictSubsetOrderingWellFounded
<1>2. PICK s \in B : \A t \in B : ~ (<<t, s>> \in StrictSubsetOrdering(S))
  BY <1>1, WFMin
<1>3. IsFiniteSet(s)
  BY FS_Subset
<1>4. ASSUME NEW t \in SUBSET s, t # s, t \in B PROVE FALSE
  BY <1>2, <1>4 DEF StrictSubsetOrdering
<1> QED BY <1>3, <1>4

\* The sum of integers is an integer.
LEMMA SumInt ==
    ASSUME NEW f, NEW S, IsFiniteSet(S), \A x \in S : f[x] \in Int
    PROVE  SumFunctionOnSet(f, S) \in Int
<1> DEFINE B == {s \in SUBSET S : SumFunctionOnSet(f, s) \notin Int}
<1> SUFFICES ASSUME B # {} PROVE FALSE
  OBVIOUS
<1>1. PICK s \in B : IsFiniteSet(s) /\ \A t \in SUBSET s : t # s => t \notin B
  <2>1. B \subseteq SUBSET S
    OBVIOUS
  <2> HIDE DEF B
  <2> QED BY <2>1, SmallestSubset
<1>2. s # {}
  <2>1. SumFunctionOnSet(f, {}) = 0
    BY FS_EmptySet, SumUnfold
  <2> QED BY <2>1
<1>3. Pick(s) \in s /\ s \ {Pick(s)} # s
  BY <1>2, PickIn
<1>4. SumFunctionOnSet(f, s \ {Pick(s)}) \in Int
  BY <1>1, <1>3
<1>5. f[Pick(s)] \in Int
  BY <1>3
<1>6. SumFunctionOnSet(f, s) = f[Pick(s)] + SumFunctionOnSet(f, s \ {Pick(s)})
  BY <1>1, <1>2, SumUnfold
<1> QED BY <1>4, <1>5, <1>6

\* One more element adds its value: the order in which the elements are picked
\* does not matter.
LEMMA SumAdd ==
    ASSUME NEW f, NEW S, IsFiniteSet(S), NEW x, x \notin S,
           \A y \in S \cup {x} : f[y] \in Int
    PROVE  SumFunctionOnSet(f, S \cup {x}) = f[x] + SumFunctionOnSet(f, S)
<1> DEFINE B == {s \in SUBSET S : \E z \in (S \cup {x}) \ s :
                    SumFunctionOnSet(f, s \cup {z}) # f[z] + SumFunctionOnSet(f, s)}
<1> SUFFICES ASSUME B # {} PROVE FALSE
  OBVIOUS
<1>1. PICK s \in B : IsFiniteSet(s) /\ \A t \in SUBSET s : t # s => t \notin B
  <2>1. B \subseteq SUBSET S
    OBVIOUS
  <2> HIDE DEF B
  <2> QED BY <2>1, SmallestSubset
<1>2. PICK z \in (S \cup {x}) \ s : SumFunctionOnSet(f, s \cup {z}) # f[z] + SumFunctionOnSet(f, s)
  BY <1>1
<1> DEFINE R == s \cup {z}
           c == Pick(R)
           Q == s \ {c}
<1>3. IsFiniteSet(R) /\ c \in R
  <2>1. IsFiniteSet(R) /\ R # {}
    BY <1>1, FS_AddElement
  <2> HIDE DEF R
  <2> QED BY <2>1, PickIn
<1>4. SumFunctionOnSet(f, R) = f[c] + SumFunctionOnSet(f, R \ {c})
  BY <1>3, SumUnfold
<1>5. CASE c = z
  <2>1. R \ {c} = s
    BY <1>5
  <2> QED BY <1>2, <1>4, <1>5, <2>1
<1>6. CASE c # z
  <2>1. c \in s /\ Q \in SUBSET s /\ Q # s /\ s \in SUBSET S
    BY <1>3, <1>6
  <2>2. Q \notin B /\ Q \in SUBSET S
    BY <1>1, <2>1
  <2>3. R \ {c} = Q \cup {z} /\ s = Q \cup {c}
    BY <1>6, <2>1
  <2>4. z \in (S \cup {x}) \ Q /\ c \in (S \cup {x}) \ Q
    BY <2>1
  <2>5. /\ SumFunctionOnSet(f, Q \cup {z}) = f[z] + SumFunctionOnSet(f, Q)
        /\ SumFunctionOnSet(f, Q \cup {c}) = f[c] + SumFunctionOnSet(f, Q)
    BY <2>2, <2>4
  <2>6. SumFunctionOnSet(f, Q) \in Int
    <3>1. IsFiniteSet(Q) /\ \A y \in Q : f[y] \in Int
      BY <2>2, FS_Subset
    <3> QED BY <3>1, SumInt
  <2>7. f[z] \in Int /\ f[c] \in Int
    BY <2>1
  <2> HIDE DEF Q, R, c
  <2>8. SumFunctionOnSet(f, R) # f[z] + SumFunctionOnSet(f, s)
    BY <1>2 DEF R
  <2> QED BY <1>4, <2>3, <2>5, <2>6, <2>7, <2>8
<1> QED BY <1>5, <1>6

\* A sum takes out any of its elements.
LEMMA SumRemove ==
    ASSUME NEW f, NEW S, IsFiniteSet(S), NEW x \in S, \A y \in S : f[y] \in Int
    PROVE  SumFunctionOnSet(f, S) = f[x] + SumFunctionOnSet(f, S \ {x})
<1> DEFINE R == S \ {x}
<1>1. IsFiniteSet(R) /\ x \notin R /\ S = R \cup {x}
  BY FS_RemoveElement
<1> HIDE DEF R
<1>2. SumFunctionOnSet(f, R \cup {x}) = f[x] + SumFunctionOnSet(f, R)
  BY <1>1, SumAdd
<1> QED BY <1>1, <1>2 DEF R

\* Only the values on the set count.
LEMMA SumSame ==
    ASSUME NEW f, NEW g, NEW S, IsFiniteSet(S), \A x \in S : f[x] = g[x]
    PROVE  SumFunctionOnSet(f, S) = SumFunctionOnSet(g, S)
<1> DEFINE B == {s \in SUBSET S : SumFunctionOnSet(f, s) # SumFunctionOnSet(g, s)}
<1> SUFFICES ASSUME B # {} PROVE FALSE
  OBVIOUS
<1>1. PICK s \in B : IsFiniteSet(s) /\ \A t \in SUBSET s : t # s => t \notin B
  <2>1. B \subseteq SUBSET S
    OBVIOUS
  <2> HIDE DEF B
  <2> QED BY <2>1, SmallestSubset
<1>2. s # {}
  BY FS_EmptySet, SumUnfold
<1>3. Pick(s) \in s /\ s \ {Pick(s)} # s /\ f[Pick(s)] = g[Pick(s)]
  BY <1>2, PickIn
<1>4. SumFunctionOnSet(f, s \ {Pick(s)}) = SumFunctionOnSet(g, s \ {Pick(s)})
  BY <1>1, <1>3
<1>5. /\ SumFunctionOnSet(f, s) = f[Pick(s)] + SumFunctionOnSet(f, s \ {Pick(s)})
      /\ SumFunctionOnSet(g, s) = g[Pick(s)] + SumFunctionOnSet(g, s \ {Pick(s)})
  BY <1>1, <1>2, SumUnfold
<1> QED BY <1>3, <1>4, <1>5

\* A sum in which one value changed.
LEMMA SumChange ==
    ASSUME NEW f, NEW g, NEW S, IsFiniteSet(S), NEW x \in S,
           \A y \in S : f[y] \in Int /\ g[y] \in Int,
           \A y \in S \ {x} : g[y] = f[y]
    PROVE  SumFunctionOnSet(g, S) = SumFunctionOnSet(f, S) - f[x] + g[x]
<1>1. /\ SumFunctionOnSet(f, S) = f[x] + SumFunctionOnSet(f, S \ {x})
      /\ SumFunctionOnSet(g, S) = g[x] + SumFunctionOnSet(g, S \ {x})
  BY SumRemove
<1>2. IsFiniteSet(S \ {x})
  BY FS_RemoveElement
<1>3. /\ SumFunctionOnSet(f, S \ {x}) = SumFunctionOnSet(g, S \ {x})
      /\ SumFunctionOnSet(f, S \ {x}) \in Int
  BY <1>2, SumSame, SumInt
<1> QED BY <1>1, <1>3

\* The sum over two disjoint sets.
LEMMA SumUnion ==
    ASSUME NEW f, NEW S, NEW T, IsFiniteSet(S), IsFiniteSet(T), S \cap T = {},
           \A x \in S \cup T : f[x] \in Int
    PROVE  SumFunctionOnSet(f, S \cup T) = SumFunctionOnSet(f, S) + SumFunctionOnSet(f, T)
<1> DEFINE B == {t \in SUBSET T : SumFunctionOnSet(f, S \cup t)
                                    # SumFunctionOnSet(f, S) + SumFunctionOnSet(f, t)}
<1> SUFFICES ASSUME B # {} PROVE FALSE
  OBVIOUS
<1>1. PICK t \in B : IsFiniteSet(t) /\ \A u \in SUBSET t : u # t => u \notin B
  <2>1. B \subseteq SUBSET T
    OBVIOUS
  <2> HIDE DEF B
  <2> QED BY <2>1, SmallestSubset
<1>2. SumFunctionOnSet(f, S) \in Int
  BY SumInt
<1>3. t # {}
  <2>1. SumFunctionOnSet(f, {}) = 0 /\ S \cup {} = S
    BY FS_EmptySet, SumUnfold
  <2> QED BY <1>2, <2>1
<1>4. PICK x \in t : TRUE
  BY <1>3
<1> DEFINE u == t \ {x}
<1>5. u \in SUBSET t /\ u # t /\ u \in SUBSET T
  BY <1>4
<1>6. SumFunctionOnSet(f, S \cup u) = SumFunctionOnSet(f, S) + SumFunctionOnSet(f, u)
  BY <1>1, <1>5
<1>7. SumFunctionOnSet(f, t) = f[x] + SumFunctionOnSet(f, u)
  BY <1>1, <1>4, SumRemove
<1>8. SumFunctionOnSet(f, S \cup t) = f[x] + SumFunctionOnSet(f, S \cup u)
  <2> DEFINE R == S \cup t
  <2>1. IsFiniteSet(R) /\ x \in R /\ \A y \in R : f[y] \in Int
    BY <1>1, <1>4, FS_Union
  <2>2. R \ {x} = S \cup u
    BY <1>4
  <2> HIDE DEF R, u
  <2>3. SumFunctionOnSet(f, R) = f[x] + SumFunctionOnSet(f, R \ {x})
    BY <2>1, SumRemove
  <2> QED BY <2>2, <2>3 DEF R
<1>9. f[x] \in Int /\ SumFunctionOnSet(f, u) \in Int
  <2>1. IsFiniteSet(u) /\ \A y \in u : f[y] \in Int
    BY <1>1, <1>5, FS_Subset
  <2> QED BY <1>4, <2>1, SumInt
<1> HIDE DEF u
<1>10. SumFunctionOnSet(f, S \cup t) # SumFunctionOnSet(f, S) + SumFunctionOnSet(f, t)
  BY <1>1
<1> QED BY <1>2, <1>6, <1>7, <1>8, <1>9, <1>10

\* Smaller values have a smaller sum.
LEMMA SumMonotone ==
    ASSUME NEW f, NEW g, NEW S, IsFiniteSet(S),
           \A x \in S : f[x] \in Int /\ g[x] \in Int /\ f[x] <= g[x]
    PROVE  SumFunctionOnSet(f, S) <= SumFunctionOnSet(g, S)
<1> DEFINE B == {s \in SUBSET S : ~ (SumFunctionOnSet(f, s) <= SumFunctionOnSet(g, s))}
<1> SUFFICES ASSUME B # {} PROVE FALSE
  OBVIOUS
<1>1. PICK s \in B : IsFiniteSet(s) /\ \A t \in SUBSET s : t # s => t \notin B
  <2>1. B \subseteq SUBSET S
    OBVIOUS
  <2> HIDE DEF B
  <2> QED BY <2>1, SmallestSubset
<1>2. s # {}
  <2>1. SumFunctionOnSet(f, {}) = 0 /\ SumFunctionOnSet(g, {}) = 0
    BY FS_EmptySet, SumUnfold
  <2> QED BY <2>1
<1> DEFINE x == Pick(s)
           t == s \ {x}
<1>3. x \in s /\ t # s /\ t \in SUBSET s /\ x \in S
  BY <1>2, PickIn
<1>4. SumFunctionOnSet(f, t) <= SumFunctionOnSet(g, t)
  BY <1>1, <1>3
<1>5. /\ SumFunctionOnSet(f, s) = f[x] + SumFunctionOnSet(f, t)
      /\ SumFunctionOnSet(g, s) = g[x] + SumFunctionOnSet(g, t)
  BY <1>1, <1>2, SumUnfold
<1>6. SumFunctionOnSet(f, t) \in Int /\ SumFunctionOnSet(g, t) \in Int
  <2>1. IsFiniteSet(t) /\ \A y \in t : f[y] \in Int /\ g[y] \in Int
    BY <1>1, <1>3, FS_Subset
  <2> QED BY <2>1, SumInt
<1>7. ~ (SumFunctionOnSet(f, s) <= SumFunctionOnSet(g, s))
  BY <1>1
<1> HIDE DEF x, t
<1> QED BY <1>3, <1>4, <1>5, <1>6, <1>7

\* The sum of nothing but zeros.
LEMMA SumZero ==
    ASSUME NEW f, NEW S, IsFiniteSet(S), \A x \in S : f[x] = 0
    PROVE  SumFunctionOnSet(f, S) = 0
<1> DEFINE B == {s \in SUBSET S : SumFunctionOnSet(f, s) # 0}
<1> SUFFICES ASSUME B # {} PROVE FALSE
  OBVIOUS
<1>1. PICK s \in B : IsFiniteSet(s) /\ \A t \in SUBSET s : t # s => t \notin B
  <2>1. B \subseteq SUBSET S
    OBVIOUS
  <2> HIDE DEF B
  <2> QED BY <2>1, SmallestSubset
<1>2. s # {}
  BY FS_EmptySet, SumUnfold
<1>3. Pick(s) \in s /\ s \ {Pick(s)} # s /\ f[Pick(s)] = 0
  BY <1>2, PickIn
<1>4. SumFunctionOnSet(f, s \ {Pick(s)}) = 0
  BY <1>1, <1>3
<1>5. SumFunctionOnSet(f, s) = f[Pick(s)] + SumFunctionOnSet(f, s \ {Pick(s)})
  BY <1>1, <1>2, SumUnfold
<1> QED BY <1>3, <1>4, <1>5

\* Natural values have a natural sum, and a part of it is at most the whole.
LEMMA SumNat ==
    ASSUME NEW f, NEW S, IsFiniteSet(S), \A x \in S : f[x] \in Nat
    PROVE  /\ SumFunctionOnSet(f, S) \in Nat
           /\ \A T \in SUBSET S : SumFunctionOnSet(f, T) <= SumFunctionOnSet(f, S)
<1>1. ASSUME NEW T \in SUBSET S
      PROVE  SumFunctionOnSet(f, T) \in Nat
  <2> DEFINE z == [x \in T |-> 0]
  <2>1. IsFiniteSet(T) /\ \A x \in T : f[x] \in Int /\ z[x] \in Int /\ z[x] <= f[x]
    BY FS_Subset
  <2>2. \A x \in T : z[x] = 0
    OBVIOUS
  <2> HIDE DEF z
  <2>3. SumFunctionOnSet(z, T) <= SumFunctionOnSet(f, T) /\ SumFunctionOnSet(z, T) = 0
    BY <2>1, <2>2, SumMonotone, SumZero
  <2>4. SumFunctionOnSet(f, T) \in Int
    BY <2>1, SumInt
  <2> QED BY <2>3, <2>4
<1>2. ASSUME NEW T \in SUBSET S
      PROVE  SumFunctionOnSet(f, T) <= SumFunctionOnSet(f, S)
  <2> DEFINE R == S \ T
  <2>1. IsFiniteSet(T) /\ IsFiniteSet(R) /\ T \cap R = {} /\ S = T \cup R
    BY FS_Subset
  <2>2. SumFunctionOnSet(f, T) \in Nat /\ SumFunctionOnSet(f, R) \in Nat
    BY <1>1
  <2> HIDE DEF R
  <2>3. SumFunctionOnSet(f, T \cup R) = SumFunctionOnSet(f, T) + SumFunctionOnSet(f, R)
    BY <2>1, SumUnion
  <2> QED BY <2>1, <2>2, <2>3
<1> QED BY <1>1, <1>2

\* A sum in which one element was added and the others kept their values.
LEMMA SumGrows ==
    ASSUME NEW f, NEW g, NEW S, IsFiniteSet(S), NEW x, x \notin S,
           \A y \in S : f[y] \in Int /\ g[y] = f[y], g[x] \in Int
    PROVE  SumFunctionOnSet(g, S \cup {x}) = SumFunctionOnSet(f, S) + g[x]
<1>1. SumFunctionOnSet(g, S \cup {x}) = g[x] + SumFunctionOnSet(g, S)
  BY SumAdd
<1>2. SumFunctionOnSet(g, S) = SumFunctionOnSet(f, S) /\ SumFunctionOnSet(f, S) \in Int
  BY SumSame, SumInt
<1> QED BY <1>1, <1>2

\* A sum renumbered: the values taken along an injection.
LEMMA SumInjected ==
    ASSUME NEW C, IsFiniteSet(C), NEW g, NEW h, NEW q,
           \A c \in C : g[c] = h[q[c]] /\ h[q[c]] \in Int,
           \A c, d \in C : q[c] = q[d] => c = d
    PROVE  SumFunctionOnSet(g, C) = SumFunctionOnSet(h, {q[c] : c \in C})
<1> DEFINE Im(d) == {q[c] : c \in d}
           B == {d \in SUBSET C : SumFunctionOnSet(g, d) # SumFunctionOnSet(h, Im(d))}
<1> SUFFICES ASSUME B # {} PROVE FALSE
  OBVIOUS
<1>1. PICK d \in B : IsFiniteSet(d) /\ \A t \in SUBSET d : t # d => t \notin B
  <2>1. B \subseteq SUBSET C
    OBVIOUS
  <2> HIDE DEF B
  <2> QED BY <2>1, SmallestSubset
<1>2. d # {}
  <2>1. Im({}) = {}
    OBVIOUS
  <2> HIDE DEF Im
  <2> QED BY <2>1, FS_EmptySet, SumUnfold
<1>3. PICK x \in d : TRUE
  BY <1>2
<1> DEFINE e == d \ {x}
<1>4. e \in SUBSET d /\ e # d /\ d \in SUBSET C /\ x \in C
  BY <1>3
<1>5. SumFunctionOnSet(g, e) = SumFunctionOnSet(h, Im(e))
  BY <1>1, <1>4
<1>6. SumFunctionOnSet(g, d) = g[x] + SumFunctionOnSet(g, e)
  <2>1. \A c \in d : g[c] \in Int
    OBVIOUS
  <2> QED BY <1>1, <1>3, <2>1, SumRemove
<1>7. Im(d) = Im(e) \cup {q[x]} /\ q[x] \notin Im(e) /\ \A y \in Im(e) \cup {q[x]} : h[y] \in Int
  BY <1>3, <1>4
<1>8. IsFiniteSet(Im(e))
  <2>1. IsFiniteSet(e)
    BY <1>1, <1>4, FS_Subset
  <2> DEFINE f == [c \in e |-> q[c]]
             T == {q[c] : c \in e}
  <2>2. f \in Surjection(e, T)
    BY DEF Surjection
  <2> HIDE DEF f, T
  <2>3. IsFiniteSet(T)
    BY <2>1, <2>2, FS_Surjection
  <2> QED BY <2>3 DEF T
<1>9. SumFunctionOnSet(g, d) # SumFunctionOnSet(h, Im(d)) /\ g[x] = h[q[x]]
  BY <1>1, <1>4
<1> HIDE DEF Im, e
<1>10. SumFunctionOnSet(h, Im(e) \cup {q[x]}) = h[q[x]] + SumFunctionOnSet(h, Im(e))
  BY <1>7, <1>8, SumAdd
<1> QED BY <1>5, <1>6, <1>7, <1>9, <1>10

\* A set whose elements each stand for another element of S of the same value
\* has at most the sum of S.
LEMMA SumCovered ==
    ASSUME NEW C, IsFiniteSet(C), NEW S, IsFiniteSet(S), NEW g, NEW h, NEW q,
           \A c \in C : q[c] \in S /\ g[c] = h[q[c]],
           \A c, d \in C : q[c] = q[d] => c = d,
           \A x \in S : h[x] \in Nat
    PROVE  SumFunctionOnSet(g, C) <= SumFunctionOnSet(h, S)
<1>1. SumFunctionOnSet(g, C) = SumFunctionOnSet(h, {q[c] : c \in C})
  <2>1. \A c \in C : g[c] = h[q[c]] /\ h[q[c]] \in Int
    OBVIOUS
  <2> QED BY <2>1, SumInjected
<1>2. {q[c] : c \in C} \in SUBSET S
  OBVIOUS
<1>3. \A T \in SUBSET S : SumFunctionOnSet(h, T) <= SumFunctionOnSet(h, S)
  BY SumNat
<1> QED BY <1>1, <1>2, <1>3

-----------------------------------------------------------------------------
(* Recursion over the first n numbers.                                     *)

\* Induction: what holds of 0 and goes on from each number to the next.
LEMMA Onwards ==
    ASSUME NEW n \in Nat, NEW S, 0 \in S, \A k \in 1..n : k - 1 \in S => k \in S
    PROVE  0..n \subseteq S
<1> DEFINE B == {k \in 0..n : k \notin S}
<1> SUFFICES ASSUME B # {} PROVE FALSE
  OBVIOUS
<1>1. PICK m \in B : \A k \in B : ~ (k < m)
  <2>1. B \subseteq Nat
    OBVIOUS
  <2> HIDE DEF B
  <2> QED BY <2>1, NatLeast
<1>2. m # 0 /\ m \in 1..n /\ m - 1 \in 0..n /\ m - 1 < m
  BY <1>1
<1>3. m - 1 \notin B
  BY <1>1, <1>2
<1> QED BY <1>1, <1>2, <1>3

\* f takes the values b leads to by n steps of F.
Iterates(f, n, V, b, F) ==
    f \in [0..n -> V] /\ f[0] = b /\ \A k \in 1..n : f[k] = F[<<k, f[k - 1]>>]

\* A step from each number to the next defines a function.
LEMMA Iterated ==
    ASSUME NEW n \in Nat, NEW V, NEW b \in V, NEW F \in [(1..n) \X V -> V]
    PROVE  \E f : Iterates(f, n, V, b, F)
<1> DEFINE Done(f, m) == f[0] = b /\ \A k \in 1..m : f[k] = F[<<k, f[k - 1]>>]
           S == {m \in 0..n : \E f \in [0..m -> V] : Done(f, m)}
<1>1. 0 \in S
  <2> DEFINE f == [k \in 0..0 |-> b]
  <2>1. f \in [0..0 -> V] /\ Done(f, 0)
    OBVIOUS
  <2> HIDE DEF f, Done
  <2> QED BY <2>1
<1>2. ASSUME NEW m \in 1..n, m - 1 \in S PROVE m \in S
  <2>1. PICK f \in [0..(m - 1) -> V] : Done(f, m - 1)
    BY <1>2
  <2> DEFINE v == F[<<m, f[m - 1]>>]
             g == [k \in 0..m |-> IF k = m THEN v ELSE f[k]]
  <2>2. v \in V
    BY <1>2
  <2>3. g \in [0..m -> V]
    BY <2>2
  <2>4. \A k \in 0..(m - 1) : g[k] = f[k]
    BY <1>2
  <2>5. g[m] = F[<<m, g[m - 1]>>]
    <3>1. g[m] = v /\ m - 1 \in 0..(m - 1)
      BY <1>2
    <3>2. g[m - 1] = f[m - 1]
      BY <2>4, <3>1
    <3> QED BY <3>1, <3>2
  <2> HIDE DEF v, g
  <2>6. Done(g, m)
    <3>1. g[0] = b
      BY <1>2, <2>1, <2>4
    <3>2. ASSUME NEW k \in 1..m PROVE g[k] = F[<<k, g[k - 1]>>]
      <4>1. CASE k = m
        BY <2>5, <4>1
      <4>2. CASE k # m
        <5>1. k \in 1..(m - 1) /\ k \in 0..(m - 1) /\ k - 1 \in 0..(m - 1)
          BY <1>2, <4>2
        <5> QED BY <2>1, <2>4, <5>1
      <4> QED BY <4>1, <4>2
    <3> QED BY <3>1, <3>2
  <2> HIDE DEF Done
  <2> QED BY <1>2, <2>3, <2>6
<1> HIDE DEF S
<1>3. 0..n \subseteq S
  BY <1>1, <1>2, Onwards
<1>4. n \in S
  BY <1>3
<1> QED BY <1>4 DEF S, Iterates
=============================================================================
