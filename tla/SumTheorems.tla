----------------------------- MODULE SumTheorems -----------------------------
(***************************************************************************)
(* Sums over finite sets, for the modules that add up amounts with         *)
(* MapThenFoldSet.  SumOver(f, S) is such a sum of a function; the lemmas  *)
(* give what proofs need of it: it does not depend on the order in which   *)
(* the elements are taken, and what an element more or less changes.       *)
(*                                                                         *)
(* The inductions are over the finite subsets of a set: a set of           *)
(* counterexamples that is not empty has a least one (WFMin).              *)
(***************************************************************************)
EXTENDS Integers, Functions, FiniteSetTheorems, WellFoundedInduction, TLAPS

Pick(s) == CHOOSE x \in s : TRUE

\* The recursion of MapThenFoldSet, for a sum, and its solution.
Recurs(g, f, S) ==
  g = [s \in SUBSET S |-> IF s = {} THEN 0 ELSE f[Pick(s)] + g[s \ {Pick(s)}]]
SumOver(f, S) == (CHOOSE g : Recurs(g, f, S))[S]

-----------------------------------------------------------------------------

LEMMA LeastSubset ==
  ASSUME NEW S, IsFiniteSet(S), NEW Bad \in SUBSET (SUBSET S), Bad # {}
  PROVE  \E T \in Bad : \A U \in Bad : ~(U \subseteq T /\ U # T)
<1>1. Bad \subseteq FiniteSubsetsOf(S)
  BY FS_Subset DEF FiniteSubsetsOf
<1>2. PICK T \in Bad : \A U \in Bad : <<U, T>> \notin StrictSubsetOrdering(S)
  BY <1>1, WFMin, FS_StrictSubsetOrderingWellFounded
<1> QED
  BY <1>2 DEF StrictSubsetOrdering

LEMMA PickIn == \A s : s # {} => Pick(s) \in s
  BY DEF Pick

LEMMA RecursAt ==
  ASSUME NEW f, NEW S, NEW g, Recurs(g, f, S), NEW s \in SUBSET S
  PROVE  g[s] = IF s = {} THEN 0 ELSE f[Pick(s)] + g[s \ {Pick(s)}]
  BY DEF Recurs

\* Solutions over different sets agree on what these have in common.
LEMMA RecursUnique ==
  ASSUME NEW f, NEW S, IsFiniteSet(S), NEW R, NEW g, NEW h,
         Recurs(g, f, S), Recurs(h, f, R), NEW V \in SUBSET (S \cap R)
  PROVE  g[V] = h[V]
<1> DEFINE Bad == {U \in SUBSET S : U \subseteq R /\ g[U] # h[U]}
<1> SUFFICES ASSUME Bad # {} PROVE FALSE
  OBVIOUS
<1>1. PICK T \in Bad : \A U \in Bad : ~(U \subseteq T /\ U # T)
  <2>1. Bad \in SUBSET (SUBSET S)
    OBVIOUS
  <2> HIDE DEF Bad
  <2> QED
    BY <2>1, LeastSubset
<1> DEFINE x == Pick(T)
<1>2. T \in SUBSET S /\ T \in SUBSET R /\ g[T] # h[T]
  OBVIOUS
<1> HIDE DEF Bad, x
<1>3. g[T] = (IF T = {} THEN 0 ELSE f[x] + g[T \ {x}])
  BY <1>2, RecursAt DEF x
<1>4. h[T] = (IF T = {} THEN 0 ELSE f[x] + h[T \ {x}])
  <2>1. Recurs(h, f, R) /\ T \in SUBSET R
    BY <1>2
  <2> QED
    BY <2>1 DEF Recurs, x
<1>5. T # {} => T \ {x} \subseteq T /\ T \ {x} # T
  BY PickIn DEF x
<1>6. T # {} => g[T \ {x}] = h[T \ {x}]
  BY <1>1, <1>2, <1>5 DEF Bad
<1> QED
  BY <1>2, <1>3, <1>4, <1>6

LEMMA RecursExists ==
  ASSUME NEW f, NEW S, IsFiniteSet(S)
  PROVE  \E g : Recurs(g, f, S)
<1> DEFINE Bad == {U \in SUBSET S : ~\E g : Recurs(g, f, U)}
<1> SUFFICES ASSUME Bad # {} PROVE FALSE
  OBVIOUS
<1>1. PICK T \in Bad : \A U \in Bad : ~(U \subseteq T /\ U # T)
  <2>1. Bad \in SUBSET (SUBSET S)
    OBVIOUS
  <2> HIDE DEF Bad
  <2> QED
    BY <2>1, LeastSubset
<1> DEFINE of(U) == CHOOSE g : Recurs(g, f, U)
           x == Pick(T)
<1> HIDE DEF of
<1>2. \A U \in SUBSET T : U # T => Recurs(of(U), f, U)
  BY <1>1 DEF of
<1>3. ASSUME NEW U \in SUBSET T, U # T, U # {}
      PROVE  of(U)[U] = f[Pick(U)] + of(U \ {Pick(U)})[U \ {Pick(U)}]
  <2>1. Pick(U) \in U /\ U \ {Pick(U)} \in SUBSET T /\ U \ {Pick(U)} # T
    BY <1>3, PickIn
  <2>2. IsFiniteSet(U)
    BY <1>1, FS_Subset
  <2>3. of(U)[U \ {Pick(U)}] = of(U \ {Pick(U)})[U \ {Pick(U)}]
    BY <1>2, <1>3, <2>1, <2>2, RecursUnique
  <2> QED
    BY <1>2, <1>3, <2>3, RecursAt
<1>4. T # {} => of({})[{}] = 0
  <2> SUFFICES ASSUME T # {} PROVE of({})[{}] = 0
    OBVIOUS
  <2>1. Recurs(of({}), f, {})
    BY <1>2
  <2> QED
    BY <2>1, RecursAt
<1> DEFINE all == [U \in SUBSET T |->
                     IF U # T THEN of(U)[U]
                     ELSE IF T = {} THEN 0 ELSE f[x] + of(T \ {x})[T \ {x}]]
<1>5. \A U \in SUBSET T : U # {} => U \ {Pick(U)} \in SUBSET T /\ U \ {Pick(U)} # T
  BY PickIn
<1>6. \A U \in SUBSET T : U # {} => all[U \ {Pick(U)}] = of(U \ {Pick(U)})[U \ {Pick(U)}]
  BY <1>5
<1>7. \A U \in SUBSET T : all[U] = IF U = {} THEN 0 ELSE f[Pick(U)] + all[U \ {Pick(U)}]
  BY <1>3, <1>4, <1>6
<1>8. Recurs(all, f, T)
  BY <1>7 DEF Recurs
<1> QED
  BY <1>1, <1>8

LEMMA SumRecurs ==
  ASSUME NEW f, NEW S, IsFiniteSet(S), NEW g, Recurs(g, f, S), NEW T \in SUBSET S
  PROVE  g[T] = SumOver(f, T)
<1>1. IsFiniteSet(T)
  BY FS_Subset
<1>2. Recurs(CHOOSE h : Recurs(h, f, T), f, T)
  BY <1>1, RecursExists
<1> QED
  BY <1>1, <1>2, RecursUnique DEF SumOver

-----------------------------------------------------------------------------
(* What a sum is.                                                          *)

LEMMA SumEmpty == \A f : SumOver(f, {}) = 0
<1> SUFFICES ASSUME NEW f PROVE SumOver(f, {}) = 0
  OBVIOUS
<1>1. IsFiniteSet({})
  BY FS_EmptySet
<1>2. PICK g : Recurs(g, f, {})
  BY <1>1, RecursExists
<1>3. g[{}] = SumOver(f, {})
  BY <1>1, <1>2, SumRecurs
<1>4. g[{}] = 0
  BY <1>2, RecursAt
<1> QED
  BY <1>3, <1>4

LEMMA SumPick ==
  ASSUME NEW f, NEW S, IsFiniteSet(S), S # {}
  PROVE  SumOver(f, S) = f[Pick(S)] + SumOver(f, S \ {Pick(S)})
<1>1. PICK g : Recurs(g, f, S)
  BY RecursExists
<1>2. g[S] = SumOver(f, S) /\ g[S \ {Pick(S)}] = SumOver(f, S \ {Pick(S)})
  BY <1>1, SumRecurs
<1> QED
  BY <1>1, <1>2, RecursAt

\* A set of which no subset is the first to fail has what its subsets have.
LEMMA SumType ==
  ASSUME NEW f, NEW S, IsFiniteSet(S), \A x \in S : f[x] \in Int
  PROVE  SumOver(f, S) \in Int
<1> DEFINE Bad == {U \in SUBSET S : SumOver(f, U) \notin Int}
<1> SUFFICES ASSUME Bad # {} PROVE FALSE
  OBVIOUS
<1>1. PICK T \in Bad : \A U \in Bad : ~(U \subseteq T /\ U # T)
  <2>1. Bad \in SUBSET (SUBSET S)
    OBVIOUS
  <2> HIDE DEF Bad
  <2> QED
    BY <2>1, LeastSubset
<1>2. T \in SUBSET S /\ SumOver(f, T) \notin Int /\ IsFiniteSet(T)
  BY FS_Subset
<1>3. T # {}
  BY <1>2, SumEmpty
<1>4. Pick(T) \in T /\ T \ {Pick(T)} \in SUBSET S /\ T \ {Pick(T)} # T
  BY <1>2, <1>3, PickIn
<1>5. SumOver(f, T \ {Pick(T)}) \in Int
  BY <1>1, <1>4
<1>6. SumOver(f, T) = f[Pick(T)] + SumOver(f, T \ {Pick(T)})
  BY <1>2, <1>3, SumPick
<1> QED
  BY <1>2, <1>4, <1>5, <1>6

\* The order of the elements does not matter: any of them may be taken first.
LEMMA SumRemove ==
  ASSUME NEW f, NEW S, IsFiniteSet(S), \A x \in S : f[x] \in Int, NEW y \in S
  PROVE  SumOver(f, S) = f[y] + SumOver(f, S \ {y})
<1> DEFINE Bad == {U \in SUBSET S : \E x \in U : SumOver(f, U) # f[x] + SumOver(f, U \ {x})}
<1> SUFFICES ASSUME Bad # {} PROVE FALSE
  OBVIOUS
<1>1. PICK T \in Bad : \A U \in Bad : ~(U \subseteq T /\ U # T)
  <2>1. Bad \in SUBSET (SUBSET S)
    OBVIOUS
  <2> HIDE DEF Bad
  <2> QED
    BY <2>1, LeastSubset
<1>2. T \in SUBSET S /\ IsFiniteSet(T)
  BY FS_Subset
<1>3. PICK x \in T : SumOver(f, T) # f[x] + SumOver(f, T \ {x})
  OBVIOUS
<1> DEFINE p == Pick(T)
           R == T \ {p}
<1>4. p \in T /\ SumOver(f, T) = f[p] + SumOver(f, R)
  BY <1>2, PickIn, SumPick
<1>5. p # x
  BY <1>3, <1>4
<1>6. R \in SUBSET S /\ R \subseteq T /\ R # T /\ x \in R
  BY <1>2, <1>4, <1>5
<1>7. SumOver(f, R) = f[x] + SumOver(f, R \ {x})
  BY <1>1, <1>6
<1>8. T \ {x} \in SUBSET S /\ T \ {x} \subseteq T /\ T \ {x} # T /\ p \in T \ {x}
  BY <1>2, <1>3, <1>4, <1>5
<1>9. SumOver(f, T \ {x}) = f[p] + SumOver(f, (T \ {x}) \ {p})
  BY <1>1, <1>8
<1>10. R \ {x} = (T \ {x}) \ {p}
  OBVIOUS
<1>11. SumOver(f, R \ {x}) \in Int
  BY <1>2, SumType, FS_Subset
<1>12. f[x] \in Int /\ f[p] \in Int
  BY <1>2, <1>3, <1>4
<1>13. SumOver(f, T \ {x}) = f[p] + SumOver(f, R \ {x})
  BY <1>9, <1>10
<1>14. SumOver(f, T) = f[p] + (f[x] + SumOver(f, R \ {x}))
  BY <1>4, <1>7
<1> HIDE DEF R, p, Bad
<1> QED
  BY <1>3, <1>11, <1>12, <1>13, <1>14

LEMMA SumAdd ==
  ASSUME NEW f, NEW S, IsFiniteSet(S), NEW y, y \notin S, \A x \in S \cup {y} : f[x] \in Int
  PROVE  SumOver(f, S \cup {y}) = f[y] + SumOver(f, S)
<1>1. IsFiniteSet(S \cup {y}) /\ (S \cup {y}) \ {y} = S
  BY FS_AddElement
<1> QED
  BY <1>1, SumRemove

\* Only the values on the set count.
LEMMA SumSame ==
  ASSUME NEW f, NEW g, NEW S, IsFiniteSet(S), \A x \in S : f[x] = g[x]
  PROVE  SumOver(f, S) = SumOver(g, S)
<1> DEFINE Bad == {U \in SUBSET S : SumOver(f, U) # SumOver(g, U)}
<1> SUFFICES ASSUME Bad # {} PROVE FALSE
  OBVIOUS
<1>1. PICK T \in Bad : \A U \in Bad : ~(U \subseteq T /\ U # T)
  <2>1. Bad \in SUBSET (SUBSET S)
    OBVIOUS
  <2> HIDE DEF Bad
  <2> QED
    BY <2>1, LeastSubset
<1>2. T \in SUBSET S /\ SumOver(f, T) # SumOver(g, T) /\ IsFiniteSet(T)
  BY FS_Subset
<1>3. T # {}
  BY <1>2, SumEmpty
<1>4. Pick(T) \in T /\ T \ {Pick(T)} \in SUBSET S /\ T \ {Pick(T)} # T
  BY <1>2, <1>3, PickIn
<1>5. SumOver(f, T \ {Pick(T)}) = SumOver(g, T \ {Pick(T)})
  BY <1>1, <1>4
<1>6. SumOver(f, T) = f[Pick(T)] + SumOver(f, T \ {Pick(T)})
  BY <1>2, <1>3, SumPick
<1>7. SumOver(g, T) = g[Pick(T)] + SumOver(g, T \ {Pick(T)})
  BY <1>2, <1>3, SumPick
<1> QED
  BY <1>2, <1>4, <1>5, <1>6, <1>7

\* A sum of naturals is one, and none of its parts is greater.
LEMMA SumNat ==
  ASSUME NEW f, NEW S, IsFiniteSet(S), \A x \in S : f[x] \in Nat
  PROVE  SumOver(f, S) \in Nat
<1> DEFINE Bad == {U \in SUBSET S : SumOver(f, U) \notin Nat}
<1> SUFFICES ASSUME Bad # {} PROVE FALSE
  OBVIOUS
<1>1. PICK T \in Bad : \A U \in Bad : ~(U \subseteq T /\ U # T)
  <2>1. Bad \in SUBSET (SUBSET S)
    OBVIOUS
  <2> HIDE DEF Bad
  <2> QED
    BY <2>1, LeastSubset
<1>2. T \in SUBSET S /\ SumOver(f, T) \notin Nat /\ IsFiniteSet(T)
  BY FS_Subset
<1>3. T # {}
  BY <1>2, SumEmpty
<1>4. Pick(T) \in T /\ T \ {Pick(T)} \in SUBSET S /\ T \ {Pick(T)} # T
  BY <1>2, <1>3, PickIn
<1>5. SumOver(f, T \ {Pick(T)}) \in Nat
  BY <1>1, <1>4
<1>6. SumOver(f, T) = f[Pick(T)] + SumOver(f, T \ {Pick(T)})
  BY <1>2, <1>3, SumPick
<1> QED
  BY <1>2, <1>4, <1>5, <1>6

\* Two values that cancel each other may be left out together.
LEMMA SumCancel ==
  ASSUME NEW f, NEW S, IsFiniteSet(S), \A x \in S : f[x] \in Int,
         NEW y \in S, NEW z \in S, y # z, f[y] + f[z] = 0
  PROVE  SumOver(f, S) = SumOver(f, S \ {y, z})
<1>1. IsFiniteSet(S \ {y}) /\ z \in S \ {y} /\ S \ {y, z} = (S \ {y}) \ {z}
  BY FS_Subset
<1>2. SumOver(f, S) = f[y] + SumOver(f, S \ {y})
  BY SumRemove
<1>3. SumOver(f, S \ {y}) = f[z] + SumOver(f, S \ {y, z})
  BY <1>1, SumRemove
<1>4. SumOver(f, S \ {y, z}) \in Int
  BY SumType, FS_Subset
<1> QED
  BY <1>2, <1>3, <1>4

LEMMA LeastNat ==
  ASSUME NEW S \in SUBSET Nat, S # {}
  PROVE  \E n \in S : \A m \in S : n <= m
<1>1. PICK n \in S : \A m \in S : <<m, n>> \notin OpToRel(<, Nat)
  BY WFMin, NatLessThanWellFounded
<1>2. SUFFICES ASSUME NEW m \in S, ~(n <= m) PROVE FALSE
  OBVIOUS
<1>3. <<m, n>> \in OpToRel(<, Nat)
  <2>1. m \in Nat /\ n \in Nat /\ m < n
    BY <1>2
  <2> QED
    BY <2>1, Zenon DEF OpToRel
<1> QED
  BY <1>1, <1>3

\* What is paired with its negative adds up to nothing.
LEMMA SumPairs ==
  ASSUME NEW f, NEW S, IsFiniteSet(S), \A x \in S : f[x] \in Int,
         NEW m \in [S -> S],
         \A x \in S : m[m[x]] = x /\ m[x] # x /\ f[x] + f[m[x]] = 0
  PROVE  SumOver(f, S) = 0
<1> DEFINE Bad == {U \in SUBSET S : (\A x \in U : m[x] \in U) /\ SumOver(f, U) # 0}
<1> SUFFICES ASSUME Bad # {} PROVE FALSE
  OBVIOUS
<1>1. PICK T \in Bad : \A U \in Bad : ~(U \subseteq T /\ U # T)
  <2>1. Bad \in SUBSET (SUBSET S)
    OBVIOUS
  <2> HIDE DEF Bad
  <2> QED
    BY <2>1, LeastSubset
<1>2. PICK x \in T : TRUE
  BY <1>1, SumEmpty
<1> DEFINE U == T \ {x, m[x]}
<1>3. IsFiniteSet(T) /\ x \in S /\ m[x] \in T /\ m[x] # x /\ f[x] + f[m[x]] = 0
  BY <1>1, <1>2, FS_Subset
<1>4. SumOver(f, T) = SumOver(f, U)
  BY <1>1, <1>3, SumCancel
<1>5. U \in Bad
  <2>1. \A y \in U : m[y] \in U
    BY <1>1, <1>3
  <2> QED
    BY <1>1, <1>4, <2>1
<1> QED
  BY <1>1, <1>2, <1>5

\* Elements of value 0 do not count.
LEMMA SumNothing ==
  ASSUME NEW f, NEW S, IsFiniteSet(S), \A x \in S : f[x] \in Int,
         NEW T \in SUBSET S, \A x \in S \ T : f[x] = 0
  PROVE  SumOver(f, S) = SumOver(f, T)
<1> DEFINE Bad == {U \in SUBSET S : T \subseteq U /\ SumOver(f, U) # SumOver(f, T)}
<1> SUFFICES ASSUME Bad # {} PROVE FALSE
  OBVIOUS
<1>1. PICK V \in Bad : \A U \in Bad : ~(U \subseteq V /\ U # V)
  <2>1. Bad \in SUBSET (SUBSET S)
    OBVIOUS
  <2> HIDE DEF Bad
  <2> QED
    BY <2>1, LeastSubset
<1>2. PICK y \in V : y \notin T
  <2>1. T \subseteq V /\ V # T
    BY <1>1
  <2> HIDE DEF Bad
  <2> QED
    BY <2>1
<1>3. V \subseteq S /\ IsFiniteSet(V) /\ y \in S /\ f[y] = 0
  BY <1>1, <1>2, FS_Subset
<1>4. SumOver(f, V) = f[y] + SumOver(f, V \ {y})
  BY <1>2, <1>3, SumRemove
<1>5. SumOver(f, V \ {y}) \in Int
  <2>1. IsFiniteSet(V \ {y}) /\ \A x \in V \ {y} : f[x] \in Int
    BY <1>3, FS_Subset
  <2> QED
    BY <2>1, SumType
<1>6. SumOver(f, V) = SumOver(f, V \ {y})
  BY <1>3, <1>4, <1>5
<1>7. V \ {y} \in Bad
  BY <1>1, <1>2, <1>3, <1>6
<1> QED
  BY <1>1, <1>2, <1>7
-----------------------------------------------------------------------------
(* Sums of sums.                                                           *)

\* The sum of a function over its domain, as the community modules have it.
LEMMA SumFunctionIs ==
  ASSUME NEW f
  PROVE  SumFunction(f) = SumOver(f, DOMAIN f)
  BY DEF SumFunction, SumFunctionOnSet, FoldFunctionOnSet, MapThenFoldSet, SumOver, Recurs, Pick

\* What is true of the empty set and of a set with one more element is true of a finite set:
\* for a function over subsets that is compared with 0.
LEMMA ZeroOnSubsets ==
  ASSUME NEW S, IsFiniteSet(S), NEW F, F[{}] = 0,
         \A T \in SUBSET S : \A x \in T : F[T \ {x}] = 0 => F[T] = 0
  PROVE  F[S] = 0
<1> DEFINE Bad == {U \in SUBSET S : F[U] # 0}
<1> SUFFICES ASSUME Bad # {} PROVE FALSE
  OBVIOUS
<1>1. PICK T \in Bad : \A U \in Bad : ~(U \subseteq T /\ U # T)
  <2>1. Bad \in SUBSET (SUBSET S)
    OBVIOUS
  <2> HIDE DEF Bad
  <2> QED
    BY <2>1, LeastSubset
<1>2. PICK x \in T : TRUE
  BY <1>1
<1>3. T \ {x} \in SUBSET S /\ T \ {x} \subseteq T /\ T \ {x} # T
  BY <1>1, <1>2
<1>4. F[T \ {x}] = 0
  BY <1>1, <1>3
<1> QED
  BY <1>1, <1>2, <1>4

\* A sum of two functions, term by term.
LEMMA SumPlus ==
  ASSUME NEW f, NEW g, NEW h, NEW S, IsFiniteSet(S),
         \A x \in S : f[x] \in Int /\ g[x] \in Int /\ h[x] = f[x] + g[x]
  PROVE  SumOver(h, S) = SumOver(f, S) + SumOver(g, S)
<1> DEFINE F == [T \in SUBSET S |-> SumOver(h, T) - (SumOver(f, T) + SumOver(g, T))]
<1>1. F[{}] = 0
  BY SumEmpty
<1>2. ASSUME NEW T \in SUBSET S PROVE /\ SumOver(h, T) \in Int /\ SumOver(f, T) \in Int
                                      /\ SumOver(g, T) \in Int /\ IsFiniteSet(T)
  <2>1. IsFiniteSet(T) /\ \A x \in T : f[x] \in Int /\ g[x] \in Int /\ h[x] \in Int
    BY FS_Subset
  <2> QED
    BY <2>1, SumType
<1>3. ASSUME NEW T \in SUBSET S, NEW x \in T, F[T \ {x}] = 0 PROVE F[T] = 0
  <2>1. /\ SumOver(h, T) = h[x] + SumOver(h, T \ {x})
        /\ SumOver(f, T) = f[x] + SumOver(f, T \ {x})
        /\ SumOver(g, T) = g[x] + SumOver(g, T \ {x})
    <3>1. IsFiniteSet(T) /\ \A y \in T : f[y] \in Int /\ g[y] \in Int /\ h[y] \in Int
      BY <1>2
    <3> QED
      BY <3>1, SumRemove
  <2>2. T \ {x} \in SUBSET S /\ x \in S
    OBVIOUS
  <2>3. /\ SumOver(h, T \ {x}) \in Int /\ SumOver(f, T \ {x}) \in Int
        /\ SumOver(g, T \ {x}) \in Int
    BY <1>2, <2>2
  <2>4. SumOver(h, T \ {x}) - (SumOver(f, T \ {x}) + SumOver(g, T \ {x})) = 0
    BY <1>3, <2>2
  <2>5. SumOver(h, T) - (SumOver(f, T) + SumOver(g, T)) = 0
    BY <2>1, <2>2, <2>3, <2>4
  <2> QED
    BY <2>5
<1>4. F[S] = 0
  <2> HIDE DEF F
  <2> QED
    BY <1>1, <1>3, ZeroOnSubsets
<1> QED
  BY <1>2, <1>4

\* The negative of a sum.
LEMMA SumNegative ==
  ASSUME NEW f, NEW g, NEW S, IsFiniteSet(S), \A x \in S : f[x] \in Int /\ g[x] = -f[x]
  PROVE  SumOver(g, S) = -SumOver(f, S)
<1> DEFINE z == [x \in S |-> 0]
<1>1. SumOver(z, S) = SumOver(f, S) + SumOver(g, S)
  <2>1. \A x \in S : f[x] \in Int /\ g[x] \in Int /\ z[x] = f[x] + g[x]
    OBVIOUS
  <2> HIDE DEF z
  <2> QED
    BY <2>1, SumPlus
<1>2. SumOver(z, S) = SumOver(z, {})
  <2>1. \A x \in S : z[x] \in Int /\ z[x] = 0
    OBVIOUS
  <2> HIDE DEF z
  <2> QED
    BY <2>1, SumNothing
<1>3. SumOver(f, S) \in Int /\ SumOver(g, S) \in Int
  BY SumType
<1> HIDE DEF z
<1> QED
  BY <1>1, <1>2, <1>3, SumEmpty

\* Sums over two sets that have nothing in common.
LEMMA SumUnion ==
  ASSUME NEW f, NEW S, NEW R, IsFiniteSet(S), IsFiniteSet(R), S \cap R = {},
         \A x \in S \cup R : f[x] \in Int
  PROVE  SumOver(f, S \cup R) = SumOver(f, S) + SumOver(f, R)
<1> DEFINE F == [T \in SUBSET R |-> SumOver(f, S \cup T) - (SumOver(f, S) + SumOver(f, T))]
<1>1. F[{}] = 0
  <2>1. S \cup {} = S /\ SumOver(f, S) \in Int /\ SumOver(f, {}) = 0
    BY SumEmpty, SumType
  <2> QED
    BY <2>1
<1>2. ASSUME NEW T \in SUBSET R
      PROVE  /\ SumOver(f, S \cup T) \in Int /\ SumOver(f, T) \in Int /\ SumOver(f, S) \in Int
             /\ IsFiniteSet(T) /\ IsFiniteSet(S \cup T)
  <2>1. IsFiniteSet(T) /\ IsFiniteSet(S \cup T)
    <3>1. IsFiniteSet(T)
      BY FS_Subset
    <3> QED
      BY <3>1, FS_Union
  <2>2. /\ \A x \in T : f[x] \in Int
        /\ \A x \in S \cup T : f[x] \in Int
        /\ \A x \in S : f[x] \in Int
    OBVIOUS
  <2> QED
    BY <2>1, <2>2, SumType
<1>3. ASSUME NEW T \in SUBSET R, NEW x \in T, F[T \ {x}] = 0 PROVE F[T] = 0
  <2>1. x \in S \cup T /\ (S \cup T) \ {x} = S \cup (T \ {x}) /\ T \ {x} \in SUBSET R
        /\ f[x] \in Int
    OBVIOUS
  <2>2. SumOver(f, T) = f[x] + SumOver(f, T \ {x})
    <3>1. IsFiniteSet(T) /\ \A y \in T : f[y] \in Int
      BY <1>2
    <3> QED
      BY <3>1, SumRemove
  <2>3. SumOver(f, S \cup T) = f[x] + SumOver(f, S \cup (T \ {x}))
    <3>1. SumOver(f, S \cup T) = f[x] + SumOver(f, (S \cup T) \ {x})
      <4>1. IsFiniteSet(S \cup T) /\ \A y \in S \cup T : f[y] \in Int
        BY <1>2
      <4> QED
        BY <4>1, <2>1, SumRemove
    <3> QED
      BY <3>1, <2>1
  <2>4. /\ SumOver(f, S \cup (T \ {x})) \in Int /\ SumOver(f, T \ {x}) \in Int
        /\ SumOver(f, S) \in Int
    BY <1>2, <2>1
  <2>5. SumOver(f, S \cup (T \ {x})) - (SumOver(f, S) + SumOver(f, T \ {x})) = 0
    BY <1>3, <2>1
  <2>6. SumOver(f, S \cup T) - (SumOver(f, S) + SumOver(f, T)) = 0
    BY <2>1, <2>2, <2>3, <2>4, <2>5
  <2> QED
    BY <2>6
<1>4. F[R] = 0
  <2> HIDE DEF F
  <2> QED
    BY <1>1, <1>3, ZeroOnSubsets
<1>5. /\ SumOver(f, S \cup R) \in Int /\ SumOver(f, R) \in Int /\ SumOver(f, S) \in Int
      /\ SumOver(f, S \cup R) - (SumOver(f, S) + SumOver(f, R)) = 0
  BY <1>2, <1>4
<1> HIDE DEF F
<1> QED
  BY <1>5

\* The values of a function on a set, and where it has a value.
Values(m, S) == {m[x] : x \in S}
Group(m, S, t) == {x \in S : m[x] = t}
OneOrigin(m, S) == \A x, y \in S : m[x] = m[y] => x = y
Along(f, m, h, S) == \A x \in S : f[m[x]] \in Int /\ h[x] = f[m[x]]

\* A sum over an image, of which each element has one origin.
LEMMA SumImage ==
  ASSUME NEW f, NEW S, IsFiniteSet(S), NEW m, NEW h, OneOrigin(m, S), Along(f, m, h, S)
  PROVE  IsFiniteSet(Values(m, S)) /\ SumOver(f, Values(m, S)) = SumOver(h, S)
<1> USE DEF Values, OneOrigin, Along
<1> DEFINE Im(T) == {m[x] : x \in T}
           F == [T \in SUBSET S |-> SumOver(f, Im(T)) - SumOver(h, T)]
<1>1. F[{}] = 0
  <2>1. Im({}) = {}
    OBVIOUS
  <2> QED
    BY <2>1, SumEmpty
<1>2. ASSUME NEW T \in SUBSET S
      PROVE  /\ IsFiniteSet(T) /\ IsFiniteSet(Im(T))
             /\ SumOver(f, Im(T)) \in Int /\ SumOver(h, T) \in Int
  <2>1. IsFiniteSet(T)
    BY FS_Subset
  <2>2. IsFiniteSet(Im(T))
    <3> DEFINE mm == [x \in T |-> m[x]]
    <3>1. mm \in Surjection(T, Im(T))
      BY DEF Surjection
    <3> QED
      BY <2>1, <3>1, FS_Surjection
  <2>3. \A y \in Im(T) : f[y] \in Int
    OBVIOUS
  <2>4. \A x \in T : h[x] \in Int
    OBVIOUS
  <2> HIDE DEF Im
  <2> QED
    BY <2>1, <2>2, <2>3, <2>4, SumType
<1>3. ASSUME NEW T \in SUBSET S, NEW x \in T, F[T \ {x}] = 0 PROVE F[T] = 0
  <2>1. m[x] \in Im(T) /\ Im(T) \ {m[x]} = Im(T \ {x})
    OBVIOUS
  <2>2. /\ \A y \in Im(T) : f[y] \in Int
        /\ \A y \in T : h[y] \in Int
        /\ h[x] = f[m[x]] /\ h[x] \in Int /\ T \ {x} \in SUBSET S
    OBVIOUS
  <2> HIDE DEF Im
  <2>3. SumOver(f, Im(T)) = f[m[x]] + SumOver(f, Im(T \ {x}))
    <3> DEFINE y == m[x]
               V == Im(T)
    <3>1. IsFiniteSet(V) /\ y \in V /\ \A z \in V : f[z] \in Int
      BY <1>2, <2>1, <2>2
    <3>2. V \ {y} = Im(T \ {x})
      BY <2>1
    <3> HIDE DEF y, V
    <3>3. SumOver(f, V) = f[y] + SumOver(f, V \ {y})
      BY <3>1, SumRemove
    <3> QED
      BY <3>2, <3>3 DEF y, V
  <2>4. SumOver(h, T) = h[x] + SumOver(h, T \ {x})
    BY <1>2, <2>2, SumRemove
  <2>5. SumOver(f, Im(T \ {x})) \in Int /\ SumOver(h, T \ {x}) \in Int
    BY <1>2, <2>2
  <2>6. SumOver(f, Im(T \ {x})) - SumOver(h, T \ {x}) = 0
    BY <1>3, <2>2
  <2>7. SumOver(f, Im(T)) - SumOver(h, T) = 0
    BY <2>2, <2>3, <2>4, <2>5, <2>6
  <2> QED
    BY <2>7
<1>4. F[S] = 0
  <2> HIDE DEF F
  <2> QED
    BY <1>1, <1>3, ZeroOnSubsets
<1>5. /\ IsFiniteSet(Im(S)) /\ SumOver(f, Im(S)) \in Int /\ SumOver(h, S) \in Int
      /\ SumOver(f, Im(S)) - SumOver(h, S) = 0
  BY <1>2, <1>4
<1> QED
  BY <1>5

\* A sum by groups: each element belongs to one group.
LEMMA SumGroups ==
  ASSUME NEW f, NEW S, IsFiniteSet(S), \A x \in S : f[x] \in Int,
         NEW m, NEW R, IsFiniteSet(R), \A x \in S : m[x] \in R,
         NEW h, \A t \in R : h[t] = SumOver(f, Group(m, S, t))
  PROVE  SumOver(h, R) = SumOver(f, S)
<1> USE DEF Group
<1> DEFINE In(T) == {x \in S : m[x] \in T}
           F == [T \in SUBSET R |-> SumOver(h, T) - SumOver(f, In(T))]
<1>0. \A t \in R : h[t] \in Int
  <2> SUFFICES ASSUME NEW t \in R PROVE SumOver(f, {x \in S : m[x] = t}) \in Int
    OBVIOUS
  <2>1. /\ IsFiniteSet({x \in S : m[x] = t})
        /\ \A x \in {y \in S : m[y] = t} : f[x] \in Int
    BY FS_Subset
  <2> QED
    BY <2>1, SumType
<1>1. F[{}] = 0
  <2>1. In({}) = {}
    OBVIOUS
  <2> QED
    BY <2>1, SumEmpty
<1>2. ASSUME NEW T \in SUBSET R
      PROVE  /\ IsFiniteSet(T) /\ IsFiniteSet(In(T))
             /\ SumOver(h, T) \in Int /\ SumOver(f, In(T)) \in Int
  <2>1. IsFiniteSet(T) /\ IsFiniteSet(In(T))
    BY FS_Subset
  <2>2. (\A x \in In(T) : f[x] \in Int) /\ (\A t \in T : h[t] \in Int)
    BY <1>0
  <2> HIDE DEF In
  <2> QED
    BY <2>1, <2>2, SumType
<1>3. ASSUME NEW T \in SUBSET R, NEW t \in T, F[T \ {t}] = 0 PROVE F[T] = 0
  <2> DEFINE G == {x \in S : m[x] = t}
  <2>1. /\ In(T) = In(T \ {t}) \cup G /\ In(T \ {t}) \cap G = {} /\ T \ {t} \in SUBSET R
        /\ \A x \in In(T \ {t}) \cup G : f[x] \in Int
    OBVIOUS
  <2>2. h[t] = SumOver(f, G) /\ h[t] \in Int
    BY <1>0
  <2>3. IsFiniteSet(G)
    BY FS_Subset
  <2> HIDE DEF In, G
  <2>4. SumOver(f, In(T)) = SumOver(f, In(T \ {t})) + SumOver(f, G)
    <3> DEFINE A == In(T \ {t})
    <3>1. IsFiniteSet(A) /\ In(T) = A \cup G /\ A \cap G = {} /\ \A x \in A \cup G : f[x] \in Int
      BY <1>2, <2>1
    <3> HIDE DEF A
    <3>2. SumOver(f, A \cup G) = SumOver(f, A) + SumOver(f, G)
      BY <2>3, <3>1, SumUnion
    <3> QED
      BY <3>1, <3>2 DEF A
  <2>5. SumOver(h, T) = h[t] + SumOver(h, T \ {t})
    BY <1>0, <1>2, SumRemove
  <2>6. SumOver(f, In(T \ {t})) \in Int /\ SumOver(h, T \ {t}) \in Int
    BY <1>2, <2>1
  <2>7. SumOver(h, T \ {t}) - SumOver(f, In(T \ {t})) = 0
    BY <1>3, <2>1
  <2>8. SumOver(h, T) - SumOver(f, In(T)) = 0
    BY <2>2, <2>4, <2>5, <2>6, <2>7
  <2> QED
    BY <2>8
<1>4. F[R] = 0
  <2> HIDE DEF F
  <2> QED
    BY <1>1, <1>3, ZeroOnSubsets
<1>5. In(R) = S
  OBVIOUS
<1>6. /\ SumOver(h, R) \in Int /\ SumOver(f, In(R)) \in Int
      /\ SumOver(h, R) - SumOver(f, In(R)) = 0
  BY <1>2, <1>4
<1> HIDE DEF In, F
<1> QED
  BY <1>5, <1>6

\* The same amount, as often as there are elements.
LEMMA SumConstant ==
  ASSUME NEW S, IsFiniteSet(S), NEW n \in Int, NEW f, \A x \in S : f[x] = n
  PROVE  SumOver(f, S) = Cardinality(S) * n
<1> DEFINE F == [T \in SUBSET S |-> SumOver(f, T) - Cardinality(T) * n]
<1>1. F[{}] = 0
  BY SumEmpty, FS_EmptySet
<1>2. ASSUME NEW T \in SUBSET S, NEW x \in T, F[T \ {x}] = 0 PROVE F[T] = 0
  <2>1. IsFiniteSet(T) /\ T \ {x} \in SUBSET S /\ \A y \in T : f[y] \in Int
    BY FS_Subset
  <2>2. SumOver(f, T) = n + SumOver(f, T \ {x})
    BY <2>1, SumRemove
  <2>3. IsFiniteSet(T \ {x}) /\ Cardinality(T \ {x}) = Cardinality(T) - 1
    BY <2>1, FS_RemoveElement
  <2>4. Cardinality(T) \in Nat /\ SumOver(f, T \ {x}) \in Int
    <3>1. \A y \in T \ {x} : f[y] \in Int
      BY <2>1
    <3> QED
      BY <2>1, <2>3, <3>1, FS_CardinalityType, SumType
  <2>5. SumOver(f, T \ {x}) - Cardinality(T \ {x}) * n = 0
    BY <1>2, <2>1
  <2> DEFINE c == Cardinality(T)
             s == SumOver(f, T \ {x})
  <2>6. s - (c - 1) * n = 0 /\ c \in Nat /\ s \in Int
    BY <2>3, <2>4, <2>5
  <2>7. SumOver(f, T) - Cardinality(T) * n = n + s - c * n
    <3>1. c * n \in Int
      BY <2>6
    <3> QED
      BY <2>2, <2>6, <3>1
  <2> HIDE DEF c, s
  <2>8. (c - 1) * n = c * n - n
    BY <2>6
  <2>9. n + s - c * n = 0
    <3>1. c * n \in Int
      BY <2>6
    <3> QED
      BY <2>6, <2>8, <3>1
  <2> QED
    BY <2>7, <2>9
<1>3. F[S] = 0
  <2> HIDE DEF F
  <2> QED
    BY <1>1, <1>2, ZeroOnSubsets
<1>4. SumOver(f, S) \in Int /\ Cardinality(S) \in Nat
  BY SumType, FS_CardinalityType
<1>5. Cardinality(S) * n \in Int /\ SumOver(f, S) - Cardinality(S) * n = 0
  BY <1>3, <1>4
<1> QED
  BY <1>4, <1>5

\* The values of a function on a finite set are a finite set.
LEMMA FiniteImage ==
  ASSUME NEW S, IsFiniteSet(S), NEW m
  PROVE  IsFiniteSet(Values(m, S))
<1> USE DEF Values
<1> DEFINE T == {m[x] : x \in S}
           g == [x \in S |-> m[x]]
<1>1. g \in [S -> T] /\ \A t \in T : \E x \in S : g[x] = t OBVIOUS
<1>2. g \in Surjection(S, T) BY <1>1 DEF Surjection
<1> HIDE DEF T, g
<1> QED BY <1>2, FS_Surjection DEF T

=============================================================================
