----------------------------- MODULE FiniteSums -----------------------------
(***************************************************************************)
(* Sums over finite sets: what SumFunctionOnSet returns, how it changes     *)
(* with the set and with the function.  Both are proved by taking a least   *)
(* counterexample among the subsets of a finite set.                        *)
(***************************************************************************)
EXTENDS Integers, Functions, FiniteSetTheorems, TLAPS

\* A set of subsets of a finite set has a least element.
LEMMA LeastSubset ==
    ASSUME NEW S, IsFiniteSet(S), NEW C \in SUBSET (SUBSET S), C # {}
    PROVE  \E T \in C : \A U \in SUBSET T : U # T => U \notin C
<1>1. FiniteSubsetsOf(S) = SUBSET S
    BY FS_FiniteSubsetsOfFinite
<1>2. IsWellFoundedOn(StrictSubsetOrdering(S), SUBSET S)
    BY <1>1, FS_StrictSubsetOrderingWellFounded
<1>3. PICK T \in C : \A U \in C : <<U, T>> \notin StrictSubsetOrdering(S)
    BY <1>2, WFMin
<1>4. \A U \in SUBSET T : U # T => U \notin C
    BY <1>3 DEF StrictSubsetOrdering
<1>5. QED
    BY <1>3, <1>4

First(s) == CHOOSE x \in s : TRUE
IsSum(g, f, S) ==
    g = [s \in SUBSET S |-> IF s = {} THEN 0 ELSE f[First(s)] + g[s \ {First(s)}]]

\* SumFunctionOnSet takes one element out of the set after the other.
LEMMA SumIsChoice ==
    ASSUME NEW f, NEW S
    PROVE  SumFunctionOnSet(f, S) = (CHOOSE g : IsSum(g, f, S))[S]
BY DEF SumFunctionOnSet, FoldFunctionOnSet, MapThenFoldSet, IsSum, First

\* The element taken out is one of the set.
LEMMA FirstIn == \A s : s # {} => First(s) \in s
BY DEF First

\* Two functions that sum f agree wherever both are defined.
LEMMA SumsAgree ==
    ASSUME NEW f, NEW A, NEW B, NEW g, NEW h, IsSum(g, f, A), IsSum(h, f, B),
           NEW W, IsFiniteSet(W), W \subseteq A, W \subseteq B
    PROVE  g[W] = h[W]
<1> DEFINE C == {s \in SUBSET W : g[s] # h[s]}
<1> SUFFICES ASSUME C # {} PROVE FALSE
    OBVIOUS
<1>0. C \in SUBSET (SUBSET W)
    OBVIOUS
<1> HIDE DEF C
<1>1. PICK T \in C : \A U \in SUBSET T : U # T => U \notin C
    BY <1>0, LeastSubset
<1> USE DEF C
<1>2. /\ g[T] = IF T = {} THEN 0 ELSE f[First(T)] + g[T \ {First(T)}]
      /\ h[T] = IF T = {} THEN 0 ELSE f[First(T)] + h[T \ {First(T)}]
    BY DEF IsSum
<1>3. T # {} => g[T \ {First(T)}] = h[T \ {First(T)}]
    BY <1>1, FirstIn
<1>4. QED
    BY <1>2, <1>3

\* For a finite set there is a function that sums f.
LEMMA SumExists == ASSUME NEW f, NEW S, IsFiniteSet(S) PROVE \E g : IsSum(g, f, S)
<1> DEFINE H(U) == (CHOOSE g : IsSum(g, f, U))[U]
           C == {T \in SUBSET S : ~\E g : IsSum(g, f, T)}
<1> SUFFICES ASSUME C # {} PROVE FALSE
    OBVIOUS
<1>0. C \in SUBSET (SUBSET S)
    OBVIOUS
<1> HIDE DEF C
<1>1. PICK T \in C : \A U \in SUBSET T : U # T => U \notin C
    BY <1>0, LeastSubset
<1> USE DEF C
<1> DEFINE G == [s \in SUBSET T |-> IF s = {} THEN 0 ELSE f[First(s)] + H(s \ {First(s)})]
<1>2. ASSUME NEW U \in SUBSET T, U # T PROVE G[U] = H(U)
    <2> DEFINE h == CHOOSE g : IsSum(g, f, U)
    <2>1. IsSum(h, f, U)
        BY <1>1, <1>2
    <2>2. CASE U = {}
        BY <2>1, <2>2 DEF IsSum
    <2>3. CASE U # {}
        <3> DEFINE W == U \ {First(U)}
                   k == CHOOSE g : IsSum(g, f, W)
        <3>1. W \subseteq U /\ W # U /\ W \in SUBSET T /\ W # T
            BY <2>3, FirstIn
        <3>2. IsSum(k, f, W)
            BY <1>1, <3>1
        <3>3. IsFiniteSet(W)
            BY <3>1, FS_Subset
        <3> HIDE DEF k, W, h
        <3>4. h[W] = k[W]
            BY <2>1, <3>1, <3>2, <3>3, SumsAgree
        <3>5. h[U] = f[First(U)] + h[W]
            BY <2>1, <2>3 DEF IsSum, W
        <3>6. G[U] = f[First(U)] + k[W]
            BY <2>3 DEF k, W
        <3>7. QED
            BY <3>4, <3>5, <3>6 DEF h
    <2>4. QED
        BY <2>2, <2>3
<1>3. \A s \in SUBSET T : s # {} => G[s \ {First(s)}] = H(s \ {First(s)})
    BY <1>2, FirstIn
<1>4. IsSum(G, f, T)
    <2>1. \A s \in SUBSET T : s # {} => s \ {First(s)} \in SUBSET T
        OBVIOUS
    <2> HIDE DEF H
    <2>2. ASSUME NEW s \in SUBSET T
          PROVE (IF s = {} THEN 0 ELSE f[First(s)] + H(s \ {First(s)}))
                  = (IF s = {} THEN 0 ELSE f[First(s)] + G[s \ {First(s)}])
        BY <1>3
    <2>3. G = [s \in SUBSET T |-> IF s = {} THEN 0 ELSE f[First(s)] + G[s \ {First(s)}]]
        BY <2>2
    <2>4. QED
        BY <2>3 DEF IsSum
<1>5. QED
    BY <1>1, <1>4

-----------------------------------------------------------------------------
(* What a sum is.                                                          *)

\* The sum over the empty set is zero.
LEMMA SumEmpty == ASSUME NEW f PROVE SumFunctionOnSet(f, {}) = 0
<1>1. PICK g : IsSum(g, f, {})
    BY SumExists, FS_EmptySet
<1> DEFINE h == CHOOSE k : IsSum(k, f, {})
<1>2. IsSum(h, f, {})
    BY <1>1
<1>3. h[{}] = 0
    BY <1>2 DEF IsSum
<1>4. QED
    BY <1>3, SumIsChoice

\* The sum over another set is the value of its first element and the sum of the rest.
LEMMA SumFirst ==
    ASSUME NEW f, NEW S, IsFiniteSet(S), S # {}
    PROVE  SumFunctionOnSet(f, S) = f[First(S)] + SumFunctionOnSet(f, S \ {First(S)})
<1> DEFINE W == S \ {First(S)}
           g == CHOOSE k : IsSum(k, f, S)
           h == CHOOSE k : IsSum(k, f, W)
<1>1. IsFiniteSet(W)
    BY FS_Subset
<1>2. IsSum(g, f, S) /\ IsSum(h, f, W)
    BY <1>1, SumExists
<1>3. SumFunctionOnSet(f, S) = g[S] /\ SumFunctionOnSet(f, W) = h[W]
    BY SumIsChoice
<1> HIDE DEF W, g, h
<1>4. g[W] = h[W]
    BY <1>1, <1>2, SumsAgree DEF W
<1>5. g[S] = f[First(S)] + g[W]
    BY <1>2 DEF IsSum, W
<1>6. QED
    BY <1>3, <1>4, <1>5 DEF W

\* Integers add up to an integer.
LEMMA SumInt ==
    ASSUME NEW f, NEW S, IsFiniteSet(S), \A x \in S : f[x] \in Int
    PROVE  SumFunctionOnSet(f, S) \in Int
<1> DEFINE C == {T \in SUBSET S : SumFunctionOnSet(f, T) \notin Int}
<1> SUFFICES ASSUME C # {} PROVE FALSE
    OBVIOUS
<1>0. C \in SUBSET (SUBSET S)
    OBVIOUS
<1> HIDE DEF C
<1>1. PICK T \in C : \A U \in SUBSET T : U # T => U \notin C
    BY <1>0, LeastSubset
<1>2. IsFiniteSet(T) /\ T \subseteq S
    BY <1>0, FS_Subset
<1>3. T # {}
    BY SumEmpty DEF C
<1>4. First(T) \in T
    BY <1>3, FirstIn
<1>5. SumFunctionOnSet(f, T) = f[First(T)] + SumFunctionOnSet(f, T \ {First(T)})
    BY <1>2, <1>3, SumFirst
<1>6. SumFunctionOnSet(f, T \ {First(T)}) \in Int
    BY <1>1, <1>2, <1>4 DEF C
<1>7. f[First(T)] \in Int
    BY <1>2, <1>4
<1>8. QED
    BY <1>5, <1>6, <1>7 DEF C

\* Any element may be taken out first: addition commutes.
LEMMA SumRemove ==
    ASSUME NEW f, NEW S, IsFiniteSet(S), \A x \in S : f[x] \in Int, NEW y \in S
    PROVE  SumFunctionOnSet(f, S) = f[y] + SumFunctionOnSet(f, S \ {y})
<1> DEFINE Sum(T) == SumFunctionOnSet(f, T)
           C == {T \in SUBSET S : \E x \in T : Sum(T) # f[x] + Sum(T \ {x})}
<1> SUFFICES ASSUME C # {} PROVE FALSE
    OBVIOUS
<1>0. C \in SUBSET (SUBSET S)
    OBVIOUS
<1> HIDE DEF C
<1>1. PICK T \in C : \A U \in SUBSET T : U # T => U \notin C
    BY <1>0, LeastSubset
<1>2. PICK x \in T : Sum(T) # f[x] + Sum(T \ {x})
    BY <1>1 DEF C
<1> DEFINE z == First(T)
<1>3. IsFiniteSet(T) /\ T \subseteq S
    BY <1>0, FS_Subset
<1>4. z \in T /\ Sum(T) = f[z] + Sum(T \ {z})
    BY <1>2, <1>3, FirstIn, SumFirst
<1>5. x # z
    BY <1>2, <1>4
<1> HIDE DEF Sum, z
<1>6. Sum(T \ {z}) = f[x] + Sum((T \ {z}) \ {x})
    <2>1. T \ {z} \notin C /\ T \ {z} \in SUBSET S /\ x \in T \ {z}
        BY <1>1, <1>3, <1>4, <1>5
    <2>2. QED
        BY <2>1 DEF C
<1>7. Sum(T \ {x}) = f[z] + Sum((T \ {x}) \ {z})
    <2>1. T \ {x} \notin C /\ T \ {x} \in SUBSET S /\ z \in T \ {x}
        BY <1>1, <1>3, <1>4, <1>5
    <2>2. QED
        BY <2>1 DEF C
<1>8. Sum((T \ {z}) \ {x}) = Sum((T \ {x}) \ {z})
    <2>1. (T \ {z}) \ {x} = (T \ {x}) \ {z}
        OBVIOUS
    <2>2. QED
        BY <2>1, Zenon
<1>9. f[x] \in Int /\ f[z] \in Int /\ Sum((T \ {x}) \ {z}) \in Int
    <2>1. IsFiniteSet((T \ {x}) \ {z}) /\ (T \ {x}) \ {z} \subseteq S
        BY <1>3, FS_Subset
    <2>2. Sum((T \ {x}) \ {z}) \in Int
        BY <2>1, SumInt DEF Sum
    <2>3. QED
        BY <2>2, <1>3, <1>4
<1>10. QED
    BY <1>2, <1>4, <1>6, <1>7, <1>8, <1>9

\* A set of two disjoint parts has the sum of the two.
LEMMA SumSplit ==
    ASSUME NEW f, NEW S, IsFiniteSet(S), \A x \in S : f[x] \in Int, NEW P \in SUBSET S
    PROVE  SumFunctionOnSet(f, S) = SumFunctionOnSet(f, P) + SumFunctionOnSet(f, S \ P)
<1> DEFINE Sum(T) == SumFunctionOnSet(f, T)
           C == {Q \in SUBSET P : Sum(S) # Sum(Q) + Sum(S \ Q)}
<1> SUFFICES ASSUME C # {} PROVE FALSE
    OBVIOUS
<1>0. C \in SUBSET (SUBSET P) /\ IsFiniteSet(P)
    BY FS_Subset
<1> HIDE DEF C
<1>1. PICK Q \in C : \A U \in SUBSET Q : U # Q => U \notin C
    BY <1>0, LeastSubset
<1>2. /\ IsFiniteSet(Q) /\ IsFiniteSet(S \ Q) /\ Q \subseteq P
      /\ \A x \in Q : f[x] \in Int
    BY <1>0, FS_Subset
<1>3. Sum(S) \in Int /\ Sum(S) # Sum(Q) + Sum(S \ Q)
    BY <1>1, SumInt DEF C
<1>4. Q # {}
    <2>1. SUFFICES ASSUME Q = {} PROVE FALSE
        OBVIOUS
    <2>2. Sum(Q) = 0
        BY <2>1, SumEmpty
    <2>3. S \ Q = S
        BY <2>1
    <2>4. Sum(S \ Q) = Sum(S)
        BY <2>3, Zenon
    <2> HIDE DEF Sum
    <2>5. QED
        BY <1>3, <2>2, <2>4
<1> DEFINE z == First(Q)
           R == Q \ {z}
<1>5. z \in Q
    BY <1>4, FirstIn
<1> HIDE DEF z
<1>6. Sum(Q) = f[z] + Sum(R)
    BY <1>2, <1>5, SumRemove
<1>7. Sum(S \ R) = f[z] + Sum(S \ Q)
    <2>1. z \in S \ R /\ IsFiniteSet(S \ R) /\ S \ R \subseteq S
        BY <1>2, <1>5, FS_Subset
    <2>2. Sum(S \ R) = f[z] + Sum((S \ R) \ {z})
        BY <2>1, SumRemove
    <2>3. (S \ R) \ {z} = S \ Q
        BY <1>5
    <2>4. QED
        BY <2>2, <2>3, Zenon
<1>8. Sum(S) = Sum(R) + Sum(S \ R)
    <2>1. R \in SUBSET Q /\ R # Q /\ R \in SUBSET P
        BY <1>2, <1>5
    <2>2. QED
        BY <1>1, <2>1 DEF C
<1>9. f[z] \in Int /\ Sum(R) \in Int /\ Sum(S \ Q) \in Int
    <2>1. /\ IsFiniteSet(R) /\ \A x \in R : f[x] \in Int
        BY <1>2, FS_Subset
    <2>2. Sum(R) \in Int /\ Sum(S \ Q) \in Int
        BY <2>1, <1>2, SumInt
    <2>3. QED
        BY <1>2, <1>5, <2>2
<1> HIDE DEF Sum, R
<1>10. QED
    BY <1>3, <1>6, <1>7, <1>8, <1>9

\* Functions that are ordered at every element have ordered sums.
LEMMA SumMonotone ==
    ASSUME NEW S, IsFiniteSet(S), NEW f, NEW g,
           \A x \in S : f[x] \in Int /\ g[x] \in Int /\ f[x] <= g[x]
    PROVE  SumFunctionOnSet(f, S) <= SumFunctionOnSet(g, S)
<1> DEFINE Before(T) == SumFunctionOnSet(f, T)
           After(T) == SumFunctionOnSet(g, T)
           C == {T \in SUBSET S : ~(Before(T) <= After(T))}
<1> SUFFICES ASSUME C # {} PROVE FALSE
    OBVIOUS
<1>0. C \in SUBSET (SUBSET S)
    OBVIOUS
<1> HIDE DEF C
<1>1. PICK T \in C : \A U \in SUBSET T : U # T => U \notin C
    BY <1>0, LeastSubset
<1> DEFINE z == First(T)
           R == T \ {z}
<1>2. /\ IsFiniteSet(T) /\ T \subseteq S /\ IsFiniteSet(R)
    BY <1>0, FS_Subset
<1>3. T # {}
    <2>1. SUFFICES ASSUME T = {} PROVE FALSE
        OBVIOUS
    <2>2. Before(T) = 0 /\ After(T) = 0
        BY <2>1, SumEmpty
    <2>3. ~(Before(T) <= After(T))
        BY <1>1 DEF C
    <2> HIDE DEF Before, After
    <2>4. QED
        BY <2>2, <2>3
<1>4. z \in T
    BY <1>3, FirstIn
<1>5. Before(T) = f[z] + Before(R) /\ After(T) = g[z] + After(R)
    BY <1>2, <1>3, SumFirst
<1>6. Before(R) <= After(R)
    <2>1. R \in SUBSET T /\ R # T /\ R \in SUBSET S
        BY <1>2, <1>4
    <2>2. QED
        BY <1>1, <2>1 DEF C
<1>7. Before(R) \in Int /\ After(R) \in Int
    <2>1. \A x \in R : f[x] \in Int /\ g[x] \in Int
        BY <1>2
    <2>2. QED
        BY <1>2, <2>1, SumInt
<1>8. f[z] \in Int /\ g[z] \in Int /\ f[z] <= g[z]
    BY <1>2, <1>4
<1>9. ~(Before(T) <= After(T))
    BY <1>1 DEF C
<1> HIDE DEF Before, After, R, z
<1>10. QED
    BY <1>5, <1>6, <1>7, <1>8, <1>9

-----------------------------------------------------------------------------
(* How a sum changes with the function.                                    *)

\* Functions that agree on the set have the same sum.
LEMMA SumSame ==
    ASSUME NEW S, IsFiniteSet(S), NEW f, NEW g, \A x \in S : f[x] \in Int /\ f[x] = g[x]
    PROVE  SumFunctionOnSet(f, S) = SumFunctionOnSet(g, S)
<1>1. /\ \A x \in S : f[x] \in Int /\ g[x] \in Int /\ f[x] <= g[x]
      /\ \A x \in S : g[x] \in Int /\ f[x] \in Int /\ g[x] <= f[x]
    OBVIOUS
<1>2. /\ SumFunctionOnSet(f, S) <= SumFunctionOnSet(g, S)
      /\ SumFunctionOnSet(g, S) <= SumFunctionOnSet(f, S)
    BY <1>1, SumMonotone
<1>3. SumFunctionOnSet(f, S) \in Int /\ SumFunctionOnSet(g, S) \in Int
    BY <1>1, SumInt
<1>4. QED
    BY <1>2, <1>3

\* A function that is zero on the set has the sum zero.
LEMMA SumZero ==
    ASSUME NEW S, IsFiniteSet(S), NEW f, \A x \in S : f[x] = 0
    PROVE  SumFunctionOnSet(f, S) = 0
<1> DEFINE C == {T \in SUBSET S : SumFunctionOnSet(f, T) # 0}
<1> SUFFICES ASSUME C # {} PROVE FALSE
    OBVIOUS
<1>0. C \in SUBSET (SUBSET S)
    OBVIOUS
<1> HIDE DEF C
<1>1. PICK T \in C : \A U \in SUBSET T : U # T => U \notin C
    BY <1>0, LeastSubset
<1>2. IsFiniteSet(T) /\ T \subseteq S
    BY <1>0, FS_Subset
<1>3. T # {}
    BY <1>1, SumEmpty DEF C
<1>4. First(T) \in T
    BY <1>3, FirstIn
<1>5. SumFunctionOnSet(f, T) = f[First(T)] + SumFunctionOnSet(f, T \ {First(T)})
    BY <1>2, <1>3, SumFirst
<1>6. SumFunctionOnSet(f, T \ {First(T)}) = 0
    <2>1. T \ {First(T)} \in SUBSET T /\ T \ {First(T)} # T /\ T \ {First(T)} \in SUBSET S
        BY <1>2, <1>4
    <2>2. QED
        BY <1>1, <2>1 DEF C
<1>7. f[First(T)] = 0
    BY <1>2, <1>4
<1>8. SumFunctionOnSet(f, T) # 0
    BY <1>1 DEF C
<1>9. QED
    BY <1>5, <1>6, <1>7, <1>8

\* Natural numbers add up to a natural number.
LEMMA SumNat ==
    ASSUME NEW f, NEW S, IsFiniteSet(S), \A x \in S : f[x] \in Nat
    PROVE  SumFunctionOnSet(f, S) \in Nat
<1> DEFINE z == [x \in S |-> 0]
<1>1. \A x \in S : z[x] = 0 /\ z[x] \in Int /\ f[x] \in Int /\ z[x] <= f[x]
    OBVIOUS
<1> HIDE DEF z
<1>2. SumFunctionOnSet(z, S) = 0
    BY <1>1, SumZero
<1>3. SumFunctionOnSet(z, S) <= SumFunctionOnSet(f, S)
    BY <1>1, SumMonotone
<1>4. SumFunctionOnSet(f, S) \in Int
    BY <1>1, SumInt
<1>5. QED
    BY <1>2, <1>3, <1>4

\* No natural number is larger than a sum it is part of.
LEMMA SumCovers ==
    ASSUME NEW f, NEW S, IsFiniteSet(S), \A x \in S : f[x] \in Nat, NEW y \in S
    PROVE  f[y] <= SumFunctionOnSet(f, S)
<1>1. IsFiniteSet(S \ {y}) /\ \A x \in S \ {y} : f[x] \in Nat
    BY FS_Subset
<1>2. SumFunctionOnSet(f, S \ {y}) \in Nat
    BY <1>1, SumNat
<1>3. SumFunctionOnSet(f, S) = f[y] + SumFunctionOnSet(f, S \ {y})
    BY SumRemove
<1>4. QED
    BY <1>2, <1>3

\* A part whose elements change changes the sum by what the part changes.
LEMMA SumChange ==
    ASSUME NEW S, IsFiniteSet(S), NEW P \in SUBSET S, NEW f, NEW g,
           \A x \in S : f[x] \in Int /\ g[x] \in Int,
           \A x \in S \ P : f[x] = g[x]
    PROVE  SumFunctionOnSet(g, S) = SumFunctionOnSet(f, S)
             + SumFunctionOnSet(g, P) - SumFunctionOnSet(f, P)
<1>1. IsFiniteSet(P) /\ IsFiniteSet(S \ P)
    BY FS_Subset
<1>2. /\ SumFunctionOnSet(f, S) = SumFunctionOnSet(f, P) + SumFunctionOnSet(f, S \ P)
      /\ SumFunctionOnSet(g, S) = SumFunctionOnSet(g, P) + SumFunctionOnSet(g, S \ P)
    BY SumSplit
<1>3. SumFunctionOnSet(f, S \ P) = SumFunctionOnSet(g, S \ P)
    BY <1>1, SumSame
<1>4. \A x \in P : f[x] \in Int /\ g[x] \in Int
    OBVIOUS
<1>5. /\ SumFunctionOnSet(f, P) \in Int /\ SumFunctionOnSet(g, P) \in Int
      /\ SumFunctionOnSet(f, S \ P) \in Int
    BY <1>1, <1>4, SumInt
<1>6. QED
    BY <1>2, <1>3, <1>5

\* The sum over one element is its value.
LEMMA SumOne ==
    ASSUME NEW f, NEW x, f[x] \in Int
    PROVE  SumFunctionOnSet(f, {x}) = f[x]
<1>1. IsFiniteSet({x}) /\ {x} \ {x} = {}
    BY FS_Singleton
<1>2. SumFunctionOnSet(f, {x}) = f[x] + SumFunctionOnSet(f, {x} \ {x})
    BY <1>1, SumRemove
<1>3. SumFunctionOnSet(f, {x} \ {x}) = 0
    BY <1>1, SumEmpty
<1>4. QED
    BY <1>2, <1>3

\* One element that changes changes the sum by as much.
LEMMA SumChangeOne ==
    ASSUME NEW S, IsFiniteSet(S), NEW y \in S, NEW f, NEW g,
           \A x \in S : f[x] \in Int /\ g[x] \in Int,
           \A x \in S : x # y => f[x] = g[x]
    PROVE  SumFunctionOnSet(g, S) = SumFunctionOnSet(f, S) + g[y] - f[y]
<1>1. {y} \in SUBSET S
    OBVIOUS
<1>2. \A x \in S \ {y} : f[x] = g[x]
    OBVIOUS
<1>3. SumFunctionOnSet(g, S) = SumFunctionOnSet(f, S)
             + SumFunctionOnSet(g, {y}) - SumFunctionOnSet(f, {y})
    BY <1>1, <1>2, SumChange
<1>4. SumFunctionOnSet(g, {y}) = g[y] /\ SumFunctionOnSet(f, {y}) = f[y]
    BY SumOne
<1>5. QED
    BY <1>3, <1>4

\* The sum is linear.
Linear(h, a, f, b, g, S) ==
    \A x \in S : f[x] \in Int /\ g[x] \in Int /\ h[x] = a * f[x] + b * g[x]
LEMMA SumLinear ==
    ASSUME NEW S, IsFiniteSet(S), NEW f, NEW g, NEW h, NEW a \in Int, NEW b \in Int,
           Linear(h, a, f, b, g, S)
    PROVE  SumFunctionOnSet(h, S) = a * SumFunctionOnSet(f, S) + b * SumFunctionOnSet(g, S)
<1> USE DEF Linear
<1> DEFINE F(T) == SumFunctionOnSet(f, T)
           G(T) == SumFunctionOnSet(g, T)
           H(T) == SumFunctionOnSet(h, T)
           C == {T \in SUBSET S : H(T) # a * F(T) + b * G(T)}
<1> SUFFICES ASSUME C # {} PROVE FALSE
    OBVIOUS
<1>0. C \in SUBSET (SUBSET S)
    OBVIOUS
<1> HIDE DEF C
<1>1. PICK T \in C : \A U \in SUBSET T : U # T => U \notin C
    BY <1>0, LeastSubset
<1> DEFINE z == First(T)
           R == T \ {z}
<1>2. /\ IsFiniteSet(T) /\ T \subseteq S /\ IsFiniteSet(R)
    BY <1>0, FS_Subset
<1>3. T # {}
    <2>1. SUFFICES ASSUME T = {} PROVE FALSE
        OBVIOUS
    <2>2. F(T) = 0 /\ G(T) = 0 /\ H(T) = 0
        BY <2>1, SumEmpty
    <2>3. H(T) # a * F(T) + b * G(T)
        BY <1>1 DEF C
    <2> HIDE DEF F, G, H
    <2>4. QED
        BY <2>2, <2>3
<1>4. z \in T
    BY <1>3, FirstIn
<1>5. F(T) = f[z] + F(R) /\ G(T) = g[z] + G(R) /\ H(T) = h[z] + H(R)
    BY <1>2, <1>3, SumFirst
<1>6. H(R) = a * F(R) + b * G(R)
    <2>1. R \in SUBSET T /\ R # T /\ R \in SUBSET S
        BY <1>2, <1>4
    <2>2. QED
        BY <1>1, <2>1 DEF C
<1>7. F(R) \in Int /\ G(R) \in Int
    <2>1. \A x \in R : f[x] \in Int /\ g[x] \in Int
        BY <1>2
    <2>2. QED
        BY <1>2, <2>1, SumInt
<1>8. f[z] \in Int /\ g[z] \in Int /\ h[z] = a * f[z] + b * g[z]
    BY <1>2, <1>4
<1>9. H(T) # a * F(T) + b * G(T)
    BY <1>1 DEF C
<1> HIDE DEF F, G, H, z, R
<1>10. a * (f[z] + F(R)) = a * f[z] + a * F(R) /\ b * (g[z] + G(R)) = b * g[z] + b * G(R)
    BY <1>7, <1>8
<1>11. /\ a * f[z] \in Int /\ b * g[z] \in Int /\ a * F(R) \in Int /\ b * G(R) \in Int
    BY <1>7, <1>8
<1>12. QED
    BY <1>5, <1>6, <1>8, <1>9, <1>10, <1>11

\* A part of the set in which each element counts one counts its elements.
LEMMA SumCount ==
    ASSUME NEW S, IsFiniteSet(S), NEW P \in SUBSET S, NEW f,
           \A x \in S : f[x] = IF x \in P THEN 1 ELSE 0
    PROVE  SumFunctionOnSet(f, S) = Cardinality(P)
<1> DEFINE F(T) == SumFunctionOnSet(f, T)
           C == {T \in SUBSET P : F(T) # Cardinality(T)}
<1>p. IsFiniteSet(P) /\ IsFiniteSet(S \ P)
    BY FS_Subset
<1>c. C = {}
  <2> SUFFICES ASSUME C # {} PROVE FALSE
    OBVIOUS
  <2>0. C \in SUBSET (SUBSET P)
    OBVIOUS
  <2> HIDE DEF C
  <2>1. PICK T \in C : \A U \in SUBSET T : U # T => U \notin C
    BY <1>p, <2>0, LeastSubset
  <2> DEFINE z == First(T)
             R == T \ {z}
  <2>2. /\ IsFiniteSet(T) /\ T \subseteq P /\ T \subseteq S
    BY <1>p, <2>0, FS_Subset
  <2>3. T # {}
    BY <2>1, SumEmpty, FS_EmptySet DEF C
  <2>4. z \in T
    BY <2>3, FirstIn
  <2>5. F(T) = 1 + F(R)
    BY <2>2, <2>3, <2>4, SumFirst
  <2>6. F(R) = Cardinality(R)
    BY <2>1, <2>2, <2>4 DEF C
  <2>7. Cardinality(R) = Cardinality(T) - 1 /\ Cardinality(T) \in Nat
    BY <2>2, <2>4, FS_RemoveElement, FS_CardinalityType
  <2>8. F(T) # Cardinality(T)
    BY <2>1 DEF C
  <2> HIDE DEF F, R, z
  <2>9. QED
    BY <2>5, <2>6, <2>7, <2>8
<1>1. F(P) = Cardinality(P)
    BY <1>c
<1>2. F(S \ P) = 0
    BY <1>p, SumZero
<1>3. F(S) = F(P) + F(S \ P)
    BY SumSplit
<1>4. Cardinality(P) \in Nat
    BY <1>p, FS_CardinalityType
<1> HIDE DEF F
<1>5. F(S) = Cardinality(P)
    BY <1>1, <1>2, <1>3, <1>4
<1>6. QED
    BY <1>5 DEF F

\* Summing by key first gives the same sum.
Grouped(g, K, key, f, S) ==
    /\ \A x \in S : f[x] \in Int /\ key[x] \in K
    /\ \A k \in K : g[k] = SumFunctionOnSet(f, {x \in S : key[x] = k})
LEMMA SumByKey ==
    ASSUME NEW S, IsFiniteSet(S), NEW K, IsFiniteSet(K), NEW f, NEW g, NEW key,
           Grouped(g, K, key, f, S)
    PROVE  SumFunctionOnSet(g, K) = SumFunctionOnSet(f, S)
<1> USE DEF Grouped
<1> DEFINE Of(T) == {x \in S : key[x] \in T}
           G(T) == SumFunctionOnSet(g, T)
           F(A) == SumFunctionOnSet(f, A)
           C == {T \in SUBSET K : G(T) # F(Of(T))}
<1>c. C = {}
  <2> SUFFICES ASSUME C # {} PROVE FALSE
    OBVIOUS
  <2>0. C \in SUBSET (SUBSET K)
    OBVIOUS
  <2> HIDE DEF C
  <2>1. PICK T \in C : \A U \in SUBSET T : U # T => U \notin C
    BY <2>0, LeastSubset
  <2> DEFINE z == First(T)
             R == T \ {z}
  <2>2. IsFiniteSet(T) /\ T \subseteq K
    BY <2>0, FS_Subset
  <2>3. T # {}
    <3>1. SUFFICES ASSUME T = {} PROVE FALSE
      OBVIOUS
    <3>2. Of(T) = {}
      BY <3>1
    <3>3. G(T) = 0 /\ F(Of(T)) = 0
      BY <3>1, <3>2, SumEmpty
    <3> QED
      BY <2>1, <3>3 DEF C
  <2>4. z \in T /\ z \in K
    BY <2>2, <2>3, FirstIn
  <2>5. G(T) = g[z] + G(R)
    BY <2>2, <2>3, SumFirst
  <2>6. G(R) = F(Of(R))
    BY <2>1, <2>2, <2>4 DEF C
  <2>7. g[z] = F({x \in S : key[x] = z})
    BY <2>4
  <2> DEFINE A == Of(T)
             P == {x \in S : key[x] = z}
  <2>8. /\ IsFiniteSet(A) /\ P \in SUBSET A /\ A \ P = Of(R)
        /\ \A x \in A : f[x] \in Int
    <3>1. A \in SUBSET S
      OBVIOUS
    <3>2. IsFiniteSet(A)
      BY <3>1, FS_Subset
    <3>3. P \in SUBSET A /\ A \ P = Of(R)
      BY <2>4
    <3> QED
      BY <3>1, <3>2, <3>3
  <2> HIDE DEF A, P, Of, R, z
  <2>9. F(A) = F(P) + F(A \ P)
    BY <2>8, SumSplit
  <2>10. G(T) # F(A)
    BY <2>1 DEF C, A
  <2>11. F(P) \in Int /\ F(A \ P) \in Int
    <3>1. IsFiniteSet(P) /\ IsFiniteSet(A \ P)
      BY <2>8, FS_Subset
    <3> QED
      BY <2>8, <3>1, SumInt
  <2> HIDE DEF F, G
  <2>12. QED
    BY <2>5, <2>6, <2>7, <2>8, <2>9, <2>10, <2>11 DEF P
<1>1. Of(K) = S
    OBVIOUS
<1> HIDE DEF Of
<1>2. G(K) = F(Of(K))
    BY <1>c
<1>3. QED
    BY <1>1, <1>2

\* All of a sum lies where the function is not zero.
Support(P, f, S) ==
    P \subseteq S /\ \A x \in S : f[x] \in Int /\ (x \notin P => f[x] = 0)
LEMMA SumSupport ==
    ASSUME NEW S, IsFiniteSet(S), NEW f, NEW P, Support(P, f, S)
    PROVE  SumFunctionOnSet(f, S) = SumFunctionOnSet(f, P)
<1>1. SumFunctionOnSet(f, S) = SumFunctionOnSet(f, P) + SumFunctionOnSet(f, S \ P)
    BY SumSplit DEF Support
<1>2. IsFiniteSet(P) /\ IsFiniteSet(S \ P)
    BY FS_Subset DEF Support
<1>3. SumFunctionOnSet(f, S \ P) = 0
    BY <1>2, SumZero DEF Support
<1>4. SumFunctionOnSet(f, P) \in Int
    BY <1>2, SumInt DEF Support
<1>5. QED
    BY <1>1, <1>3, <1>4

=============================================================================
