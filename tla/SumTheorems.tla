---------------------------- MODULE SumTheorems -----------------------------
(***************************************************************************)
(* Sums over finite sets, for the proofs about books that keep a total of  *)
(* their entries: what SumFunctionOnSet of the community modules returns,  *)
(* for every function and every finite set.  Its recursion is unfolded by  *)
(* induction over the subsets of a finite set, stated about a set of good  *)
(* subsets and not about a predicate.                                      *)
(***************************************************************************)
EXTENDS Functions, FiniteSetTheorems, TLAPS

\* What all the subsets of a finite set satisfy when each does whose own strict subsets do.
LEMMA SubsetInduction ==
  ASSUME NEW S, IsFiniteSet(S), NEW Good,
         \A T \in SUBSET S : (\A U \in SUBSET T : U # T => U \in Good) => T \in Good
  PROVE  \A T \in SUBSET S : T \in Good
<1> DEFINE Bad == {T \in SUBSET S : T \notin Good}
<1>1. SUFFICES ASSUME Bad # {} PROVE FALSE
  OBVIOUS
<1>2. IsWellFoundedOn(StrictSubsetOrdering(S), SUBSET S)
  BY FS_StrictSubsetOrderingWellFounded, FS_FiniteSubsetsOfFinite
<1>3. PICK T \in Bad : \A U \in Bad : <<U, T>> \notin StrictSubsetOrdering(S)
  <2>1. Bad \subseteq SUBSET S
    OBVIOUS
  <2> HIDE DEF Bad
  <2>2. QED
    BY <1>1, <1>2, <2>1, WFMin
<1>4. \A U \in SUBSET T : U # T => U \in Good
  BY <1>3 DEF StrictSubsetOrdering
<1>5. QED
  BY <1>3, <1>4

-----------------------------------------------------------------------------
(* The recursion is well defined *)

Some(s) == CHOOSE x \in s : TRUE

\* g sums f over every subset of S, an element at a time.
Adds(f, g, S) == g = [s \in SUBSET S |-> IF s = {} THEN 0 ELSE f[Some(s)] + g[s \ {Some(s)}]]

LEMMA SomeIn == ASSUME NEW s, s # {} PROVE Some(s) \in s
BY DEF Some

\* The equation of the recursion, at one subset.
LEMMA AddsAt ==
  ASSUME NEW f, NEW g, NEW S, Adds(f, g, S), NEW s \in SUBSET S
  PROVE  g[s] = IF s = {} THEN 0 ELSE f[Some(s)] + g[s \ {Some(s)}]
BY DEF Adds

\* Two such functions agree wherever both are defined, if what they sum is the same there.
LEMMA AddsAgree ==
  ASSUME NEW f, NEW e, NEW g, NEW h, NEW S, NEW T, NEW R, IsFiniteSet(R), R \subseteq S, R \subseteq T,
         Adds(f, g, S), Adds(e, h, T), \A x \in R : f[x] = e[x]
  PROVE  \A s \in SUBSET R : g[s] = h[s]
<1> DEFINE Good == {s \in SUBSET R : g[s] = h[s]}
<1>1. ASSUME NEW s \in SUBSET R, \A u \in SUBSET s : u # s => u \in Good
      PROVE  s \in Good
  <2> DEFINE x == Some(s)
  <2>1. CASE s = {}
    BY <2>1, AddsAt
  <2>2. CASE s # {}
    <3>1. x \in s /\ s \ {x} # s /\ s \ {x} \in SUBSET s
      BY <2>2, SomeIn
    <3>2. g[s \ {x}] = h[s \ {x}] /\ f[x] = e[x]
      BY <1>1, <3>1
    <3>3. g[s] = f[x] + g[s \ {x}] /\ h[s] = e[x] + h[s \ {x}]
      <4>1. s \in SUBSET S /\ s \in SUBSET T
        OBVIOUS
      <4>2. g[s] = f[x] + g[s \ {x}]
        BY ONLY <2>2, <4>1, AddsAt, Adds(f, g, S)
      <4>3. h[s] = e[x] + h[s \ {x}]
        BY ONLY <2>2, <4>1, AddsAt, Adds(e, h, T)
      <4>4. QED
        BY <4>2, <4>3
    <3>4. QED
      BY <3>2, <3>3
  <2>3. QED
    BY <2>1, <2>2
<1> HIDE DEF Good
<1>2. \A s \in SUBSET R : s \in Good
  BY <1>1, SubsetInduction
<1>3. QED
  BY <1>2 DEF Good

\* There is one, for every finite set: the sums over the smaller sets make up the sum over the set.
LEMMA AddsExists == ASSUME NEW f, NEW S, IsFiniteSet(S) PROVE \E g : Adds(f, g, S)
<1> DEFINE Good == {T \in SUBSET S : \E g : Adds(f, g, T)}
           Of(T) == CHOOSE g : Adds(f, g, T)
<1>1. ASSUME NEW T \in SUBSET S, \A U \in SUBSET T : U # T => U \in Good
      PROVE  T \in Good
  <2> DEFINE g == [s \in SUBSET T |-> IF s = {} THEN 0 ELSE f[Some(s)] + Of(s \ {Some(s)})[s \ {Some(s)}]]
  <2>1. \A U \in SUBSET T : U # T => Adds(f, Of(U), U)
    BY <1>1
  <2> HIDE DEF Of
  <2>2. ASSUME NEW U \in SUBSET T, U # T
        PROVE  g[U] = Of(U)[U]
    <3> DEFINE x == Some(U)
               V == U \ {x}
    <3>1. CASE U = {}
      BY <2>1, <2>2, <3>1, AddsAt
    <3>2. CASE U # {}
      <4>1. x \in U /\ V # T /\ V \in SUBSET U /\ V \in SUBSET T
        BY <2>2, <3>2, SomeIn
      <4>2. IsFiniteSet(V)
        BY <4>1, FS_Subset
      <4>3. Adds(f, Of(U), U) /\ Adds(f, Of(V), V)
        BY <2>1, <2>2, <4>1
      <4>4. \A s \in SUBSET V : Of(U)[s] = Of(V)[s]
        BY <4>1, <4>2, <4>3, AddsAgree
      <4>5. Of(U)[U] = f[x] + Of(U)[V]
        BY <3>2, <4>3, AddsAt
      <4>6. Of(U)[V] = Of(V)[V]
        BY <4>4
      <4>7. g[U] = f[x] + Of(V)[V]
        BY <3>2
      <4>8. QED
        BY <4>5, <4>6, <4>7
    <3>3. QED
      BY <3>1, <3>2
  <2>3. Adds(f, g, T)
    <3>1. ASSUME NEW s \in SUBSET T, s # {}
          PROVE  g[s] = f[Some(s)] + g[s \ {Some(s)}]
      <4>1. s \ {Some(s)} \in SUBSET T /\ s \ {Some(s)} # T
        BY <3>1, SomeIn
      <4>2. g[s \ {Some(s)}] = Of(s \ {Some(s)})[s \ {Some(s)}]
        BY <2>2, <4>1
      <4>3. QED
        BY <3>1, <4>2
    <3>2. g[{}] = 0
      OBVIOUS
    <3>3. g = [s \in SUBSET T |-> g[s]]
      OBVIOUS
    <3> HIDE DEF g
    <3>4. QED
      BY <3>1, <3>2, <3>3 DEF Adds
  <2>4. QED
    BY <2>3
<1> HIDE DEF Good
<1>2. \A T \in SUBSET S : T \in Good
  BY <1>1, SubsetInduction
<1>3. QED
  BY <1>2 DEF Good

-----------------------------------------------------------------------------
(* What a sum is *)

\* The sum is the value of such a function, whichever it is.
LEMMA SumIs ==
  ASSUME NEW f, NEW S, IsFiniteSet(S), NEW g, Adds(f, g, S)
  PROVE  SumFunctionOnSet(f, S) = g[S]
<1> DEFINE c == CHOOSE h : Adds(f, h, S)
<1>1. SumFunctionOnSet(f, S) = c[S]
  BY DEF SumFunctionOnSet, FoldFunctionOnSet, MapThenFoldSet, Adds, Some
<1>2. Adds(f, c, S)
  OBVIOUS
<1> HIDE DEF c
<1>3. c[S] = g[S]
  BY <1>2, AddsAgree
<1>4. QED
  BY <1>1, <1>3

\* Nothing to add up.
LEMMA SumEmpty == ASSUME NEW f PROVE SumFunctionOnSet(f, {}) = 0
<1>1. IsFiniteSet({})
  BY FS_EmptySet
<1>2. PICK g : Adds(f, g, {})
  BY <1>1, AddsExists
<1>3. g[{}] = 0
  BY <1>2, AddsAt
<1>4. QED
  BY <1>1, <1>2, <1>3, SumIs

\* One step of the recursion.
LEMMA SumStep ==
  ASSUME NEW f, NEW S, IsFiniteSet(S), S # {}
  PROVE  SumFunctionOnSet(f, S) = f[Some(S)] + SumFunctionOnSet(f, S \ {Some(S)})
<1> DEFINE x == Some(S)
           T == S \ {x}
<1>1. IsFiniteSet(T)
  BY FS_Subset
<1>2. PICK g : Adds(f, g, S)
  BY AddsExists
<1>3. PICK h : Adds(f, h, T)
  BY <1>1, AddsExists
<1>4. g[S] = f[x] + g[T]
  BY <1>2, AddsAt
<1>5. g[T] = h[T]
  <2>1. T \subseteq S /\ T \subseteq T /\ T \in SUBSET T
    OBVIOUS
  <2> HIDE DEF T
  <2>2. QED
    BY <1>1, <1>2, <1>3, <2>1, AddsAgree
<1>6. QED
  BY <1>1, <1>2, <1>3, <1>4, <1>5, SumIs

\* The sum of integers is one.
LEMMA SumInt ==
  ASSUME NEW f, NEW S, IsFiniteSet(S), \A x \in S : f[x] \in Int
  PROVE  SumFunctionOnSet(f, S) \in Int
<1> DEFINE Good == {T \in SUBSET S : SumFunctionOnSet(f, T) \in Int}
<1>1. ASSUME NEW T \in SUBSET S, \A U \in SUBSET T : U # T => U \in Good
      PROVE  T \in Good
  <2>1. CASE T = {}
    BY <2>1, SumEmpty
  <2>2. CASE T # {}
    <3>1. Some(T) \in T /\ T \ {Some(T)} # T /\ IsFiniteSet(T)
      BY <2>2, SomeIn, FS_Subset
    <3>2. f[Some(T)] \in Int /\ SumFunctionOnSet(f, T \ {Some(T)}) \in Int
      BY <1>1, <3>1
    <3>3. QED
      BY <2>2, <3>1, <3>2, SumStep
  <2>3. QED
    BY <2>1, <2>2
<1> HIDE DEF Good
<1>2. \A T \in SUBSET S : T \in Good
  BY <1>1, SubsetInduction
<1>3. QED
  BY <1>2 DEF Good

\* Any entry can be taken out of a sum.
LEMMA SumTakeOut ==
  ASSUME NEW f, NEW S, IsFiniteSet(S), \A x \in S : f[x] \in Int, NEW x \in S
  PROVE  SumFunctionOnSet(f, S) = f[x] + SumFunctionOnSet(f, S \ {x})
<1> DEFINE Good == {T \in SUBSET S : \A y \in T : SumFunctionOnSet(f, T) = f[y] + SumFunctionOnSet(f, T \ {y})}
<1>1. ASSUME NEW T \in SUBSET S, \A U \in SUBSET T : U # T => U \in Good
      PROVE  T \in Good
  <2>1. SUFFICES ASSUME NEW y \in T
                 PROVE  SumFunctionOnSet(f, T) = f[y] + SumFunctionOnSet(f, T \ {y})
    OBVIOUS
  <2> DEFINE z == Some(T)
             both == T \ {y, z}
  <2>2. z \in T /\ IsFiniteSet(T)
    BY SomeIn, FS_Subset
  <2>3. SumFunctionOnSet(f, T) = f[z] + SumFunctionOnSet(f, T \ {z})
    BY <2>2, SumStep
  <2>4. CASE y = z
    BY <2>3, <2>4
  <2>5. CASE y # z
    <3>1. SumFunctionOnSet(f, T \ {z}) = f[y] + SumFunctionOnSet(f, both)
      <4>1. T \ {z} \in Good /\ y \in T \ {z} /\ (T \ {z}) \ {y} = both
        BY <1>1, <2>2, <2>5
      <4>2. QED
        BY <4>1
    <3>2. SumFunctionOnSet(f, T \ {y}) = f[z] + SumFunctionOnSet(f, both)
      <4>1. T \ {y} \in Good /\ z \in T \ {y} /\ (T \ {y}) \ {z} = both
        BY <1>1, <2>2, <2>5
      <4>2. QED
        BY <4>1
    <3>3. SumFunctionOnSet(f, both) \in Int /\ f[y] \in Int /\ f[z] \in Int
      <4>1. IsFiniteSet(both) /\ \A w \in both : f[w] \in Int
        BY <2>2, FS_Subset
      <4>2. QED
        BY <2>2, <4>1, SumInt
    <3> HIDE DEF Good, z, both
    <3>4. QED
      BY <2>3, <3>1, <3>2, <3>3
  <2>6. QED
    BY <2>4, <2>5
<1> HIDE DEF Good
<1>2. \A T \in SUBSET S : T \in Good
  BY <1>1, SubsetInduction
<1>3. QED
  BY <1>2 DEF Good

\* The sum depends only on the entries.
LEMMA SumSame ==
  ASSUME NEW f, NEW g, NEW S, IsFiniteSet(S), \A x \in S : f[x] = g[x]
  PROVE  SumFunctionOnSet(f, S) = SumFunctionOnSet(g, S)
<1>1. PICK F : Adds(f, F, S)
  BY AddsExists
<1>2. PICK G : Adds(g, G, S)
  BY AddsExists
<1>3. F[S] = G[S]
  BY <1>1, <1>2, AddsAgree
<1>4. QED
  BY <1>1, <1>2, <1>3, SumIs

\* One entry changes: the sum changes by as much.
LEMMA SumChange ==
  ASSUME NEW f, NEW g, NEW S, IsFiniteSet(S), NEW x \in S,
         \A y \in S : f[y] \in Int /\ g[y] \in Int,
         \A y \in S \ {x} : g[y] = f[y]
  PROVE  SumFunctionOnSet(g, S) = SumFunctionOnSet(f, S) - f[x] + g[x]
<1> DEFINE T == S \ {x}
<1>1. IsFiniteSet(T)
  BY FS_Subset
<1>2. SumFunctionOnSet(f, T) = SumFunctionOnSet(g, T) /\ SumFunctionOnSet(f, T) \in Int
  BY <1>1, SumSame, SumInt
<1>3. /\ SumFunctionOnSet(f, S) = f[x] + SumFunctionOnSet(f, T)
      /\ SumFunctionOnSet(g, S) = g[x] + SumFunctionOnSet(g, T)
  BY SumTakeOut
<1> HIDE DEF T
<1>4. QED
  BY <1>2, <1>3

\* An entry is added.
LEMMA SumAdd ==
  ASSUME NEW f, NEW S, IsFiniteSet(S), NEW x, x \notin S, \A y \in S \cup {x} : f[y] \in Int
  PROVE  SumFunctionOnSet(f, S \cup {x}) = SumFunctionOnSet(f, S) + f[x]
<1>1. IsFiniteSet(S \cup {x}) /\ (S \cup {x}) \ {x} = S
  BY FS_AddElement
<1>2. SumFunctionOnSet(f, S \cup {x}) = f[x] + SumFunctionOnSet(f, S)
  BY <1>1, SumTakeOut
<1>3. SumFunctionOnSet(f, S) \in Int /\ f[x] \in Int
  BY SumInt
<1>4. QED
  BY <1>2, <1>3

\* Entries that are all no smaller than others', one set within the other, sum up to no less.
LEMMA SumMonotone ==
  ASSUME NEW f, NEW g, NEW S, IsFiniteSet(S), \A x \in S : f[x] \in Int /\ g[x] \in Int /\ f[x] <= g[x]
  PROVE  SumFunctionOnSet(f, S) <= SumFunctionOnSet(g, S)
<1> DEFINE Good == {T \in SUBSET S : SumFunctionOnSet(f, T) <= SumFunctionOnSet(g, T)}
<1>1. ASSUME NEW T \in SUBSET S, \A U \in SUBSET T : U # T => U \in Good
      PROVE  T \in Good
  <2>1. CASE T = {}
    BY <2>1, SumEmpty
  <2>2. CASE T # {}
    <3> DEFINE x == Some(T)
               U == T \ {x}
    <3>1. x \in T /\ U # T /\ U \in SUBSET T /\ IsFiniteSet(T) /\ IsFiniteSet(U)
      BY <2>2, SomeIn, FS_Subset
    <3>2. SumFunctionOnSet(f, U) <= SumFunctionOnSet(g, U)
      BY <1>1, <3>1
    <3>3. SumFunctionOnSet(f, U) \in Int /\ SumFunctionOnSet(g, U) \in Int
      <4>1. \A y \in U : f[y] \in Int /\ g[y] \in Int
        OBVIOUS
      <4>2. QED
        BY <3>1, <4>1, SumInt
    <3>4. /\ SumFunctionOnSet(f, T) = f[x] + SumFunctionOnSet(f, U)
          /\ SumFunctionOnSet(g, T) = g[x] + SumFunctionOnSet(g, U)
      BY <2>2, <3>1, SumStep
    <3>5. f[x] \in Int /\ g[x] \in Int /\ f[x] <= g[x]
      BY <3>1
    <3>6. SumFunctionOnSet(f, T) <= SumFunctionOnSet(g, T)
      <4> HIDE DEF x, U
      <4>1. QED
        BY <3>2, <3>3, <3>4, <3>5
    <3>7. QED
      BY <3>6
  <2>3. QED
    BY <2>1, <2>2
<1> HIDE DEF Good
<1>2. \A T \in SUBSET S : T \in Good
  BY <1>1, SubsetInduction
<1>3. QED
  BY <1>2 DEF Good

\* Zeros add up to nothing.
LEMMA SumZero ==
  ASSUME NEW f, NEW S, IsFiniteSet(S), \A x \in S : f[x] = 0
  PROVE  SumFunctionOnSet(f, S) = 0
<1> DEFINE Good == {T \in SUBSET S : SumFunctionOnSet(f, T) = 0}
<1>1. ASSUME NEW T \in SUBSET S, \A U \in SUBSET T : U # T => U \in Good
      PROVE  T \in Good
  <2>1. CASE T = {}
    BY <2>1, SumEmpty
  <2>2. CASE T # {}
    <3>1. Some(T) \in T /\ T \ {Some(T)} # T /\ IsFiniteSet(T)
      BY <2>2, SomeIn, FS_Subset
    <3>2. f[Some(T)] = 0 /\ SumFunctionOnSet(f, T \ {Some(T)}) = 0
      BY <1>1, <3>1
    <3>3. QED
      BY <2>2, <3>1, <3>2, SumStep
  <2>3. QED
    BY <2>1, <2>2
<1> HIDE DEF Good
<1>2. \A T \in SUBSET S : T \in Good
  BY <1>1, SubsetInduction
<1>3. QED
  BY <1>2 DEF Good

\* A sum of naturals is one.
LEMMA SumNat ==
  ASSUME NEW f, NEW S, IsFiniteSet(S), \A x \in S : f[x] \in Nat
  PROVE  SumFunctionOnSet(f, S) \in Nat
<1> DEFINE zero == [x \in S |-> 0]
<1>1. SumFunctionOnSet(zero, S) = 0
  BY SumZero
<1>2. \A x \in S : zero[x] \in Int /\ f[x] \in Int /\ zero[x] <= f[x]
  OBVIOUS
<1> HIDE DEF zero
<1>3. SumFunctionOnSet(zero, S) <= SumFunctionOnSet(f, S)
  BY <1>2, SumMonotone
<1>4. SumFunctionOnSet(f, S) \in Int
  BY SumInt
<1>5. QED
  BY <1>1, <1>3, <1>4

\* No entry of a sum of naturals is more than the sum.
LEMMA SumBounds ==
  ASSUME NEW f, NEW S, IsFiniteSet(S), \A x \in S : f[x] \in Nat, NEW x \in S
  PROVE  f[x] <= SumFunctionOnSet(f, S)
<1>1. SumFunctionOnSet(f, S) = f[x] + SumFunctionOnSet(f, S \ {x})
  BY SumTakeOut
<1>2. SumFunctionOnSet(f, S \ {x}) \in Nat
  <2>1. IsFiniteSet(S \ {x}) /\ \A y \in S \ {x} : f[y] \in Nat
    BY FS_Subset
  <2>2. QED
    BY <2>1, SumNat
<1>3. QED
  BY <1>1, <1>2

\* The sum over a subset is the sum over the set of the function cut down to it.
LEMMA SumOnSubset ==
  ASSUME NEW f, NEW S, IsFiniteSet(S), NEW T \in SUBSET S, \A x \in T : f[x] \in Int
  PROVE  SumFunctionOnSet(f, T) = SumFunctionOnSet([x \in S |-> IF x \in T THEN f[x] ELSE 0], S)
<1> DEFINE cut == [x \in S |-> IF x \in T THEN f[x] ELSE 0]
           Good == {U \in SUBSET S : SumFunctionOnSet(f, U \cap T) = SumFunctionOnSet(cut, U)}
<1>1. ASSUME NEW U \in SUBSET S, \A V \in SUBSET U : V # U => V \in Good
      PROVE  U \in Good
  <2>1. CASE U = {}
    BY <2>1, SumEmpty
  <2>2. CASE U # {}
    <3> DEFINE x == Some(U)
               V == U \ {x}
    <3>1. x \in U /\ V # U /\ V \in SUBSET U /\ IsFiniteSet(U) /\ IsFiniteSet(V) /\ IsFiniteSet(U \cap T)
      BY <2>2, SomeIn, FS_Subset
    <3>2. SumFunctionOnSet(f, V \cap T) = SumFunctionOnSet(cut, V)
      BY <1>1, <3>1
    <3>3. SumFunctionOnSet(cut, U) = cut[x] + SumFunctionOnSet(cut, V)
      BY <2>2, <3>1, SumStep
    <3>4. CASE x \in T
      <4>1. x \in U \cap T /\ (U \cap T) \ {x} = V \cap T /\ \A y \in U \cap T : f[y] \in Int
        BY <3>1, <3>4
      <4>2. SumFunctionOnSet(f, U \cap T) = f[x] + SumFunctionOnSet(f, V \cap T)
        BY <3>1, <4>1, SumTakeOut
      <4>3. cut[x] = f[x]
        BY <3>1, <3>4
      <4>4. QED
        BY <3>2, <3>3, <4>2, <4>3
    <3>5. CASE x \notin T
      <4>1. U \cap T = V \cap T /\ cut[x] = 0
        BY <3>1, <3>5
      <4>2. SumFunctionOnSet(f, V \cap T) \in Int
        <5>1. IsFiniteSet(V \cap T) /\ \A y \in V \cap T : f[y] \in Int
          BY <3>1, FS_Subset
        <5>2. QED
          BY <5>1, SumInt
      <4>3. SumFunctionOnSet(cut, U) = SumFunctionOnSet(f, V \cap T)
        <5> HIDE DEF V, cut, x
        <5>1. QED
          BY <3>2, <3>3, <4>1, <4>2
      <4>4. QED
        BY <4>1, <4>3
    <3>6. QED
      BY <3>4, <3>5
  <2>3. QED
    BY <2>1, <2>2
<1> HIDE DEF Good
<1>2. \A U \in SUBSET S : U \in Good
  BY <1>1, SubsetInduction
<1>3. SumFunctionOnSet(f, S \cap T) = SumFunctionOnSet(cut, S)
  BY <1>2 DEF Good
<1>4. S \cap T = T
  OBVIOUS
<1>5. QED
  BY <1>3, <1>4

-----------------------------------------------------------------------------
(* Sums of whole functions *)

\* The sum of a function is its sum over its domain.
LEMMA SumWhole == ASSUME NEW S, NEW T, NEW f \in [S -> T] PROVE SumFunction(f) = SumFunctionOnSet(f, S)
BY DEF SumFunction

LEMMA SumWholeInt == ASSUME NEW S, IsFiniteSet(S), NEW f \in [S -> Int] PROVE SumFunction(f) \in Int
<1>1. SumFunction(f) = SumFunctionOnSet(f, S) /\ \A x \in S : f[x] \in Int
  BY SumWhole
<1>2. QED
  BY <1>1, SumInt

\* One entry is overwritten.
LEMMA SumExcept ==
  ASSUME NEW S, IsFiniteSet(S), NEW f \in [S -> Int], NEW x \in S, NEW v \in Int
  PROVE  SumFunction([f EXCEPT ![x] = v]) = SumFunction(f) - f[x] + v
<1> DEFINE g == [f EXCEPT ![x] = v]
<1>1. g \in [S -> Int] /\ g[x] = v /\ \A y \in S \ {x} : g[y] = f[y]
  OBVIOUS
<1>2. \A y \in S : f[y] \in Int /\ g[y] \in Int
  BY <1>1
<1> HIDE DEF g
<1>3. SumFunctionOnSet(g, S) = SumFunctionOnSet(f, S) - f[x] + g[x]
  BY <1>1, <1>2, SumChange
<1>4. SumFunction(g) = SumFunctionOnSet(g, S) /\ SumFunction(f) = SumFunctionOnSet(f, S)
  BY <1>1, SumWhole
<1>5. SumFunction(g) = SumFunction(f) - f[x] + v
  BY <1>1, <1>3, <1>4
<1>6. QED
  BY <1>5 DEF g

\* What is subtracted entry by entry is subtracted from the sum.
LEMMA SumMinus ==
  ASSUME NEW f, NEW g, NEW h, NEW S, IsFiniteSet(S),
         \A x \in S : f[x] \in Int /\ g[x] \in Int /\ h[x] = f[x] - g[x]
  PROVE  SumFunctionOnSet(h, S) = SumFunctionOnSet(f, S) - SumFunctionOnSet(g, S)
<1> DEFINE Good == {T \in SUBSET S :
                      SumFunctionOnSet(h, T) = SumFunctionOnSet(f, T) - SumFunctionOnSet(g, T)}
<1>1. ASSUME NEW T \in SUBSET S, \A U \in SUBSET T : U # T => U \in Good
      PROVE  T \in Good
  <2>1. CASE T = {}
    BY <2>1, SumEmpty
  <2>2. CASE T # {}
    <3> DEFINE x == Some(T)
               U == T \ {x}
    <3>1. x \in T /\ U # T /\ U \in SUBSET T /\ IsFiniteSet(T) /\ IsFiniteSet(U)
      BY <2>2, SomeIn, FS_Subset
    <3>2. SumFunctionOnSet(h, U) = SumFunctionOnSet(f, U) - SumFunctionOnSet(g, U)
      BY <1>1, <3>1
    <3>3. SumFunctionOnSet(f, U) \in Int /\ SumFunctionOnSet(g, U) \in Int
      <4>1. \A y \in U : f[y] \in Int /\ g[y] \in Int
        OBVIOUS
      <4>2. QED
        BY <3>1, <4>1, SumInt
    <3>4. /\ SumFunctionOnSet(f, T) = f[x] + SumFunctionOnSet(f, U)
          /\ SumFunctionOnSet(g, T) = g[x] + SumFunctionOnSet(g, U)
          /\ SumFunctionOnSet(h, T) = h[x] + SumFunctionOnSet(h, U)
      BY <2>2, <3>1, SumStep
    <3>5. f[x] \in Int /\ g[x] \in Int /\ h[x] = f[x] - g[x]
      BY <3>1
    <3>6. SumFunctionOnSet(h, T) = SumFunctionOnSet(f, T) - SumFunctionOnSet(g, T)
      <4> HIDE DEF x, U
      <4>1. QED
        BY <3>2, <3>3, <3>4, <3>5
    <3>7. QED
      BY <3>6
  <2>3. QED
    BY <2>1, <2>2
<1> HIDE DEF Good
<1>2. \A T \in SUBSET S : T \in Good
  BY <1>1, SubsetInduction
<1>3. QED
  BY <1>2 DEF Good

\* Two sets with nothing in common.
LEMMA SumUnion ==
  ASSUME NEW f, NEW S, NEW T, IsFiniteSet(S), IsFiniteSet(T), S \cap T = {}, \A x \in S \cup T : f[x] \in Int
  PROVE  SumFunctionOnSet(f, S \cup T) = SumFunctionOnSet(f, S) + SumFunctionOnSet(f, T)
<1> DEFINE U == S \cup T
           inS == [x \in U |-> IF x \in S THEN f[x] ELSE 0]
           inT == [x \in U |-> IF x \in T THEN f[x] ELSE 0]
<1>1. IsFiniteSet(U)
  BY FS_Union
<1>2. SumFunctionOnSet(f, S) = SumFunctionOnSet(inS, U) /\ SumFunctionOnSet(f, T) = SumFunctionOnSet(inT, U)
  <2>1. S \in SUBSET U /\ T \in SUBSET U /\ (\A x \in S : f[x] \in Int) /\ (\A x \in T : f[x] \in Int)
    OBVIOUS
  <2>2. SumFunctionOnSet(f, S) = SumFunctionOnSet(inS, U)
    BY ONLY <1>1, <2>1, SumOnSubset
  <2>3. SumFunctionOnSet(f, T) = SumFunctionOnSet(inT, U)
    BY ONLY <1>1, <2>1, SumOnSubset
  <2>4. QED
    BY ONLY <2>2, <2>3
<1>3. \A x \in U : f[x] \in Int /\ inS[x] \in Int /\ inT[x] = f[x] - inS[x]
  <2> TAKE x \in U
  <2>1. f[x] \in Int
    OBVIOUS
  <2>2. CASE x \in S
    BY <2>1, <2>2
  <2>3. CASE x \notin S
    BY <2>1, <2>3
  <2>4. QED
    BY <2>2, <2>3
<1>4. SumFunctionOnSet(inS, U) \in Int /\ SumFunctionOnSet(f, U) \in Int
  BY <1>1, <1>3, SumInt
<1> HIDE DEF U, inS, inT
<1>5. SumFunctionOnSet(inT, U) = SumFunctionOnSet(f, U) - SumFunctionOnSet(inS, U)
  BY ONLY <1>1, <1>3, SumMinus
<1>6. QED
  BY <1>2, <1>4, <1>5 DEF U

\* Amounts that are not negative: a part is no more than the whole.
LEMMA SumPart ==
  ASSUME NEW f, NEW S, IsFiniteSet(S), NEW T \in SUBSET S, \A x \in S : f[x] \in Nat
  PROVE  SumFunctionOnSet(f, T) <= SumFunctionOnSet(f, S)
<1>1. IsFiniteSet(T) /\ IsFiniteSet(S \ T) /\ T \cap (S \ T) = {} /\ T \cup (S \ T) = S
  BY FS_Subset
<1>2. \A x \in S : f[x] \in Int
  OBVIOUS
<1>3. SumFunctionOnSet(f, S) = SumFunctionOnSet(f, T) + SumFunctionOnSet(f, S \ T)
  BY <1>1, <1>2, SumUnion
<1>4. SumFunctionOnSet(f, T) \in Nat /\ SumFunctionOnSet(f, S \ T) \in Nat
  BY <1>1, SumNat
<1>5. QED
  BY <1>3, <1>4

=============================================================================
