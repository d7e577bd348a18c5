----------------------------- MODULE Sums_proofs -----------------------------
(***************************************************************************)
(* What a sum over a finite set does when its summands or its set change,  *)
(* from the definition of the fold in the community modules: the books of  *)
(* Erc20_proofs and EvmTx_proofs are kept in sums.                         *)
(*                                                                         *)
(* The induction is over the subsets of a finite set: the least member of  *)
(* the set of counterexamples is contradicted.                             *)
(***************************************************************************)
EXTENDS Integers, Functions, FiniteSets, FiniteSetTheorems, TLAPS

-----------------------------------------------------------------------------
(* Sums.                                                                   *)

\* Induction over the subsets of a finite set: a nonempty family of them has a
\* member that contains no other.
LEMMA MinimalMember ==
    ASSUME NEW S, IsFiniteSet(S), NEW B \in SUBSET (SUBSET S), B # {}
    PROVE  \E T \in B : \A U \in B : U \subseteq T => U = T
<1> DEFINE R == StrictSubsetOrdering(S)
<1>1. IsWellFoundedOn(R, SUBSET S)
  BY FS_StrictSubsetOrderingWellFounded, FS_FiniteSubsetsOfFinite
<1> HIDE DEF R
<1>2. PICK T \in B : \A U \in B : <<U, T>> \notin R
  BY <1>1, WFMin
<1>3. \A U \in B : U \subseteq T => U = T
  BY <1>2 DEF R, StrictSubsetOrdering
<1> QED BY <1>3

\* The definition of a fold, spelled out.
Pick(s) == CHOOSE x \in s : TRUE

Recursion(f, T, g) ==
    g = [s \in SUBSET T |-> IF s = {} THEN 0 ELSE f[Pick(s)] + g[s \ {Pick(s)}]]

\* A sum over a set is the value of the function that recurs on subsets.
LEMMA SumUnfolded ==
    ASSUME NEW f, NEW T
    PROVE  SumFunctionOnSet(f, T) = (CHOOSE g : Recursion(f, T, g))[T]
  BY DEF SumFunctionOnSet, FoldFunctionOnSet, MapThenFoldSet, Recursion, Pick

\* The element that the recursion takes is in the set.
LEMMA PickInSet == ASSUME NEW s, s # {} PROVE Pick(s) \in s
  BY DEF Pick

\* Two such functions agree where both are defined.
LEMMA RecursionUnique ==
    ASSUME NEW S, IsFiniteSet(S), NEW f, NEW T \in SUBSET S, NEW U \in SUBSET S,
           NEW g, Recursion(f, T, g), NEW h, Recursion(f, U, h)
    PROVE  \A s \in SUBSET S : s \subseteq T /\ s \subseteq U => g[s] = h[s]
<1> DEFINE B == {s \in SUBSET S : s \subseteq T /\ s \subseteq U /\ g[s] # h[s]}
<1>1. SUFFICES ASSUME B # {} PROVE FALSE
  OBVIOUS
<1>2. PICK s \in B : \A r \in B : r \subseteq s => r = s
  <2>1. B \in SUBSET (SUBSET S)
    OBVIOUS
  <2> HIDE DEF B
  <2> QED BY <1>1, <2>1, MinimalMember
<1> DEFINE r == s \ {Pick(s)}
<1>3. s # {} => g[s] = f[Pick(s)] + g[r] /\ h[s] = f[Pick(s)] + h[r]
  BY DEF Recursion
<1>4. s # {}
  BY DEF Recursion
<1>5. Pick(s) \in s
  BY <1>4, PickInSet
<1>6. r \notin B
  BY <1>2, <1>5
<1>7. g[r] = h[r]
  BY <1>6
<1> QED BY <1>3, <1>4, <1>7

\* The recursion defines a function on the subsets of a finite set.
LEMMA RecursionExists ==
    ASSUME NEW S, IsFiniteSet(S), NEW f, NEW Z \in SUBSET S
    PROVE  \E g : Recursion(f, Z, g)
<1> DEFINE B == {T \in SUBSET S : ~\E g : Recursion(f, T, g)}
<1>1. SUFFICES ASSUME B # {} PROVE FALSE
  OBVIOUS
<1>2. PICK T \in B : \A U \in B : U \subseteq T => U = T
  <2>1. B \in SUBSET (SUBSET S)
    OBVIOUS
  <2> HIDE DEF B
  <2> QED BY <1>1, <2>1, MinimalMember
<1> DEFINE Sol(U) == CHOOSE g : Recursion(f, U, g)
           rest(s) == s \ {Pick(s)}
           G == [s \in SUBSET T |->
                   IF s = {} THEN 0 ELSE f[Pick(s)] + Sol(rest(s))[rest(s)]]
<1>3. ASSUME NEW U \in SUBSET T, U # T PROVE Recursion(f, U, Sol(U))
  <2>1. U \notin B /\ U \in SUBSET S
    BY <1>2, <1>3
  <2>2. \E g : Recursion(f, U, g)
    BY <2>1
  <2> QED BY <2>2
<1> HIDE DEF Sol
<1>4. ASSUME NEW s \in SUBSET T, s # {} PROVE G[rest(s)] = Sol(rest(s))[rest(s)]
  <2> DEFINE V == rest(s)
  <2>1. V \in SUBSET T /\ V # T /\ V \in SUBSET S
    BY <1>2, <1>4, PickInSet
  <2>2. Recursion(f, V, Sol(V))
    BY <1>3, <2>1
  <2> HIDE DEF V
  <2>3. CASE V = {}
    <3>1. Sol(V)[V] = 0
      BY <2>2, <2>3 DEF Recursion
    <3>2. G[V] = 0
      BY <2>1, <2>3
    <3> QED BY <3>1, <3>2 DEF V
  <2>4. CASE V # {}
    <3> DEFINE W == rest(V)
    <3>1. W \in SUBSET V /\ W \in SUBSET T /\ W # T /\ W \in SUBSET S
      BY <2>1, <2>4, PickInSet
    <3>2. Recursion(f, W, Sol(W))
      BY <1>3, <3>1
    <3>3. Sol(V)[V] = f[Pick(V)] + Sol(V)[W]
      BY <2>2, <2>4 DEF Recursion
    <3>4. G[V] = f[Pick(V)] + Sol(W)[W]
      BY <2>1, <2>4
    <3> HIDE DEF W, G
    <3>5. Sol(V)[W] = Sol(W)[W]
      BY <2>1, <2>2, <3>1, <3>2, RecursionUnique
    <3> QED BY <3>3, <3>4, <3>5 DEF V
  <2> QED BY <2>3, <2>4
<1>5. Recursion(f, T, G)
  <2>1. G = [s \in SUBSET T |-> IF s = {} THEN 0 ELSE f[Pick(s)] + G[rest(s)]]
    BY <1>4
  <2> HIDE DEF G
  <2> QED BY <2>1 DEF Recursion
<1> HIDE DEF G
<1> QED BY <1>2, <1>5

\* The recursion, unfolded once.
LEMMA SumStep ==
    ASSUME NEW S, IsFiniteSet(S), NEW f, NEW T \in SUBSET S
    PROVE  /\ SumFunctionOnSet(f, {}) = 0
           /\ T # {} => SumFunctionOnSet(f, T)
                          = f[Pick(T)] + SumFunctionOnSet(f, T \ {Pick(T)})
<1> DEFINE Sol(U) == CHOOSE g : Recursion(f, U, g)
<1>1. \A U \in SUBSET S : Recursion(f, U, Sol(U))
  <2> TAKE U \in SUBSET S
  <2>1. \E g : Recursion(f, U, g)
    BY RecursionExists
  <2> QED BY <2>1
<1>2. \A U : SumFunctionOnSet(f, U) = Sol(U)[U]
  BY SumUnfolded
<1> HIDE DEF Sol
<1>3. SumFunctionOnSet(f, {}) = 0
  BY <1>1, <1>2 DEF Recursion
<1>4. ASSUME T # {}
      PROVE  SumFunctionOnSet(f, T) = f[Pick(T)] + SumFunctionOnSet(f, T \ {Pick(T)})
  <2> DEFINE V == T \ {Pick(T)}
  <2>1. Sol(T)[T] = f[Pick(T)] + Sol(T)[V]
    BY <1>1, <1>4 DEF Recursion
  <2>2. V \in SUBSET S /\ V \subseteq T
    OBVIOUS
  <2> HIDE DEF V
  <2>3. Sol(T)[V] = Sol(V)[V]
    BY <1>1, <2>2, RecursionUnique
  <2> QED BY <1>2, <2>1, <2>3 DEF V
<1> QED BY <1>3, <1>4

\* A sum stays within a set that is closed under addition.
LEMMA SumClosed ==
    ASSUME NEW S, IsFiniteSet(S), NEW f, NEW T \in SUBSET S,
           NEW Z, 0 \in Z, \A a, b \in Z : a + b \in Z,
           \A x \in T : f[x] \in Z
    PROVE  SumFunctionOnSet(f, T) \in Z
<1> DEFINE Sum(U) == SumFunctionOnSet(f, U)
           B == {U \in SUBSET T : Sum(U) \notin Z}
<1>1. SUFFICES ASSUME B # {} PROVE FALSE
  OBVIOUS
<1>2. PICK U \in B : \A V \in B : V \subseteq U => V = U
  <2>1. B \in SUBSET (SUBSET T) /\ IsFiniteSet(T)
    BY FS_Subset
  <2> HIDE DEF B
  <2> QED BY <1>1, <2>1, MinimalMember
<1> DEFINE V == U \ {Pick(U)}
<1>3. /\ Sum({}) = 0
      /\ U # {} => Sum(U) = f[Pick(U)] + Sum(V)
  <2>1. U \in SUBSET S
    OBVIOUS
  <2> QED BY <2>1, SumStep
<1>4. U # {}
  <2>1. Sum(U) \notin Z /\ 0 \in Z
    OBVIOUS
  <2> QED BY <1>3, <2>1
<1>5. Pick(U) \in U /\ V \notin B
  BY <1>2, <1>4, PickInSet
<1>6. Sum(V) \in Z /\ f[Pick(U)] \in Z
  BY <1>5
<1> HIDE DEF Sum, V
<1>7. Sum(U) = f[Pick(U)] + Sum(V)
  BY <1>3, <1>4
<1>8. Sum(U) \in Z
  BY <1>6, <1>7
<1> QED BY <1>8, <1>2

\* A sum of integers, or of naturals, is one; a sum of zeros is zero.
LEMMA SumType ==
    ASSUME NEW S, IsFiniteSet(S), NEW f, NEW T \in SUBSET S, NEW Z \in {Nat, Int},
           \A x \in T : f[x] \in Z
    PROVE  SumFunctionOnSet(f, T) \in Z
<1>1. 0 \in Z /\ \A a, b \in Z : a + b \in Z
  OBVIOUS
<1> QED BY <1>1, SumClosed

\* The sum of zeros is zero.
LEMMA SumZero ==
    ASSUME NEW S, IsFiniteSet(S), NEW f, DOMAIN f = S, \A x \in S : f[x] = 0
    PROVE  SumFunction(f) = 0
<1> DEFINE Z == {0}
<1>1. 0 \in Z /\ (\A a, b \in Z : a + b \in Z) /\ \A x \in S : f[x] \in Z
  OBVIOUS
<1> HIDE DEF Z
<1>2. SumFunctionOnSet(f, S) \in Z
  BY <1>1, SumClosed
<1> QED BY <1>2 DEF Z, SumFunction

\* The order of the summands does not matter.
LEMMA SumAny ==
    ASSUME NEW S, IsFiniteSet(S), NEW f, NEW T \in SUBSET S, NEW t \in T,
           \A y \in T : f[y] \in Int
    PROVE  SumFunctionOnSet(f, T) = f[t] + SumFunctionOnSet(f, T \ {t})
<1> DEFINE Sum(U) == SumFunctionOnSet(f, U)
           B == {U \in SUBSET T : \E x \in U : Sum(U) # f[x] + Sum(U \ {x})}
<1>1. SUFFICES ASSUME B # {} PROVE FALSE
  <2>1. T \notin B
    BY <1>1
  <2> QED BY <2>1
<1>f. IsFiniteSet(T)
  BY FS_Subset
<1>2. PICK U \in B : \A V \in B : V \subseteq U => V = U
  <2>1. B \in SUBSET (SUBSET T)
    OBVIOUS
  <2> HIDE DEF B
  <2> QED BY <1>1, <1>f, <2>1, MinimalMember
<1>3. PICK x \in U : Sum(U) # f[x] + Sum(U \ {x})
  OBVIOUS
<1> DEFINE p == Pick(U)
           V == U \ {p}
           W == U \ {x}
           Y == V \ {x}
<1>4. p \in U /\ Sum(U) = f[p] + Sum(V)
  <2>1. U \in SUBSET S /\ U # {}
    OBVIOUS
  <2> QED BY <2>1, PickInSet, SumStep
<1>5. p # x
  BY <1>3, <1>4
<1>6. V \notin B /\ W \notin B /\ V \in SUBSET T /\ W \in SUBSET T
  BY <1>2, <1>3, <1>4
<1>7. Sum(V) = f[x] + Sum(Y)
  BY <1>3, <1>5, <1>6
<1>8. Sum(W) = f[p] + Sum(Y)
  <2>1. W \ {p} = Y /\ p \in W
    BY <1>4, <1>5
  <2> QED BY <1>6, <2>1
<1>9. f[p] \in Int /\ f[x] \in Int /\ Sum(Y) \in Int
  <2>1. Y \in SUBSET S /\ \A y \in Y : f[y] \in Int
    OBVIOUS
  <2> QED BY <1>3, <1>4, <2>1, SumType
<1> HIDE DEF Sum, p, V, W, Y
<1>10. Sum(U) = f[x] + Sum(W)
  BY <1>4, <1>7, <1>8, <1>9
<1> QED BY <1>3, <1>10 DEF W

\* Functions that agree on a set have the same sum over it.
LEMMA SumAgree ==
    ASSUME NEW S, IsFiniteSet(S), NEW f, NEW g, \A x \in S : f[x] = g[x]
    PROVE  SumFunctionOnSet(f, S) = SumFunctionOnSet(g, S)
<1> DEFINE F(U) == SumFunctionOnSet(f, U)
           G(U) == SumFunctionOnSet(g, U)
           B == {U \in SUBSET S : F(U) # G(U)}
<1>1. SUFFICES ASSUME B # {} PROVE FALSE
  <2>1. S \notin B
    BY <1>1
  <2> QED BY <2>1
<1>2. PICK U \in B : \A V \in B : V \subseteq U => V = U
  <2>1. B \in SUBSET (SUBSET S)
    OBVIOUS
  <2> HIDE DEF B
  <2> QED BY <1>1, <2>1, MinimalMember
<1> DEFINE V == U \ {Pick(U)}
<1>3. /\ F({}) = 0 /\ G({}) = 0
      /\ U # {} => F(U) = f[Pick(U)] + F(V) /\ G(U) = g[Pick(U)] + G(V)
  <2>1. U \in SUBSET S
    OBVIOUS
  <2> QED BY <2>1, SumStep
<1>4. U # {}
  BY <1>3
<1>5. Pick(U) \in U /\ V \notin B
  BY <1>2, <1>4, PickInSet
<1>6. F(V) = G(V) /\ f[Pick(U)] = g[Pick(U)]
  BY <1>5
<1> QED BY <1>3, <1>4, <1>6

\* What changes a sum: one of its summands.
LEMMA SumUpdate ==
    ASSUME NEW S, IsFiniteSet(S), NEW f, NEW g, NEW t \in S,
           DOMAIN f = S, DOMAIN g = S,
           \A x \in S : f[x] \in Int /\ g[x] \in Int,
           \A x \in S \ {t} : f[x] = g[x]
    PROVE  SumFunction(g) = SumFunction(f) - f[t] + g[t]
<1> DEFINE R == S \ {t}
<1>1. IsFiniteSet(R)
  BY FS_Subset
<1>2. SumFunctionOnSet(f, R) = SumFunctionOnSet(g, R)
  BY <1>1, SumAgree
<1>3. SumFunctionOnSet(f, R) \in Int
  BY SumType
<1>4. /\ SumFunctionOnSet(f, S) = f[t] + SumFunctionOnSet(f, R)
      /\ SumFunctionOnSet(g, S) = g[t] + SumFunctionOnSet(g, R)
  BY SumAny
<1> HIDE DEF R
<1> QED BY <1>2, <1>3, <1>4 DEF SumFunction

\* No summand of a sum of naturals is larger than the sum.
LEMMA SumBounds ==
    ASSUME NEW S, IsFiniteSet(S), NEW f, DOMAIN f = S, \A x \in S : f[x] \in Nat,
           NEW t \in S
    PROVE  f[t] <= SumFunction(f)
<1> DEFINE R == S \ {t}
<1>1. SumFunctionOnSet(f, R) \in Nat
  BY SumType
<1>2. SumFunctionOnSet(f, S) = f[t] + SumFunctionOnSet(f, R)
  BY SumAny
<1> HIDE DEF R
<1> QED BY <1>1, <1>2 DEF SumFunction

\* The same for two summands.
LEMMA SumUpdateTwo ==
    ASSUME NEW S, IsFiniteSet(S), NEW f \in [S -> Int], NEW g \in [S -> Int],
           NEW a \in S, NEW b \in S, a # b,
           \A x \in S \ {a, b} : f[x] = g[x]
    PROVE  SumFunction(g) = SumFunction(f) - f[a] - f[b] + g[a] + g[b]
<1> DEFINE h == [f EXCEPT ![a] = g[a]]
<1>1. /\ h \in [S -> Int] /\ h[a] = g[a] /\ h[b] = f[b]
      /\ \A x \in S \ {a} : f[x] = h[x]
      /\ \A x \in S \ {b} : h[x] = g[x]
  OBVIOUS
<1> HIDE DEF h
<1>2. SumFunction(h) = SumFunction(f) - f[a] + h[a]
  BY <1>1, SumUpdate
<1>3. SumFunction(g) = SumFunction(h) - h[b] + g[b]
  BY <1>1, SumUpdate
<1>4. SumFunction(f) \in Int
  BY SumType DEF SumFunction
<1>5. f[a] \in Int /\ f[b] \in Int /\ g[a] \in Int /\ g[b] \in Int
  OBVIOUS
<1> QED BY <1>1, <1>2, <1>3, <1>4, <1>5

\* The sum of f over T and that of g over U differ in t at most.
DifferIn(t, f, T, g, U) ==
    /\ T \ {t} = U \ {t}
    /\ \A x \in T : f[x] \in Int
    /\ \A x \in U : g[x] \in Int
    /\ \A x \in T \ {t} : f[x] = g[x]

\* What t adds to the sum of f over T.
Share(t, f, T) == IF t \in T THEN f[t] ELSE 0

\* A sum changes by what changes in one element: its membership or its summand.
LEMMA SumChange ==
    ASSUME NEW S, IsFiniteSet(S), NEW f, NEW g, NEW t,
           NEW T \in SUBSET S, NEW U \in SUBSET S, DifferIn(t, f, T, g, U)
    PROVE  /\ SumFunctionOnSet(f, T) \in Int
           /\ SumFunctionOnSet(g, U) \in Int
           /\ Share(t, f, T) \in Int
           /\ Share(t, g, U) \in Int
           /\ SumFunctionOnSet(g, U)
                = SumFunctionOnSet(f, T) - Share(t, f, T) + Share(t, g, U)
<1> USE DEF DifferIn, Share
<1> DEFINE R == T \ {t}
<1>1. IsFiniteSet(R)
  BY FS_Subset
<1>2. SumFunctionOnSet(f, R) = SumFunctionOnSet(g, R)
  BY <1>1, SumAgree
<1>3. SumFunctionOnSet(f, R) \in Int
  BY SumType
<1>4. SumFunctionOnSet(f, T)
        = SumFunctionOnSet(f, R) + (IF t \in T THEN f[t] ELSE 0)
  <2>1. ASSUME t \in T PROVE SumFunctionOnSet(f, T) = f[t] + SumFunctionOnSet(f, R)
    BY <2>1, SumAny
  <2>2. t \notin T => R = T
    OBVIOUS
  <2> HIDE DEF R
  <2> QED BY <1>3, <2>1, <2>2
<1>5. SumFunctionOnSet(g, U)
        = SumFunctionOnSet(g, R) + (IF t \in U THEN g[t] ELSE 0)
  <2>0. R = U \ {t}
    OBVIOUS
  <2>1. ASSUME t \in U PROVE SumFunctionOnSet(g, U) = g[t] + SumFunctionOnSet(g, R)
    BY <2>0, <2>1, SumAny
  <2>2. t \notin U => R = U
    BY <2>0
  <2> HIDE DEF R
  <2> QED BY <1>2, <1>3, <2>1, <2>2
<1> HIDE DEF R
<1> DEFINE a == IF t \in T THEN f[t] ELSE 0
           b == IF t \in U THEN g[t] ELSE 0
<1>6. a \in Int /\ b \in Int
  OBVIOUS
<1> HIDE DEF a, b
<1> QED BY <1>2, <1>3, <1>4, <1>5, <1>6 DEF a, b

\* A sum of smaller naturals over fewer elements is smaller.
LEMMA SumSmaller ==
    ASSUME NEW S, IsFiniteSet(S), NEW f, NEW g, NEW T \in SUBSET S,
           \A x \in T : f[x] \in Nat /\ f[x] <= g[x],
           \A x \in S : g[x] \in Nat
    PROVE  SumFunctionOnSet(f, T) <= SumFunctionOnSet(g, S)
<1> DEFINE F(U) == SumFunctionOnSet(f, U \cap T)
           G(U) == SumFunctionOnSet(g, U)
           B == {U \in SUBSET S : ~(F(U) <= G(U))}
<1>1. SUFFICES ASSUME B # {} PROVE FALSE
  <2>1. S \notin B /\ S \cap T = T
    BY <1>1
  <2> QED BY <2>1
<1>2. PICK U \in B : \A V \in B : V \subseteq U => V = U
  <2>1. B \in SUBSET (SUBSET S)
    OBVIOUS
  <2> HIDE DEF B
  <2> QED BY <1>1, <2>1, MinimalMember
<1>3. U \in SUBSET S /\ ~(F(U) <= G(U))
  OBVIOUS
<1>4. CASE U = {}
  <2>1. SumFunctionOnSet(f, {}) = 0 /\ SumFunctionOnSet(g, {}) = 0
    BY SumStep
  <2>2. U \cap T = {}
    BY <1>4
  <2> QED BY <1>3, <1>4, <2>1, <2>2
<1>5. CASE U # {}
  <2>1. PICK t \in U : TRUE
    BY <1>5
  <2> DEFINE V == U \ {t}
  <2>2. F(V) <= G(V)
    BY <1>2, <2>1
  <2>3. G(U) = G(V) + g[t] /\ G(V) \in Int /\ g[t] \in Nat
    <3>1. V \in SUBSET S /\ V \ {t} = U \ {t} /\ t \notin V /\ t \in S
          /\ (\A x \in V : g[x] \in Int) /\ (\A x \in U : g[x] \in Int)
      BY <1>3
    <3> HIDE DEF V
    <3>2. SumFunctionOnSet(g, U) = g[t] + SumFunctionOnSet(g, U \ {t})
      BY <1>3, <3>1, SumAny
    <3>4. SumFunctionOnSet(g, V) \in Int
      BY <3>1, SumType
    <3>3. g[t] \in Nat
      BY <3>1
    <3> QED BY <3>2, <3>3, <3>4 DEF V
  <2>4. F(V) \in Int /\ F(U) = F(V) + (IF t \in T THEN f[t] ELSE 0)
    <3> DEFINE X == U \cap T
               Y == V \cap T
    <3>1. X \in SUBSET S /\ Y \in SUBSET S /\ Y \ {t} = X \ {t} /\ t \notin Y
          /\ t \in S /\ (t \in X <=> t \in T)
          /\ (\A x \in X : f[x] \in Int) /\ (\A x \in Y : f[x] \in Int)
      BY <1>3
    <3> HIDE DEF X, Y
    <3>2. DifferIn(t, f, Y, f, X)
      BY <3>1 DEF DifferIn
    <3>3. /\ SumFunctionOnSet(f, Y) \in Int
          /\ SumFunctionOnSet(f, X)
               = SumFunctionOnSet(f, Y) - Share(t, f, Y) + Share(t, f, X)
          /\ Share(t, f, X) \in Int
      BY <3>1, <3>2, SumChange
    <3>4. Share(t, f, Y) = 0 /\ Share(t, f, X) = (IF t \in T THEN f[t] ELSE 0)
      BY <3>1 DEF Share
    <3>5. SumFunctionOnSet(f, X) = SumFunctionOnSet(f, Y) + Share(t, f, X)
      BY <3>3, <3>4
    <3> QED BY <3>3, <3>4, <3>5 DEF X, Y
  <2>5. (IF t \in T THEN f[t] ELSE 0) \in Nat /\ (IF t \in T THEN f[t] ELSE 0) <= g[t]
    BY <1>3, <2>3
  <2> DEFINE d == IF t \in T THEN f[t] ELSE 0
  <2> HIDE DEF F, G, V, d
  <2>6. F(U) <= G(U)
    BY <2>2, <2>3, <2>4, <2>5 DEF d
  <2> QED BY <1>3, <2>6
<1> QED BY <1>4, <1>5
=============================================================================
