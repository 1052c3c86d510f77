-------------------------------- MODULE Sums --------------------------------
(***************************************************************************)
(* Sums over finite sets (SumFunctionOnSet of Functions): what the proofs  *)
(* about meters, ledgers and baskets use.  The sum is defined by a         *)
(* recursive function over the subsets of the set; what it computes is     *)
(* proved from minimal subsets instead of an induction theorem.            *)
(***************************************************************************)
EXTENDS Integers, FiniteSets, Functions, FiniteSetTheorems, WellFoundedInduction, TLAPS

\* Induction over a finite set: a set of its subsets that is not empty has a minimal one.
LEMMA MinimalSubset ==
  ASSUME NEW S, IsFiniteSet(S), NEW B \in SUBSET (SUBSET S), B # {}
  PROVE  \E T \in B : \A U \in B : U \subseteq T => U = T
  <1>1. B \subseteq FiniteSubsetsOf(S)
    BY FS_Subset DEF FiniteSubsetsOf
  <1>2. \E T \in B : \A U \in B : ~(<<U, T>> \in StrictSubsetOrdering(S))
    BY <1>1, FS_StrictSubsetOrderingWellFounded, WFMin
  <1>3. QED
    BY <1>2 DEF StrictSubsetOrdering

\* The recursive function a sum is defined by, and the element it takes out first.
IsFold(g, f, S) ==
  g = [s \in SUBSET S |-> IF s = {} THEN 0
                        ELSE LET x == CHOOSE x \in s : TRUE IN f[x] + g[s \ {x}]]

AnyOf(s) == CHOOSE x \in s : TRUE

LEMMA FoldEmpty ==
  ASSUME NEW f, NEW S, NEW g, IsFold(g, f, S)
  PROVE  g[{}] = 0
  BY DEF IsFold

LEMMA FoldStep ==
  ASSUME NEW f, NEW S, NEW g, IsFold(g, f, S)
  PROVE  \A s \in SUBSET S :
           /\ s = {} => g[s] = 0
           /\ s # {} => AnyOf(s) \in s /\ g[s] = f[AnyOf(s)] + g[s \ {AnyOf(s)}]
  BY DEF IsFold, AnyOf

\* Two of them agree wherever what they add up does.
LEMMA FoldsAgree ==
  ASSUME NEW f, NEW e, NEW S, IsFiniteSet(S), NEW T, NEW g, NEW h,
         IsFold(g, f, S), IsFold(h, e, T),
         NEW s \in SUBSET S, s \in SUBSET T, \A x \in s : f[x] = e[x]
  PROVE  g[s] = h[s]
  <1>0. \A u \in SUBSET S : u # {} => AnyOf(u) \in u /\ g[u] = f[AnyOf(u)] + g[u \ {AnyOf(u)}]
    BY FoldStep
  <1>1. \A u \in SUBSET T : u # {} => h[u] = e[AnyOf(u)] + h[u \ {AnyOf(u)}]
    BY FoldStep
  <1>. DEFINE B == {u \in SUBSET s : g[u] # h[u]}
  <1>2. SUFFICES ASSUME B # {} PROVE FALSE
    BY DEF B
  <1>3. PICK u \in B : \A v \in B : v \subseteq u => v = u
    <2>1. IsFiniteSet(s) /\ B \in SUBSET (SUBSET s)
      BY FS_Subset
    <2>. HIDE DEF B
    <2>2. QED
      BY <1>2, <2>1, MinimalSubset
  <1>4. u \in SUBSET S /\ u \in SUBSET T /\ u \in SUBSET s /\ g[u] # h[u]
    BY <1>3
  <1>5. u # {}
    <2>1. g[{}] = 0 /\ h[{}] = 0
      BY FoldEmpty
    <2>. QED BY <1>4, <2>1
  <1>. DEFINE x == AnyOf(u)  v == u \ {x}
  <1>6. x \in u /\ g[u] = f[x] + g[v] /\ h[u] = e[x] + h[v]
    <2>1. x \in u /\ g[u] = f[x] + g[v]
      BY <1>0, <1>4, <1>5
    <2>2. h[u] = e[x] + h[v]
      BY <1>1, <1>4, <1>5
    <2>. QED BY <2>1, <2>2
  <1>7. g[v] = h[v]
    BY <1>3, <1>6
  <1>8. QED
    BY <1>4, <1>6, <1>7

\* There is one for every function on a finite set.
LEMMA FoldExists ==
  ASSUME NEW f, NEW S, IsFiniteSet(S)
  PROVE  \E g : IsFold(g, f, S)
  <1>. DEFINE B == {T \in SUBSET S : ~ \E g : IsFold(g, f, T)}
  <1>1. SUFFICES ASSUME B # {} PROVE FALSE
    BY DEF B
  <1>2. PICK T \in B : \A U \in B : U \subseteq T => U = T
    <2>1. B \in SUBSET (SUBSET S)
      OBVIOUS
    <2>. HIDE DEF B
    <2>. QED BY <1>1, <2>1, MinimalSubset
  <1>3. T \in SUBSET S /\ IsFiniteSet(T) /\ ~ \E g : IsFold(g, f, T)
    BY <1>2, FS_Subset
  <1>4. \A U \in SUBSET T : U # T => \E g : IsFold(g, f, U)
    BY <1>2
  <1>. HIDE DEF B
  <1>. DEFINE F == [U \in SUBSET T |-> CHOOSE g : IsFold(g, f, U)]
             G == [s \in SUBSET T |-> IF s = {} THEN 0
                                     ELSE f[AnyOf(s)] + F[s \ {AnyOf(s)}][s \ {AnyOf(s)}]]
  <1>5. ASSUME NEW s \in SUBSET T, s # T
        PROVE  IsFold(F[s], f, s)
    BY <1>4, <1>5
  <1>6. ASSUME NEW s \in SUBSET T, s # T
        PROVE  F[s][s] = G[s]
    <2>0. IsFold(F[s], f, s) /\ s \in SUBSET s
      BY <1>5, <1>6
    <2>1. CASE s = {}
      <3>1. F[s][s] = 0
        <4>. HIDE DEF F
        <4>. QED BY <2>0, <2>1, FoldStep
      <3>. QED BY <2>1, <3>1
    <2>2. CASE s # {}
      <3>. DEFINE v == s \ {AnyOf(s)}
      <3>1. AnyOf(s) \in s /\ v \in SUBSET s /\ v \in SUBSET T /\ v # T /\ v # s
        BY <2>2 DEF AnyOf
      <3>2. F[s][s] = f[AnyOf(s)] + F[s][v]
        <4>. HIDE DEF F
        <4>. QED BY <2>0, <2>2, FoldStep
      <3>3. IsFiniteSet(s)
        BY <1>3, FS_Subset
      <3>4. F[s][v] = F[v][v]
        <4>1. IsFold(F[s], f, s) /\ IsFold(F[v], f, v)
          BY <1>5, <1>6, <3>1
        <4>. HIDE DEF F, v
        <4>. QED
          BY <3>1, <3>3, <4>1, FoldsAgree
      <3>5. QED
        BY <2>2, <3>2, <3>4 DEF G
    <2>. QED BY <2>1, <2>2
  <1>7. ASSUME NEW s \in SUBSET T, s # {}
        PROVE  G[s] = f[AnyOf(s)] + G[s \ {AnyOf(s)}]
    <2>1. AnyOf(s) \in s
      BY <1>7 DEF AnyOf
    <2>2. F[s \ {AnyOf(s)}][s \ {AnyOf(s)}] = G[s \ {AnyOf(s)}]
      BY <2>1, <1>6
    <2>. QED BY <1>7, <2>2 DEF G
  <1>8. IsFold(G, f, T)
    <2>1. G = [s \in SUBSET T |-> IF s = {} THEN 0 ELSE f[AnyOf(s)] + G[s \ {AnyOf(s)}]]
      <3>1. \A s \in SUBSET T : G[s] = IF s = {} THEN 0 ELSE f[AnyOf(s)] + G[s \ {AnyOf(s)}]
        <4>1. \A s \in SUBSET T : s = {} => G[s] = 0
          BY DEF G
        <4>2. ASSUME NEW s \in SUBSET T
              PROVE  G[s] = IF s = {} THEN 0 ELSE f[AnyOf(s)] + G[s \ {AnyOf(s)}]
          <5>. HIDE DEF G
          <5>1. CASE s = {}
            BY <4>1, <5>1
          <5>2. CASE s # {}
            BY <1>7, <5>2
          <5>. QED BY <5>1, <5>2
        <4>. QED BY <4>2
      <3>2. G = [s \in SUBSET T |-> G[s]]
        OBVIOUS
      <3>. HIDE DEF G
      <3>. QED BY <3>1, <3>2
    <2>. HIDE DEF G
    <2>. QED BY <2>1 DEF IsFold, AnyOf
  <1>9. QED
    BY <1>3, <1>8

LEMMA SumIs ==
  ASSUME NEW f, NEW S, IsFiniteSet(S)
  PROVE  \E g : IsFold(g, f, S) /\ SumFunctionOnSet(f, S) = g[S]
  <1>1. \E g : IsFold(g, f, S)
    BY FoldExists
  <1>. QED
    BY <1>1 DEF SumFunctionOnSet, FoldFunctionOnSet, MapThenFoldSet, IsFold

\* The sum is what the recursive function says, so it can be taken apart.
LEMMA SumFirst ==
  ASSUME NEW f, NEW S, IsFiniteSet(S), S # {}
  PROVE  /\ AnyOf(S) \in S
         /\ SumFunctionOnSet(f, S) = f[AnyOf(S)] + SumFunctionOnSet(f, S \ {AnyOf(S)})
  <1>. DEFINE R == S \ {AnyOf(S)}
  <1>1. PICK g : IsFold(g, f, S) /\ SumFunctionOnSet(f, S) = g[S]
    BY SumIs
  <1>2. IsFiniteSet(R) /\ R \in SUBSET S
    BY FS_Subset
  <1>3. PICK h : IsFold(h, f, R) /\ SumFunctionOnSet(f, R) = h[R]
    BY SumIs, <1>2
  <1>4. AnyOf(S) \in S /\ g[S] = f[AnyOf(S)] + g[R]
    BY <1>1, FoldStep
  <1>5. g[R] = h[R]
    BY <1>1, <1>2, <1>3, FoldsAgree
  <1>. QED BY <1>1, <1>3, <1>4, <1>5

LEMMA SumEmpty == ASSUME NEW f PROVE SumFunctionOnSet(f, {}) = 0
  <1>1. PICK g : IsFold(g, f, {}) /\ SumFunctionOnSet(f, {}) = g[{}]
    BY SumIs, FS_EmptySet
  <1>. QED BY <1>1, FoldStep

LEMMA SumNat ==
  ASSUME NEW f, NEW S, IsFiniteSet(S), \A x \in S : f[x] \in Nat
  PROVE  SumFunctionOnSet(f, S) \in Nat
  <1>. DEFINE B == {T \in SUBSET S : SumFunctionOnSet(f, T) \notin Nat}
  <1>1. SUFFICES ASSUME B # {} PROVE FALSE
    BY DEF B
  <1>2. PICK T \in B : \A U \in B : U \subseteq T => U = T
    <2>1. B \in SUBSET (SUBSET S)
      OBVIOUS
    <2>. HIDE DEF B
    <2>. QED BY <1>1, <2>1, MinimalSubset
  <1>3. T # {} /\ IsFiniteSet(T)
    <2>1. IsFiniteSet(T)
      BY FS_Subset
    <2>2. SumFunctionOnSet(f, T) \notin Nat
      BY <1>2
    <2>3. SumFunctionOnSet(f, {}) = 0
      BY SumEmpty
    <2>. QED BY <2>1, <2>2, <2>3
  <1>4. /\ AnyOf(T) \in T
        /\ SumFunctionOnSet(f, T) = f[AnyOf(T)] + SumFunctionOnSet(f, T \ {AnyOf(T)})
    BY <1>3, SumFirst
  <1>5. SumFunctionOnSet(f, T \ {AnyOf(T)}) \in Nat
    BY <1>2, <1>4
  <1>. QED BY <1>2, <1>4, <1>5

LEMMA SumSame ==
  ASSUME NEW f, NEW e, NEW S, IsFiniteSet(S), \A x \in S : f[x] = e[x]
  PROVE  SumFunctionOnSet(f, S) = SumFunctionOnSet(e, S)
  <1>1. PICK g : IsFold(g, f, S) /\ SumFunctionOnSet(f, S) = g[S]
    BY SumIs
  <1>2. PICK h : IsFold(h, e, S) /\ SumFunctionOnSet(e, S) = h[S]
    BY SumIs
  <1>. QED BY <1>1, <1>2, FoldsAgree

\* Any element can be taken out of a sum, not only the one it takes out first.
LEMMA SumRemove ==
  ASSUME NEW f, NEW S, IsFiniteSet(S), \A x \in S : f[x] \in Nat, NEW y \in S
  PROVE  SumFunctionOnSet(f, S) = f[y] + SumFunctionOnSet(f, S \ {y})
  <1>. DEFINE B == {T \in SUBSET S : \E z \in T :
                      SumFunctionOnSet(f, T) # f[z] + SumFunctionOnSet(f, T \ {z})}
  <1>1. SUFFICES ASSUME B # {} PROVE FALSE
    BY DEF B
  <1>2. PICK T \in B : \A U \in B : U \subseteq T => U = T
    <2>1. B \in SUBSET (SUBSET S)
      OBVIOUS
    <2>. HIDE DEF B
    <2>. QED BY <1>1, <2>1, MinimalSubset
  <1>3. PICK z \in T : SumFunctionOnSet(f, T) # f[z] + SumFunctionOnSet(f, T \ {z})
    BY <1>2
  <1>4. T \in SUBSET S /\ IsFiniteSet(T) /\ IsFiniteSet(T \ {z}) /\ T # {}
    BY <1>2, FS_Subset
  <1>. DEFINE x == AnyOf(T)
  <1>5. x \in T /\ SumFunctionOnSet(f, T) = f[x] + SumFunctionOnSet(f, T \ {x})
    BY <1>4, SumFirst
  <1>6. x # z
    BY <1>3, <1>5
  <1>7. T \ {x} \notin B /\ T \ {z} \notin B
    BY <1>2, <1>3, <1>5
  <1>. DEFINE R == (T \ {x}) \ {z}
  <1>8. R = (T \ {z}) \ {x}
    OBVIOUS
  <1>9. SumFunctionOnSet(f, T \ {x}) = f[z] + SumFunctionOnSet(f, R)
    BY <1>4, <1>5, <1>6, <1>7
  <1>10. SumFunctionOnSet(f, T \ {z}) = f[x] + SumFunctionOnSet(f, R)
    BY <1>4, <1>5, <1>6, <1>7, <1>8
  <1>11. f[x] \in Nat /\ f[z] \in Nat /\ SumFunctionOnSet(f, R) \in Nat
    <2>1. IsFiniteSet(R) /\ R \subseteq S
      BY <1>4, FS_Subset
    <2>. QED BY <1>3, <1>4, <1>5, <2>1, SumNat
  <1>. QED BY <1>3, <1>5, <1>9, <1>10, <1>11

LEMMA SumAdd ==
  ASSUME NEW f, NEW S, IsFiniteSet(S), NEW y, y \notin S, \A x \in S \cup {y} : f[x] \in Nat
  PROVE  SumFunctionOnSet(f, S \cup {y}) = f[y] + SumFunctionOnSet(f, S)
  <1>1. IsFiniteSet(S \cup {y}) /\ (S \cup {y}) \ {y} = S
    BY FS_AddElement
  <1>. QED BY <1>1, SumRemove

\* Leaving terms out makes no sum larger.
LEMMA SumSubset ==
  ASSUME NEW f, NEW S, IsFiniteSet(S), \A x \in S : f[x] \in Nat, NEW T \in SUBSET S
  PROVE  SumFunctionOnSet(f, T) <= SumFunctionOnSet(f, S)
  <1>. DEFINE B == {U \in SUBSET S :
                      T \subseteq U /\ ~(SumFunctionOnSet(f, T) <= SumFunctionOnSet(f, U))}
  <1>1. SUFFICES ASSUME B # {} PROVE FALSE
    BY DEF B
  <1>2. PICK U \in B : \A V \in B : V \subseteq U => V = U
    <2>1. B \in SUBSET (SUBSET S)
      OBVIOUS
    <2>. HIDE DEF B
    <2>. QED BY <1>1, <2>1, MinimalSubset
  <1>3. /\ U \in SUBSET S /\ T \subseteq U /\ IsFiniteSet(U) /\ IsFiniteSet(T)
        /\ ~(SumFunctionOnSet(f, T) <= SumFunctionOnSet(f, U))
    BY <1>2, FS_Subset
  <1>4. SumFunctionOnSet(f, T) \in Nat
    BY <1>3, SumNat
  <1>5. PICK y \in U : y \notin T
    BY <1>3, <1>4
  <1>6. SumFunctionOnSet(f, U) = f[y] + SumFunctionOnSet(f, U \ {y})
    BY <1>3, SumRemove
  <1>7. SumFunctionOnSet(f, T) <= SumFunctionOnSet(f, U \ {y})
    BY <1>2, <1>3, <1>5
  <1>8. f[y] \in Nat /\ SumFunctionOnSet(f, U \ {y}) \in Nat
    <2>1. IsFiniteSet(U \ {y})
      BY <1>3, FS_Subset
    <2>. QED BY <1>3, <2>1, SumNat
  <1>. QED BY <1>3, <1>4, <1>6, <1>7, <1>8

\* A sum of zeros.
LEMMA SumZero ==
  ASSUME NEW f, NEW S, IsFiniteSet(S), \A x \in S : f[x] = 0
  PROVE  SumFunctionOnSet(f, S) = 0
  <1>. DEFINE B == {T \in SUBSET S : SumFunctionOnSet(f, T) # 0}
  <1>1. SUFFICES ASSUME B # {} PROVE FALSE
    BY DEF B
  <1>2. PICK T \in B : \A U \in B : U \subseteq T => U = T
    <2>1. B \in SUBSET (SUBSET S)
      OBVIOUS
    <2>. HIDE DEF B
    <2>. QED BY <1>1, <2>1, MinimalSubset
  <1>3. T \in SUBSET S /\ IsFiniteSet(T) /\ T # {} /\ SumFunctionOnSet(f, T) # 0
    BY <1>2, FS_Subset, SumEmpty
  <1>4. /\ AnyOf(T) \in T
        /\ SumFunctionOnSet(f, T) = f[AnyOf(T)] + SumFunctionOnSet(f, T \ {AnyOf(T)})
    BY <1>3, SumFirst
  <1>5. SumFunctionOnSet(f, T \ {AnyOf(T)}) = 0
    BY <1>2, <1>3, <1>4
  <1>. QED BY <1>3, <1>4, <1>5

\* Terms that are those of other things, one to one, add up to no more than these.
LEMMA SumInjective ==
  ASSUME NEW f, NEW S, IsFiniteSet(S), NEW e, NEW T, IsFiniteSet(T),
         \A y \in T : e[y] \in Nat,
         NEW m, \A x \in S : m[x] \in T /\ f[x] = e[m[x]],
         \A x \in S, y \in S : m[x] = m[y] => x = y
  PROVE  SumFunctionOnSet(f, S) <= SumFunctionOnSet(e, T)
  <1>. DEFINE Img(U) == {m[x] : x \in U}
  <1>0. \A x \in S : f[x] \in Nat
    OBVIOUS
  <1>1. SumFunctionOnSet(f, S) = SumFunctionOnSet(e, Img(S))
    <2>. DEFINE B == {U \in SUBSET S : SumFunctionOnSet(f, U) # SumFunctionOnSet(e, Img(U))}
    <2>1. SUFFICES ASSUME B # {} PROVE FALSE
      BY DEF B
    <2>2. PICK U \in B : \A V \in B : V \subseteq U => V = U
      <3>1. B \in SUBSET (SUBSET S)
        OBVIOUS
      <3>. HIDE DEF B
      <3>. QED BY <2>1, <3>1, MinimalSubset
    <2>3. IsFiniteSet(U) /\ U \in SUBSET S
      BY FS_Subset
    <2>4. U # {}
      <3>1. Img({}) = {}
        OBVIOUS
      <3>2. SumFunctionOnSet(f, {}) = SumFunctionOnSet(e, Img({}))
        BY <3>1, SumEmpty
      <3>. QED BY <2>2, <3>2
    <2>5. PICK x : x \in U
      BY <2>4
    <2>6. SumFunctionOnSet(f, U) = f[x] + SumFunctionOnSet(f, U \ {x})
      BY <1>0, <2>3, <2>5, SumRemove
    <2>7. SumFunctionOnSet(f, U \ {x}) = SumFunctionOnSet(e, Img(U \ {x}))
      BY <2>2, <2>5
    <2>8. Img(U) = Img(U \ {x}) \cup {m[x]} /\ m[x] \notin Img(U \ {x}) /\ Img(U) \subseteq T
      BY <2>3, <2>5
    <2>9. IsFiniteSet(Img(U \ {x})) /\ \A y \in Img(U \ {x}) \cup {m[x]} : e[y] \in Nat
      <3>. DEFINE R == Img(U \ {x})
      <3>1. R \subseteq T
        BY <2>8
      <3>2. IsFiniteSet(R)
        <4>. HIDE DEF R
        <4>. QED BY <3>1, FS_Subset
      <3>. QED BY <2>8, <3>2
    <2>10. SumFunctionOnSet(e, Img(U \ {x}) \cup {m[x]}) = e[m[x]] + SumFunctionOnSet(e, Img(U \ {x}))
      <3>. DEFINE R == Img(U \ {x})
      <3>1. m[x] \notin R /\ IsFiniteSet(R) /\ \A y \in R \cup {m[x]} : e[y] \in Nat
        BY <2>8, <2>9
      <3>. HIDE DEF R
      <3>2. SumFunctionOnSet(e, R \cup {m[x]}) = e[m[x]] + SumFunctionOnSet(e, R)
        BY <3>1, SumAdd
      <3>. QED BY <3>2 DEF R
    <2>11. f[x] = e[m[x]]
      BY <2>3, <2>5
    <2>12. SumFunctionOnSet(f, U) = SumFunctionOnSet(e, Img(U))
      BY <2>6, <2>7, <2>8, <2>10, <2>11
    <2>. QED BY <2>2, <2>12
  <1>2. Img(S) \subseteq T
    OBVIOUS
  <1>. HIDE DEF Img
  <1>3. SumFunctionOnSet(e, Img(S)) <= SumFunctionOnSet(e, T)
    BY <1>2, SumSubset
  <1>. QED BY <1>1, <1>3
-----------------------------------------------------------------------------
(***************************************************************************)
(* Folds of another kind (FoldLeft of SequencesExt and what it is made of):*)
(* the step is a function of the element and of what the fold has reached, *)
(* the next element is whichever  pick  takes.                             *)
(***************************************************************************)
IsIter(g, step, base, pick, S) ==
  g = [s \in SUBSET S |-> IF s = {} THEN base ELSE step[<<pick[s], g[s \ {pick[s]}]>>]]

Picks(pick, S) == \A s \in SUBSET S : s # {} => pick[s] \in s

LEMMA IterStep ==
  ASSUME NEW g, NEW step, NEW base, NEW pick, NEW S, IsIter(g, step, base, pick, S)
  PROVE  \A s \in SUBSET S :
           /\ s = {} => g[s] = base
           /\ s # {} => g[s] = step[<<pick[s], g[s \ {pick[s]}]>>]
  BY DEF IsIter

LEMMA IterEmpty ==
  ASSUME NEW g, NEW step, NEW base, NEW pick, NEW S, IsIter(g, step, base, pick, S)
  PROVE  g[{}] = base
  BY DEF IsIter

\* What every step keeps, the fold keeps.
LEMMA FoldKeeps ==
  ASSUME NEW g, NEW S, IsFiniteSet(S), NEW T, NEW pick, Picks(pick, S), g[{}] \in T,
         \A s \in SUBSET S : (s # {} /\ g[s \ {pick[s]}] \in T) => g[s] \in T
  PROVE  \A s \in SUBSET S : g[s] \in T
  <1>. DEFINE B == {s \in SUBSET S : g[s] \notin T}
  <1>1. SUFFICES ASSUME B # {} PROVE FALSE
    BY DEF B
  <1>2. PICK s \in B : \A v \in B : v \subseteq s => v = s
    <2>1. B \in SUBSET (SUBSET S)
      OBVIOUS
    <2>. HIDE DEF B
    <2>. QED BY <1>1, <2>1, MinimalSubset
  <1>3. s \in SUBSET S /\ g[s] \notin T /\ s # {}
    BY <1>2
  <1>. DEFINE v == s \ {pick[s]}
  <1>4. v \in SUBSET S /\ v # s /\ v \subseteq s
    BY <1>3 DEF Picks
  <1>5. g[v] \in T
    BY <1>2, <1>4
  <1>. QED BY <1>3, <1>5

LEMMA IterTyped ==
  ASSUME NEW g, NEW S, IsFiniteSet(S), NEW T, NEW base \in T, NEW step \in [S \X T -> T],
         NEW pick, Picks(pick, S), IsIter(g, step, base, pick, S)
  PROVE  \A s \in SUBSET S : g[s] \in T
  <1>1. g[{}] \in T
    BY IterEmpty
  <1>2. ASSUME NEW s \in SUBSET S, s # {}, g[s \ {pick[s]}] \in T
        PROVE  g[s] \in T
    <2>1. g[s] = step[<<pick[s], g[s \ {pick[s]}]>>]
      BY <1>2, IterStep
    <2>2. <<pick[s], g[s \ {pick[s]}]>> \in S \X T
      BY <1>2 DEF Picks
    <2>. QED BY <2>1, <2>2
  <1>. QED BY <1>1, <1>2, FoldKeeps

LEMMA ItersAgree ==
  ASSUME NEW step, NEW base, NEW pick, NEW S, IsFiniteSet(S), Picks(pick, S), NEW U, NEW g, NEW h,
         IsIter(g, step, base, pick, S), IsIter(h, step, base, pick, U),
         NEW s \in SUBSET S, s \in SUBSET U
  PROVE  g[s] = h[s]
  <1>. DEFINE B == {u \in SUBSET s : g[u] # h[u]}
  <1>1. SUFFICES ASSUME B # {} PROVE FALSE
    BY DEF B
  <1>2. PICK u \in B : \A v \in B : v \subseteq u => v = u
    <2>1. IsFiniteSet(s) /\ B \in SUBSET (SUBSET s)
      BY FS_Subset
    <2>. HIDE DEF B
    <2>. QED BY <1>1, <2>1, MinimalSubset
  <1>3. u \in SUBSET S /\ u \in SUBSET U /\ u \in SUBSET s /\ g[u] # h[u]
    BY <1>2
  <1>4. u # {}
    <2>1. g[{}] = base /\ h[{}] = base
      BY IterEmpty
    <2>. QED BY <1>3, <2>1
  <1>. DEFINE x == pick[u]  v == u \ {x}
  <1>5. x \in u /\ v \in SUBSET s /\ v # u /\ v \subseteq u
    BY <1>3, <1>4 DEF Picks
  <1>6. g[v] = h[v]
    BY <1>2, <1>5
  <1>7. g[u] = step[<<x, g[v]>>] /\ h[u] = step[<<x, h[v]>>]
    BY <1>3, <1>4, IterStep
  <1>. QED BY <1>3, <1>6, <1>7

LEMMA IterExists ==
  ASSUME NEW step, NEW base, NEW S, IsFiniteSet(S), NEW pick, Picks(pick, S)
  PROVE  \E g : IsIter(g, step, base, pick, S)
  <1>. DEFINE B == {U \in SUBSET S : ~ \E g : IsIter(g, step, base, pick, U)}
  <1>1. SUFFICES ASSUME B # {} PROVE FALSE
    BY DEF B
  <1>2. PICK T \in B : \A U \in B : U \subseteq T => U = T
    <2>1. B \in SUBSET (SUBSET S)
      OBVIOUS
    <2>. HIDE DEF B
    <2>. QED BY <1>1, <2>1, MinimalSubset
  <1>3. T \in SUBSET S /\ ~ \E g : IsIter(g, step, base, pick, T)
    BY <1>2
  <1>4. \A U \in SUBSET T : U # T => \E g : IsIter(g, step, base, pick, U)
    BY <1>2
  <1>. HIDE DEF B
  <1>. DEFINE F == [U \in SUBSET T |-> CHOOSE g : IsIter(g, step, base, pick, U)]
              G == [s \in SUBSET T |-> IF s = {} THEN base
                                       ELSE step[<<pick[s], F[s \ {pick[s]}][s \ {pick[s]}]>>]]
  <1>5. ASSUME NEW s \in SUBSET T, s # T
        PROVE  IsIter(F[s], step, base, pick, s)
    BY <1>4, <1>5
  <1>6. ASSUME NEW s \in SUBSET T, s # T
        PROVE  F[s][s] = G[s]
    <2>0. IsIter(F[s], step, base, pick, s) /\ s \in SUBSET s
      BY <1>5, <1>6
    <2>1. CASE s = {}
      <3>1. F[s][s] = base
        <4>. HIDE DEF F
        <4>1. F[s][{}] = base
          BY <2>0, IterEmpty
        <4>. QED BY <2>1, <4>1
      <3>. QED BY <2>1, <3>1
    <2>2. CASE s # {}
      <3>. DEFINE v == s \ {pick[s]}
      <3>1. pick[s] \in s /\ v \in SUBSET s /\ v \in SUBSET T /\ v # T /\ v \in SUBSET v
        BY <1>3, <2>2 DEF Picks
      <3>2. F[s][s] = step[<<pick[s], F[s][v]>>]
        <4>. HIDE DEF F
        <4>. QED BY <2>0, <2>2, IterStep
      <3>3. IsFiniteSet(s) /\ Picks(pick, s)
        BY <1>3, FS_Subset DEF Picks
      <3>4. F[s][v] = F[v][v]
        <4>1. IsIter(F[s], step, base, pick, s) /\ IsIter(F[v], step, base, pick, v)
          BY <1>5, <1>6, <3>1
        <4>. DEFINE g == F[s]  h == F[v]
        <4>2. IsIter(g, step, base, pick, s) /\ IsIter(h, step, base, pick, v)
          BY <4>1
        <4>. HIDE DEF F, v, g, h
        <4>3. g[v] = h[v]
          BY <3>1, <3>3, <4>2, ItersAgree
        <4>. QED BY <4>3 DEF g, h
      <3>5. G[s] = step[<<pick[s], F[v][v]>>]
        <4>. HIDE DEF F
        <4>. QED BY <2>2 DEF G
      <3>. HIDE DEF G, F, v
      <3>. QED BY <3>2, <3>4, <3>5
    <2>. QED BY <2>1, <2>2
  <1>7. ASSUME NEW s \in SUBSET T, s # {}
        PROVE  G[s] = step[<<pick[s], G[s \ {pick[s]}]>>]
    <2>1. pick[s] \in s
      BY <1>3, <1>7 DEF Picks
    <2>2. F[s \ {pick[s]}][s \ {pick[s]}] = G[s \ {pick[s]}]
      BY <2>1, <1>6
    <2>. QED BY <1>7, <2>2 DEF G
  <1>8. IsIter(G, step, base, pick, T)
    <2>1. \A s \in SUBSET T : s = {} => G[s] = base
      BY DEF G
    <2>2. G = [s \in SUBSET T |-> G[s]]
      OBVIOUS
    <2>. HIDE DEF G
    <2>3. \A s \in SUBSET T :
            G[s] = IF s = {} THEN base ELSE step[<<pick[s], G[s \ {pick[s]}]>>]
      BY <1>7, <2>1
    <2>4. [s \in SUBSET T |-> G[s]]
            = [s \in SUBSET T |-> IF s = {} THEN base ELSE step[<<pick[s], G[s \ {pick[s]}]>>]]
      BY <2>3
    <2>. QED BY <2>2, <2>4 DEF IsIter
  <1>. QED BY <1>3, <1>8

\* FoldLeft takes the last position first: there is one.
LastOf(s) == CHOOSE x \in s : \A y \in s : x >= y

LEMMA LastExists ==
  ASSUME NEW n \in Nat, NEW s \in SUBSET (1..n), s # {}
  PROVE  LastOf(s) \in s
  <1>. DEFINE R == {n - x : x \in s}
  <1>1. R \subseteq Nat /\ R # {}
    <2>1. \A x \in s : x \in 1..n /\ n - x \in Nat
      OBVIOUS
    <2>2. R \subseteq Nat
      BY <2>1
    <2>3. PICK x : x \in s
      OBVIOUS
    <2>4. n - x \in R
      BY <2>3
    <2>. QED BY <2>2, <2>4
  <1>2. PICK d \in R : \A e \in R : ~(<<e, d>> \in OpToRel(<, Nat))
    <2>. HIDE DEF R
    <2>. QED BY <1>1, NatLessThanWellFounded, WFMin
  <1>3. \A e \in R : ~(e < d)
    BY <1>1, <1>2 DEF OpToRel
  <1>4. PICK x \in s : d = n - x
    OBVIOUS
  <1>5. \A y \in s : x >= y
    <2>1. ASSUME NEW y \in s
          PROVE  x >= y
      <3>1. ~(n - y < n - x)
        BY <1>3, <1>4
      <3>. QED BY <3>1
    <2>. QED BY <2>1
  <1>. QED BY <1>4, <1>5 DEF LastOf
=============================================================================
