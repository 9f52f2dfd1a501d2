---------------------------- MODULE SumTheorems ----------------------------
(***************************************************************************)
(* Facts about SumFunctionOnSet(f, S), the sum of f[x] over the finite set *)
(* S, which the ledgers of this project are written with: the escrow of    *)
(* every task, the slots of every shard, the weights of a cap table.       *)
(*                                                                         *)
(* The operator is a fold, hence a recursive function on SUBSET S.  The    *)
(* induction it needs is stated over a SET of subsets (FiniteInduction)    *)
(* instead of a predicate, so that each use supplies a set comprehension.  *)
(***************************************************************************)
EXTENDS Functions, FiniteSets, Integers, FiniteSetTheorems,
        WellFoundedInduction, TLAPS

(***************************************************************************)
(* Induction on a finite set: a collection G that contains {} and contains *)
(* T whenever it contains T without any one of its elements contains S.    *)
(***************************************************************************)
LEMMA FiniteInduction ==
  ASSUME NEW S, IsFiniteSet(S), NEW G, {} \in G,
         \A T \in SUBSET S : (T # {} /\ \A x \in T : T \ {x} \in G) => T \in G
  PROVE  S \in G
<1> DEFINE Bad == {T \in SUBSET S : T \notin G}
<1> SUFFICES ASSUME S \notin G PROVE FALSE
  OBVIOUS
<1>1. Bad # {} /\ Bad \subseteq FiniteSubsetsOf(S)
  BY FS_Subset DEF FiniteSubsetsOf
<1>2. PICK T \in Bad : \A U \in Bad : ~ (<<U, T>> \in StrictSubsetOrdering(S))
  <2> HIDE DEF Bad
  <2> QED BY <1>1, FS_StrictSubsetOrderingWellFounded, WFMin
<1>3. ASSUME NEW x \in T PROVE T \ {x} \in G
  <2>1. /\ T \ {x} \in SUBSET S
        /\ T \ {x} \subseteq T
        /\ T \ {x} # T
    OBVIOUS
  <2>2. <<T \ {x}, T>> \in StrictSubsetOrdering(S)
    BY <2>1 DEF StrictSubsetOrdering
  <2> QED BY <1>2, <2>1, <2>2
<1> QED BY <1>2, <1>3

Pick(s) == CHOOSE x \in s : TRUE

(* One unfolding of the fold, for a candidate g on the subsets of S.       *)
IsFold(g, f, S) ==
  g = [s \in SUBSET S |-> IF s = {} THEN 0 ELSE f[Pick(s)] + g[s \ {Pick(s)}]]

LEMMA SumIsFold ==
  ASSUME NEW S, NEW f
  PROVE  SumFunctionOnSet(f, S) = (CHOOSE g : IsFold(g, f, S))[S]
BY Zenon DEF SumFunctionOnSet, FoldFunctionOnSet, MapThenFoldSet, IsFold, Pick

LEMMA PickIn == ASSUME NEW s, s # {} PROVE Pick(s) \in s
BY DEF Pick

(* Some function picks, for each x of D, one of the values M relates it to. *)
LEMMA ChoiceFunction ==
  ASSUME NEW D, NEW V, NEW M, \A x \in D : \E v \in V : <<x, v>> \in M
  PROVE  \E h \in [D -> V] : \A x \in D : <<x, h[x]>> \in M
<1> DEFINE h == [x \in D |-> CHOOSE v \in V : <<x, v>> \in M]
<1>1. h \in [D -> V] /\ \A x \in D : <<x, h[x]>> \in M
  OBVIOUS
<1> QED BY <1>1

(* A relation closed under one unfolding and functional gives a fold.       *)
LEMMA RelationGivesFold ==
  ASSUME NEW S, NEW f, \A x \in S : f[x] \in Int,
         NEW M, <<{}, 0>> \in M,
         \A s \in SUBSET S, v \in Int :
            (s # {} /\ <<s \ {Pick(s)}, v>> \in M) => <<s, f[Pick(s)] + v>> \in M,
         \A T \in SUBSET S : \E v \in Int :
            /\ <<T, v>> \in M
            /\ \A w \in Int : <<T, w>> \in M => w = v
  PROVE  \E g : IsFold(g, f, S)
<1>1. PICK g \in [SUBSET S -> Int] : \A T \in SUBSET S : <<T, g[T]>> \in M
  BY ChoiceFunction
<1>2. \A T \in SUBSET S : \A w \in Int : <<T, w>> \in M => w = g[T]
  BY <1>1
<1>3. g[{}] = 0
  <2>1. {} \in SUBSET S /\ 0 \in Int
    OBVIOUS
  <2> QED BY <1>2, <2>1, Zenon
<1>4. ASSUME NEW T \in SUBSET S, T # {}
      PROVE  g[T] = f[Pick(T)] + g[T \ {Pick(T)}]
  <2>1. Pick(T) \in S /\ T \ {Pick(T)} \in SUBSET S
    BY <1>4, PickIn
  <2>2. g[T \ {Pick(T)}] \in Int /\ <<T \ {Pick(T)}, g[T \ {Pick(T)}]>> \in M
    BY <1>1, <2>1
  <2>3. <<T, f[Pick(T)] + g[T \ {Pick(T)}]>> \in M
    BY <1>4, <2>2
  <2>4. f[Pick(T)] + g[T \ {Pick(T)}] \in Int
    BY <2>1, <2>2
  <2> QED BY <1>2, <2>3, <2>4, Zenon
<1>5. g = [T \in SUBSET S |-> g[T]]
  BY <1>1
<1>6. \A T \in SUBSET S : g[T] = IF T = {} THEN 0 ELSE f[Pick(T)] + g[T \ {Pick(T)}]
  BY ONLY <1>3, <1>4
<1>7. g = [T \in SUBSET S |-> IF T = {} THEN 0 ELSE f[Pick(T)] + g[T \ {Pick(T)}]]
  BY ONLY <1>5, <1>6
<1> QED BY <1>7, Zenon DEF IsFold

(***************************************************************************)
(* A fold exists for every f from a superset of S into Int: it is the      *)
(* least relation closed under one unfolding, which is a function.         *)
(***************************************************************************)
LEMMA FoldExists ==
  ASSUME NEW S, IsFiniteSet(S), NEW f, \A x \in S : f[x] \in Int
  PROVE  \E g : IsFold(g, f, S)
<1> DEFINE P == (SUBSET S) \X Int
           Closed(R) == /\ <<{}, 0>> \in R
                        /\ \A s \in SUBSET S, v \in Int :
                             (s # {} /\ <<s \ {Pick(s)}, v>> \in R)
                                => <<s, f[Pick(s)] + v>> \in R
           M == {p \in P : \A R \in SUBSET P : Closed(R) => p \in R}
           G == {T \in SUBSET S : \E v \in Int : /\ <<T, v>> \in M
                                                 /\ \A w \in Int : <<T, w>> \in M => w = v}
<1>1. Closed(M)
  <2>1. <<{}, 0>> \in M
    OBVIOUS
  <2>2. ASSUME NEW s \in SUBSET S, NEW v \in Int, s # {}, <<s \ {Pick(s)}, v>> \in M
        PROVE  <<s, f[Pick(s)] + v>> \in M
    <3>1. Pick(s) \in S
      BY <2>2, PickIn
    <3>2. <<s, f[Pick(s)] + v>> \in P
      BY <3>1
    <3>3. ASSUME NEW R \in SUBSET P, Closed(R)
          PROVE  <<s, f[Pick(s)] + v>> \in R
      <4>1. <<s \ {Pick(s)}, v>> \in R
        BY <2>2, <3>3
      <4> QED BY <2>2, <3>3, <4>1
    <3> HIDE DEF P, Closed
    <3> QED BY <3>2, <3>3
  <2> HIDE DEF M
  <2> QED BY <2>1, <2>2
<1>2. {} \in G
  <2>1. ASSUME NEW w \in Int, <<{}, w>> \in M PROVE w = 0
    <3> SUFFICES ASSUME w # 0 PROVE FALSE
      OBVIOUS
    <3> DEFINE R == M \ {<<{}, w>>}
    <3>1. R \in SUBSET P
      OBVIOUS
    <3>2. Closed(R)
      <4> HIDE DEF M
      <4> QED BY <1>1
    <3>3. <<{}, w>> \in R
      <4>1. \A p \in M : \A Q \in SUBSET P : Closed(Q) => p \in Q
        OBVIOUS
      <4> HIDE DEF R, M, P, Closed
      <4> QED BY <2>1, <3>1, <3>2, <4>1
    <3> HIDE DEF M
    <3> QED BY <3>3
  <2> QED BY <1>1, <2>1
<1>3. ASSUME NEW T \in SUBSET S, T # {}, \A x \in T : T \ {x} \in G
      PROVE  T \in G
  <2>1. T \ {Pick(T)} \in G /\ Pick(T) \in S
    BY <1>3, PickIn
  <2>2. PICK v \in Int : /\ <<T \ {Pick(T)}, v>> \in M
                         /\ \A w \in Int : <<T \ {Pick(T)}, w>> \in M => w = v
    <3> HIDE DEF M
    <3> QED BY <2>1
  <2>3. <<T, f[Pick(T)] + v>> \in M /\ f[Pick(T)] + v \in Int
    <3> HIDE DEF M, P
    <3> QED BY <1>1, <1>3, <2>1, <2>2
  <2>4. ASSUME NEW w \in Int, <<T, w>> \in M PROVE w = f[Pick(T)] + v
    <3> SUFFICES ASSUME w # f[Pick(T)] + v PROVE FALSE
      OBVIOUS
    <3> DEFINE R == M \ {<<T, w>>}
    <3>1. R \in SUBSET P
      OBVIOUS
    <3>2. Closed(R)
      <4>1. <<{}, 0>> \in R
        <5> HIDE DEF M
        <5> QED BY <1>1, <1>3
      <4>2. ASSUME NEW s \in SUBSET S, NEW u \in Int, s # {}, <<s \ {Pick(s)}, u>> \in R
            PROVE  <<s, f[Pick(s)] + u>> \in R
        <5>1. <<s, f[Pick(s)] + u>> \in M
          <6> HIDE DEF M
          <6> QED BY <1>1, <4>2
        <5>2. CASE s = T
          <6>1. u = v
            <7> HIDE DEF M
            <7> QED BY <2>2, <4>2, <5>2
          <6> HIDE DEF M
          <6> QED BY <5>1, <5>2, <6>1
        <5>3. CASE s # T
          <6> HIDE DEF M
          <6> QED BY <5>1, <5>3
        <5> QED BY <5>2, <5>3
      <4> HIDE DEF R
      <4> QED BY <4>1, <4>2
    <3>3. <<T, w>> \in R
      <4>1. \A p \in M : \A Q \in SUBSET P : Closed(Q) => p \in Q
        OBVIOUS
      <4> HIDE DEF R, M, P, Closed
      <4> QED BY <2>4, <3>1, <3>2, <4>1
    <3> HIDE DEF M
    <3> QED BY <3>3
  <2> HIDE DEF M
  <2> QED BY <2>3, <2>4
<1>4. ASSUME NEW T \in SUBSET S PROVE T \in G
  <2>1. IsFiniteSet(T) /\ SUBSET T \subseteq SUBSET S
    BY FS_Subset
  <2> HIDE DEF G
  <2> QED BY <1>2, <1>3, <2>1, FiniteInduction
<1>5. \A T \in SUBSET S : \E v \in Int :
        /\ <<T, v>> \in M
        /\ \A w \in Int : <<T, w>> \in M => w = v
  <2> HIDE DEF M
  <2> QED BY <1>4
<1>6. <<{}, 0>> \in M
  BY <1>1
<1>7. \A s \in SUBSET S, v \in Int :
        (s # {} /\ <<s \ {Pick(s)}, v>> \in M) => <<s, f[Pick(s)] + v>> \in M
  <2> HIDE DEF M
  <2> QED BY <1>1
<1> HIDE DEF M
<1> QED BY <1>5, <1>6, <1>7, RelationGivesFold

(* Two folds of f agree on every set both are defined on.                  *)
LEMMA FoldUnique ==
  ASSUME NEW S, IsFiniteSet(S), NEW f, NEW g, IsFold(g, f, S),
         NEW T \in SUBSET S, NEW h, IsFold(h, f, T)
  PROVE  g[T] = h[T]
<1> DEFINE G == {U \in SUBSET T : g[U] = h[U]}
<1>1. {} \in G
  BY DEF IsFold
<1>2. ASSUME NEW U \in SUBSET T, U # {}, \A x \in U : U \ {x} \in G
      PROVE  U \in G
  <2>1. Pick(U) \in U
    BY <1>2, PickIn
  <2>2. g[U \ {Pick(U)}] = h[U \ {Pick(U)}]
    BY <1>2, <2>1
  <2>3. g[U] = f[Pick(U)] + g[U \ {Pick(U)}]
    BY <1>2 DEF IsFold
  <2>4. h[U] = f[Pick(U)] + h[U \ {Pick(U)}]
    BY <1>2 DEF IsFold
  <2> QED BY <2>2, <2>3, <2>4
<1>3. IsFiniteSet(T)
  BY FS_Subset
<1>4. T \in G
  <2> HIDE DEF G
  <2> QED BY ONLY <1>1, <1>2, <1>3, FiniteInduction, Zenon
<1> QED BY <1>4

LEMMA SumEmpty == ASSUME NEW f PROVE SumFunctionOnSet(f, {}) = 0
<1>1. \E g : IsFold(g, f, {})
  BY FoldExists, FS_EmptySet
<1>2. IsFold(CHOOSE g : IsFold(g, f, {}), f, {})
  BY <1>1, Zenon
<1> QED BY <1>2, SumIsFold DEF IsFold

(* The fold's own step: it adds the element it picks last.                 *)
LEMMA SumStep ==
  ASSUME NEW S, IsFiniteSet(S), S # {}, NEW f, \A x \in S : f[x] \in Int
  PROVE  SumFunctionOnSet(f, S) = f[Pick(S)] + SumFunctionOnSet(f, S \ {Pick(S)})
<1>1. PICK T \in SUBSET S : T = S \ {Pick(S)} /\ IsFiniteSet(T)
  <2>1. S \ {Pick(S)} \in SUBSET S /\ IsFiniteSet(S \ {Pick(S)})
    BY FS_Subset
  <2> QED BY <2>1
<1>2. PICK g : g = (CHOOSE k : IsFold(k, f, S)) /\ IsFold(g, f, S)
  BY FoldExists, Zenon
<1>3. PICK h : h = (CHOOSE k : IsFold(k, f, T)) /\ IsFold(h, f, T)
  <2>1. \E k : IsFold(k, f, T)
    BY <1>1, FoldExists
  <2> QED BY <2>1, Zenon
<1>4. g[T] = h[T]
  <2>1. IsFold(g, f, S) /\ IsFold(h, f, T)
    BY <1>2, <1>3
  <2> QED BY <2>1, FoldUnique
<1>5. g[S] = f[Pick(S)] + g[T]
  BY <1>1, <1>2 DEF IsFold
<1>6. SumFunctionOnSet(f, S) = g[S]
  BY <1>2, SumIsFold
<1>7. SumFunctionOnSet(f, T) = h[T]
  BY <1>3, SumIsFold
<1> QED BY <1>1, <1>4, <1>5, <1>6, <1>7

LEMMA SumInt ==
  ASSUME NEW S, IsFiniteSet(S), NEW f, \A x \in S : f[x] \in Int
  PROVE  SumFunctionOnSet(f, S) \in Int
<1> DEFINE G == {T \in SUBSET S : SumFunctionOnSet(f, T) \in Int}
<1>1. {} \in G
  BY SumEmpty
<1>2. ASSUME NEW T \in SUBSET S, T # {}, \A x \in T : T \ {x} \in G
      PROVE  T \in G
  <2>1. IsFiniteSet(T) /\ Pick(T) \in T
    BY <1>2, FS_Subset, PickIn
  <2>2. SumFunctionOnSet(f, T) = f[Pick(T)] + SumFunctionOnSet(f, T \ {Pick(T)})
    BY <1>2, <2>1, SumStep
  <2>3. SumFunctionOnSet(f, T \ {Pick(T)}) \in Int /\ f[Pick(T)] \in Int
    BY <1>2, <2>1
  <2> QED BY <2>2, <2>3
<1>3. S \in G
  <2> HIDE DEF G
  <2> QED BY <1>1, <1>2, FiniteInduction, Zenon
<1> QED BY <1>3

(***************************************************************************)
(* The sum over S is any one element's value plus the sum over the rest.   *)
(***************************************************************************)
LEMMA SumRemove ==
  ASSUME NEW S, IsFiniteSet(S), NEW f, \A y \in S : f[y] \in Int, NEW x \in S
  PROVE  SumFunctionOnSet(f, S) = f[x] + SumFunctionOnSet(f, S \ {x})
<1> DEFINE Splits(T, y) == SumFunctionOnSet(f, T) = f[y] + SumFunctionOnSet(f, T \ {y})
           G == {T \in SUBSET S : \A y \in T : Splits(T, y)}
<1>1. {} \in G
  OBVIOUS
<1>2. ASSUME NEW T \in SUBSET S, T # {}, \A y \in T : T \ {y} \in G
      PROVE  T \in G
  <2> DEFINE p == Pick(T)
  <2>1. IsFiniteSet(T) /\ p \in T
    BY <1>2, FS_Subset, PickIn
  <2>2. Splits(T, p)
    BY <1>2, <2>1, SumStep
  <2>3. ASSUME NEW y \in T PROVE Splits(T, y)
    <3>1. CASE y = p
      BY <2>2, <3>1
    <3>2. CASE y # p
      <4>1. SumFunctionOnSet(f, T \ {p}) = f[y] + SumFunctionOnSet(f, (T \ {p}) \ {y})
        BY <1>2, <2>1, <3>2
      <4>2. SumFunctionOnSet(f, T \ {y}) = f[p] + SumFunctionOnSet(f, (T \ {y}) \ {p})
        BY <1>2, <2>1, <3>2
      <4>3. SumFunctionOnSet(f, (T \ {p}) \ {y}) = SumFunctionOnSet(f, (T \ {y}) \ {p})
        <5>1. (T \ {p}) \ {y} = (T \ {y}) \ {p}
          OBVIOUS
        <5> QED BY <5>1
      <4>4. /\ f[p] \in Int /\ f[y] \in Int
            /\ SumFunctionOnSet(f, (T \ {y}) \ {p}) \in Int
        <5>1. IsFiniteSet((T \ {y}) \ {p}) /\ (T \ {y}) \ {p} \in SUBSET S
          BY <2>1, FS_Subset
        <5> QED BY <2>1, <5>1, SumInt
      <4>5. SumFunctionOnSet(f, T) = f[p] + SumFunctionOnSet(f, T \ {p})
        BY <2>2
      <4>6. SumFunctionOnSet(f, T) = f[y] + SumFunctionOnSet(f, T \ {y})
        <5> HIDE DEF p
        <5> QED BY ONLY <4>1, <4>2, <4>3, <4>4, <4>5
      <4> QED BY <4>6
    <3> QED BY <3>1, <3>2
  <2> QED BY <2>3
<1>3. S \in G
  <2> HIDE DEF G
  <2> QED BY <1>1, <1>2, FiniteInduction, Zenon
<1> QED BY <1>3

(* Functions that agree on S have the same sum over S.                     *)
LEMMA SumSame ==
  ASSUME NEW S, IsFiniteSet(S), NEW f, NEW g,
         \A x \in S : f[x] \in Int /\ g[x] = f[x]
  PROVE  SumFunctionOnSet(g, S) = SumFunctionOnSet(f, S)
<1> DEFINE G == {T \in SUBSET S : SumFunctionOnSet(g, T) = SumFunctionOnSet(f, T)}
<1>1. {} \in G
  BY SumEmpty
<1>2. ASSUME NEW T \in SUBSET S, T # {}, \A x \in T : T \ {x} \in G
      PROVE  T \in G
  <2>1. IsFiniteSet(T) /\ Pick(T) \in T
    BY <1>2, FS_Subset, PickIn
  <2>2. SumFunctionOnSet(f, T) = f[Pick(T)] + SumFunctionOnSet(f, T \ {Pick(T)})
    BY <1>2, <2>1, SumStep
  <2>3. SumFunctionOnSet(g, T) = g[Pick(T)] + SumFunctionOnSet(g, T \ {Pick(T)})
    BY <1>2, <2>1, SumStep
  <2> QED BY <1>2, <2>1, <2>2, <2>3
<1>3. S \in G
  <2> HIDE DEF G
  <2> QED BY <1>1, <1>2, FiniteInduction, Zenon
<1> QED BY <1>3

(* Changing the value at one element changes the sum by the difference.    *)
LEMMA SumChange ==
  ASSUME NEW S, IsFiniteSet(S), NEW f, NEW g, NEW x \in S,
         \A y \in S : f[y] \in Int /\ g[y] \in Int,
         \A y \in S \ {x} : g[y] = f[y]
  PROVE  SumFunctionOnSet(g, S) = SumFunctionOnSet(f, S) + (g[x] - f[x])
<1>1. IsFiniteSet(S \ {x})
  BY FS_Subset
<1>2. SumFunctionOnSet(g, S \ {x}) = SumFunctionOnSet(f, S \ {x})
  BY <1>1, SumSame
<1>3. SumFunctionOnSet(f, S) = f[x] + SumFunctionOnSet(f, S \ {x})
  BY SumRemove
<1>4. SumFunctionOnSet(g, S) = g[x] + SumFunctionOnSet(g, S \ {x})
  BY SumRemove
<1>5. SumFunctionOnSet(f, S \ {x}) \in Int
  BY <1>1, SumInt
<1> QED BY <1>2, <1>3, <1>4, <1>5

(* A pointwise bound bounds the sum, and a strict one anywhere is strict.  *)
LEMMA SumMonotone ==
  ASSUME NEW S, IsFiniteSet(S), NEW f, NEW g,
         \A x \in S : f[x] \in Int /\ g[x] \in Int /\ f[x] <= g[x]
  PROVE  SumFunctionOnSet(f, S) <= SumFunctionOnSet(g, S)
<1> DEFINE G == {T \in SUBSET S : SumFunctionOnSet(f, T) <= SumFunctionOnSet(g, T)}
<1>1. {} \in G
  BY SumEmpty
<1>2. ASSUME NEW T \in SUBSET S, T # {}, \A x \in T : T \ {x} \in G
      PROVE  T \in G
  <2>1. IsFiniteSet(T) /\ Pick(T) \in T
    BY <1>2, FS_Subset, PickIn
  <2>2. SumFunctionOnSet(f, T) = f[Pick(T)] + SumFunctionOnSet(f, T \ {Pick(T)})
    BY <1>2, <2>1, SumStep
  <2>3. SumFunctionOnSet(g, T) = g[Pick(T)] + SumFunctionOnSet(g, T \ {Pick(T)})
    BY <1>2, <2>1, SumStep
  <2>4. /\ SumFunctionOnSet(f, T \ {Pick(T)}) \in Int
        /\ SumFunctionOnSet(g, T \ {Pick(T)}) \in Int
    <3>1. IsFiniteSet(T \ {Pick(T)})
      BY <2>1, FS_Subset
    <3> QED BY <3>1, SumInt
  <2>5. /\ f[Pick(T)] \in Int /\ g[Pick(T)] \in Int
        /\ f[Pick(T)] <= g[Pick(T)]
        /\ SumFunctionOnSet(f, T \ {Pick(T)}) <= SumFunctionOnSet(g, T \ {Pick(T)})
    BY <1>2, <2>1
  <2>6. SumFunctionOnSet(f, T) <= SumFunctionOnSet(g, T)
    BY ONLY <2>2, <2>3, <2>4, <2>5
  <2> QED BY <2>6
<1>3. S \in G
  <2> HIDE DEF G
  <2> QED BY <1>1, <1>2, FiniteInduction, Zenon
<1> QED BY <1>3

LEMMA SumStrict ==
  ASSUME NEW S, IsFiniteSet(S), NEW f, NEW g,
         \A y \in S : f[y] \in Int /\ g[y] \in Int /\ f[y] <= g[y],
         NEW x \in S, f[x] < g[x]
  PROVE  SumFunctionOnSet(f, S) < SumFunctionOnSet(g, S)
<1>1. IsFiniteSet(S \ {x})
  BY FS_Subset
<1>2. SumFunctionOnSet(f, S \ {x}) <= SumFunctionOnSet(g, S \ {x})
  BY <1>1, SumMonotone
<1>3. SumFunctionOnSet(f, S) = f[x] + SumFunctionOnSet(f, S \ {x})
  BY SumRemove
<1>4. SumFunctionOnSet(g, S) = g[x] + SumFunctionOnSet(g, S \ {x})
  BY SumRemove
<1>5. /\ SumFunctionOnSet(f, S \ {x}) \in Int
      /\ SumFunctionOnSet(g, S \ {x}) \in Int
  BY <1>1, SumInt
<1> QED BY <1>2, <1>3, <1>4, <1>5

(* A sum of naturals is a natural, and none of its terms exceeds it.       *)
LEMMA SumNat ==
  ASSUME NEW S, IsFiniteSet(S), NEW f, \A x \in S : f[x] \in Nat
  PROVE  SumFunctionOnSet(f, S) \in Nat
<1> DEFINE G == {T \in SUBSET S : SumFunctionOnSet(f, T) \in Nat}
<1>1. {} \in G
  BY SumEmpty
<1>2. ASSUME NEW T \in SUBSET S, T # {}, \A x \in T : T \ {x} \in G
      PROVE  T \in G
  <2>1. IsFiniteSet(T) /\ Pick(T) \in T
    BY <1>2, FS_Subset, PickIn
  <2>2. SumFunctionOnSet(f, T) = f[Pick(T)] + SumFunctionOnSet(f, T \ {Pick(T)})
    BY <1>2, <2>1, SumStep
  <2>3. SumFunctionOnSet(f, T \ {Pick(T)}) \in Nat /\ f[Pick(T)] \in Nat
    BY <1>2, <2>1
  <2> QED BY <2>2, <2>3
<1>3. S \in G
  <2> HIDE DEF G
  <2> QED BY <1>1, <1>2, FiniteInduction, Zenon
<1> QED BY <1>3

LEMMA SumMember ==
  ASSUME NEW S, IsFiniteSet(S), NEW f, \A y \in S : f[y] \in Nat, NEW x \in S
  PROVE  f[x] <= SumFunctionOnSet(f, S)
<1>1. IsFiniteSet(S \ {x})
  BY FS_Subset
<1>2. SumFunctionOnSet(f, S) = f[x] + SumFunctionOnSet(f, S \ {x})
  BY SumRemove
<1>3. SumFunctionOnSet(f, S \ {x}) \in Nat
  BY <1>1, SumNat
<1> QED BY <1>2, <1>3

LEMMA SumZero ==
  ASSUME NEW S, IsFiniteSet(S), NEW f, \A x \in S : f[x] = 0
  PROVE  SumFunctionOnSet(f, S) = 0
<1> DEFINE G == {T \in SUBSET S : SumFunctionOnSet(f, T) = 0}
<1>1. {} \in G
  BY SumEmpty
<1>2. ASSUME NEW T \in SUBSET S, T # {}, \A x \in T : T \ {x} \in G
      PROVE  T \in G
  <2>1. IsFiniteSet(T) /\ Pick(T) \in T /\ \A x \in T : f[x] \in Int
    BY <1>2, FS_Subset, PickIn
  <2>2. SumFunctionOnSet(f, T) = f[Pick(T)] + SumFunctionOnSet(f, T \ {Pick(T)})
    BY <1>2, <2>1, SumStep
  <2> QED BY <1>2, <2>1, <2>2
<1> HIDE DEF G
<1>3. S \in G
  BY <1>1, <1>2, FiniteInduction, Zenon
<1> USE DEF G
<1> QED BY <1>3

(* Sums add pointwise.                                                     *)
LEMMA SumAdd ==
  ASSUME NEW S, IsFiniteSet(S), NEW f, NEW g, NEW h,
         \A x \in S : f[x] \in Int /\ g[x] \in Int /\ h[x] = f[x] + g[x]
  PROVE  SumFunctionOnSet(h, S) = SumFunctionOnSet(f, S) + SumFunctionOnSet(g, S)
<1> DEFINE G == {T \in SUBSET S :
                   SumFunctionOnSet(h, T) = SumFunctionOnSet(f, T) + SumFunctionOnSet(g, T)}
<1>1. {} \in G
  BY SumEmpty
<1>2. ASSUME NEW T \in SUBSET S, T # {}, \A x \in T : T \ {x} \in G
      PROVE  T \in G
  <2>1. IsFiniteSet(T) /\ Pick(T) \in T
    BY <1>2, FS_Subset, PickIn
  <2>2. SumFunctionOnSet(f, T) = f[Pick(T)] + SumFunctionOnSet(f, T \ {Pick(T)})
    BY <1>2, <2>1, SumStep
  <2>3. SumFunctionOnSet(g, T) = g[Pick(T)] + SumFunctionOnSet(g, T \ {Pick(T)})
    BY <1>2, <2>1, SumStep
  <2>4. SumFunctionOnSet(h, T) = h[Pick(T)] + SumFunctionOnSet(h, T \ {Pick(T)})
    <3>1. \A x \in T : h[x] \in Int
      OBVIOUS
    <3> QED BY <1>2, <2>1, <3>1, SumStep
  <2>5. /\ SumFunctionOnSet(f, T \ {Pick(T)}) \in Int
        /\ SumFunctionOnSet(g, T \ {Pick(T)}) \in Int
    <3>1. IsFiniteSet(T \ {Pick(T)})
      BY <2>1, FS_Subset
    <3> QED BY <3>1, SumInt
  <2>6. /\ f[Pick(T)] \in Int /\ g[Pick(T)] \in Int
        /\ h[Pick(T)] = f[Pick(T)] + g[Pick(T)]
        /\ SumFunctionOnSet(h, T \ {Pick(T)})
              = SumFunctionOnSet(f, T \ {Pick(T)}) + SumFunctionOnSet(g, T \ {Pick(T)})
    BY <1>2, <2>1
  <2>7. SumFunctionOnSet(h, T) = SumFunctionOnSet(f, T) + SumFunctionOnSet(g, T)
    BY ONLY <2>2, <2>3, <2>4, <2>5, <2>6
  <2> QED BY <2>7
<1>3. S \in G
  <2> HIDE DEF G
  <2> QED BY <1>1, <1>2, FiniteInduction, Zenon
<1> QED BY <1>3

(* A common factor comes out of a sum.                                     *)
LEMMA SumScale ==
  ASSUME NEW S, IsFiniteSet(S), NEW f, NEW h, NEW k \in Int,
         \A x \in S : f[x] \in Int /\ h[x] = k * f[x]
  PROVE  SumFunctionOnSet(h, S) = k * SumFunctionOnSet(f, S)
<1> DEFINE G == {T \in SUBSET S : SumFunctionOnSet(h, T) = k * SumFunctionOnSet(f, T)}
<1>1. {} \in G
  BY SumEmpty
<1>2. ASSUME NEW T \in SUBSET S, T # {}, \A x \in T : T \ {x} \in G
      PROVE  T \in G
  <2>1. IsFiniteSet(T) /\ Pick(T) \in T
    BY <1>2, FS_Subset, PickIn
  <2>2. SumFunctionOnSet(f, T) = f[Pick(T)] + SumFunctionOnSet(f, T \ {Pick(T)})
    BY <1>2, <2>1, SumStep
  <2>3. SumFunctionOnSet(h, T) = h[Pick(T)] + SumFunctionOnSet(h, T \ {Pick(T)})
    <3>1. \A x \in T : h[x] \in Int
      OBVIOUS
    <3> QED BY <1>2, <2>1, <3>1, SumStep
  <2>4. SumFunctionOnSet(f, T \ {Pick(T)}) \in Int
    <3>1. IsFiniteSet(T \ {Pick(T)})
      BY <2>1, FS_Subset
    <3> QED BY <3>1, SumInt
  <2>5. /\ f[Pick(T)] \in Int /\ h[Pick(T)] = k * f[Pick(T)]
        /\ SumFunctionOnSet(h, T \ {Pick(T)}) = k * SumFunctionOnSet(f, T \ {Pick(T)})
    BY <1>2, <2>1
  <2>6. \A a, b \in Int : k * a + k * b = k * (a + b)
    OBVIOUS
  <2>7. SumFunctionOnSet(h, T) = k * SumFunctionOnSet(f, T)
    BY ONLY <2>2, <2>3, <2>4, <2>5, <2>6
  <2> QED BY <2>7
<1>3. S \in G
  <2> HIDE DEF G
  <2> QED BY <1>1, <1>2, FiniteInduction, Zenon
<1> QED BY <1>3

(***************************************************************************)
(* Summing c over each class of D (the elements k maps to a) and then over *)
(* the classes gives the sum of c over D.                                  *)
(***************************************************************************)
ClassSums(c, k, D, H) ==
  [a \in H |-> SumFunctionOnSet([i \in D |-> IF k[i] = a THEN c[i] ELSE 0], D)]

LEMMA SumByClass ==
  ASSUME NEW D, IsFiniteSet(D), NEW H, IsFiniteSet(H), NEW c, NEW k,
         \A i \in D : c[i] \in Int /\ k[i] \in H
  PROVE  SumFunctionOnSet(ClassSums(c, k, D, H), H) = SumFunctionOnSet(c, D)
<1> DEFINE part(a, T) == [i \in T |-> IF k[i] = a THEN c[i] ELSE 0]
           G == {T \in SUBSET D :
                   SumFunctionOnSet(ClassSums(c, k, T, H), H) = SumFunctionOnSet(c, T)}
<1>1. {} \in G
  <2>1. \A a \in H : ClassSums(c, k, {}, H)[a] = 0
    BY SumEmpty DEF ClassSums
  <2>2. SumFunctionOnSet(ClassSums(c, k, {}, H), H) = 0
    BY <2>1, SumZero
  <2> QED BY <2>2, SumEmpty
<1>2. ASSUME NEW T \in SUBSET D, T # {}, \A x \in T : T \ {x} \in G
      PROVE  T \in G
  <2>1. PICK x \in T : x = Pick(T)
    BY <1>2, PickIn
  <2>2. PICK R \in SUBSET D : R = T \ {x}
    BY T \ {x} \in SUBSET D
  <2>3. IsFiniteSet(T) /\ IsFiniteSet(R)
    BY FS_Subset
  <2>4. SumFunctionOnSet(c, T) = c[x] + SumFunctionOnSet(c, R)
    BY <2>1, <2>2, <2>3, SumRemove
  <2>5. ASSUME NEW a \in H
        PROVE  /\ ClassSums(c, k, T, H)[a] =
                    (IF k[x] = a THEN c[x] ELSE 0) + ClassSums(c, k, R, H)[a]
               /\ ClassSums(c, k, R, H)[a] \in Int
    <3>1. SumFunctionOnSet(part(a, T), T) = part(a, T)[x] + SumFunctionOnSet(part(a, T), R)
      <4>1. \A y \in T : part(a, T)[y] \in Int
        OBVIOUS
      <4> HIDE DEF part
      <4> QED BY <2>2, <2>3, <4>1, SumRemove
    <3>2. SumFunctionOnSet(part(a, T), R) = SumFunctionOnSet(part(a, R), R)
      <4>1. \A y \in R : part(a, R)[y] \in Int /\ part(a, T)[y] = part(a, R)[y]
        BY <2>2
      <4> HIDE DEF part
      <4> QED BY <2>3, <4>1, SumSame
    <3>3. SumFunctionOnSet(part(a, R), R) \in Int
      <4>1. \A y \in R : part(a, R)[y] \in Int
        OBVIOUS
      <4> HIDE DEF part
      <4> QED BY <2>3, <4>1, SumInt
    <3> QED BY <3>1, <3>2, <3>3 DEF ClassSums
  <2>6. k[x] \in H /\ c[x] \in Int
    OBVIOUS
  <2>7. SumFunctionOnSet(ClassSums(c, k, T, H), H)
          = SumFunctionOnSet(ClassSums(c, k, R, H), H)
            + (ClassSums(c, k, T, H)[k[x]] - ClassSums(c, k, R, H)[k[x]])
    <3>1. \A a \in H : ClassSums(c, k, R, H)[a] \in Int /\ ClassSums(c, k, T, H)[a] \in Int
      BY <2>5, <2>6
    <3>2. \A a \in H \ {k[x]} : ClassSums(c, k, T, H)[a] = ClassSums(c, k, R, H)[a]
      BY <2>5
    <3> QED BY <2>6, <3>1, <3>2, SumChange
  <2>8. ClassSums(c, k, T, H)[k[x]] - ClassSums(c, k, R, H)[k[x]] = c[x]
    BY <2>5, <2>6
  <2>9. SumFunctionOnSet(ClassSums(c, k, R, H), H) = SumFunctionOnSet(c, R)
    BY <1>2, <2>2
  <2>10. SumFunctionOnSet(c, R) \in Int
    BY <2>3, SumInt
  <2>11. SumFunctionOnSet(ClassSums(c, k, T, H), H) = SumFunctionOnSet(c, T)
    BY ONLY <2>4, <2>6, <2>7, <2>8, <2>9, <2>10
  <2> QED BY <2>11
<1>3. D \in G
  <2> HIDE DEF G
  <2> QED BY <1>1, <1>2, FiniteInduction, Zenon
<1> QED BY <1>3

(***************************************************************************)
(* Natural numbers: a nonempty set has a least element, and a set that has *)
(* 0 and every successor of its elements has every natural.                *)
(***************************************************************************)
LEMMA LeastNat ==
  ASSUME NEW S \in SUBSET Nat, S # {}
  PROVE  \E m \in S : \A n \in S : m <= n
<1>1. PICK R : IsWellFoundedOn(R, Nat) /\ \A a, b \in Nat : a < b => <<a, b>> \in R
  <2>1. \A a, b \in Nat : a < b => <<a, b>> \in OpToRel(<, Nat)
    BY DEF OpToRel
  <2> QED BY <2>1, NatLessThanWellFounded, Zenon
<1>2. PICK m \in S : \A n \in S : ~ (<<n, m>> \in R)
  <2>1. S \subseteq Nat
    OBVIOUS
  <2>2. IsWellFoundedOn(R, Nat)
    BY <1>1
  <2> QED BY ONLY S # {}, <2>1, <2>2, WFMin
<1>3. \A n \in S : ~ (n < m)
  BY <1>1, <1>2, Zenon
<1>4. \A n \in S : m <= n
  BY <1>3
<1> QED BY <1>4

LEMMA NatSetInduction ==
  ASSUME NEW G, 0 \in G, \A n \in Nat : n \in G => n + 1 \in G
  PROVE  \A n \in Nat : n \in G
<1> SUFFICES ASSUME Nat \ G # {} PROVE FALSE
  OBVIOUS
<1>1. PICK m \in Nat \ G : \A n \in Nat \ G : m <= n
  BY LeastNat
<1>2. m # 0 /\ m - 1 \in Nat /\ ~ (m <= m - 1)
  BY <1>1
<1>3. m - 1 \in G
  BY <1>1, <1>2
<1>4. (m - 1) + 1 = m
  BY <1>1
<1> QED BY <1>1, <1>2, <1>3, <1>4
=============================================================================
