----------------------------- MODULE SumLemmas -----------------------------
(***************************************************************************)
(* What TLAPS needs to know of sums over finite sets: they satisfy the     *)
(* equation they are defined by, any element may be taken out first, and   *)
(* so they add up, grow with the set, and depend on the summands alone.    *)
(* And of taking elements in order until what was taken is enough, which   *)
(* is what both answers to an overfull warehouse do.                       *)
(*                                                                         *)
(* Each is proved by induction over the subsets of a finite set: a set of  *)
(* counterexamples that is not empty has a smallest one, because the       *)
(* library shows strict inclusion to be well founded.                      *)
(***************************************************************************)
EXTENDS Integers, FiniteSetsExt, FiniteSetTheorems, WellFoundedInduction, TLAPS

\* The induction: of a set of finite sets, one contains no other.
LEMMA SmallestCounterexample ==
    ASSUME NEW S, IsFiniteSet(S), NEW Bad \in SUBSET SUBSET S, Bad # {}
    PROVE  \E T \in Bad : \A U \in Bad : U \subseteq T => U = T
<1> DEFINE R == StrictSubsetOrdering(S)
<1>1. FiniteSubsetsOf(S) = SUBSET S
    BY FS_FiniteSubsetsOfFinite
<1>2. IsWellFoundedOn(R, SUBSET S)
    BY <1>1, FS_StrictSubsetOrderingWellFounded
<1> HIDE DEF R
<1>3. \E T \in Bad : \A U \in Bad : ~ (<<U, T>> \in R)
    BY <1>2, WFMin
<1> QED BY <1>3 DEF R, StrictSubsetOrdering

-----------------------------------------------------------------------------
(* The equation. *)

AnyOf(S) == CHOOSE x \in S : TRUE
Rest(S) == S \ {AnyOf(S)}

\* g sums f over the subsets of S, taking out one element after the other.
IsSum(g, f, S) ==
    g = [s \in SUBSET S |-> IF s = {} THEN 0 ELSE f[AnyOf(s)] + g[Rest(s)]]

TheSum(f, S) == CHOOSE g : IsSum(g, f, S)

\* The library's definition, in these terms.
LEMMA SumIsChosen ==
    ASSUME NEW f, NEW S
    PROVE  SumFunctionOnSet(f, S) = TheSum(f, S)[S]
BY DEF SumFunctionOnSet, FoldFunctionOnSet, MapThenFoldSet, TheSum, IsSum, AnyOf, Rest

LEMMA AnyOfIn ==
    ASSUME NEW S, S # {}
    PROVE  AnyOf(S) \in S /\ Rest(S) \subseteq S /\ Rest(S) # S
BY DEF AnyOf, Rest

LEMMA SumUnique ==
    ASSUME NEW S, IsFiniteSet(S), NEW T, NEW f, NEW g, IsSum(g, f, S), NEW h, IsSum(h, f, T),
           NEW s \in SUBSET S, s \subseteq T
    PROVE  g[s] = h[s]
<1> DEFINE Bad == {u \in SUBSET S : u \subseteq T /\ g[u] # h[u]}
<1> SUFFICES ASSUME Bad # {} PROVE FALSE
    OBVIOUS
<1>1. Bad \in SUBSET SUBSET S
    OBVIOUS
<1>2. PICK u \in Bad : \A w \in Bad : w \subseteq u => w = u
    <2> HIDE DEF Bad
    <2> QED BY <1>1, SmallestCounterexample
<1>3. /\ g[u] = IF u = {} THEN 0 ELSE f[AnyOf(u)] + g[Rest(u)]
      /\ h[u] = IF u = {} THEN 0 ELSE f[AnyOf(u)] + h[Rest(u)]
    <2>1. u \in SUBSET S /\ u \in SUBSET T
        BY <1>2
    <2> QED BY <2>1 DEF IsSum
<1>4. u # {} => g[Rest(u)] = h[Rest(u)]
    BY <1>2, AnyOfIn
<1> QED BY <1>2, <1>3, <1>4

LEMMA SumExists ==
    ASSUME NEW S, IsFiniteSet(S), NEW f
    PROVE  IsSum(TheSum(f, S), f, S)
<1> DEFINE Bad == {T \in SUBSET S : ~ \E g : IsSum(g, f, T)}
<1> SUFFICES Bad = {}
    BY DEF TheSum
<1> SUFFICES ASSUME Bad # {} PROVE FALSE
    OBVIOUS
<1>1. Bad \in SUBSET SUBSET S
    OBVIOUS
<1>2. PICK T \in Bad : \A U \in Bad : U \subseteq T => U = T
    <2> HIDE DEF Bad
    <2> QED BY <1>1, SmallestCounterexample
<1>3. ASSUME NEW U \in SUBSET T, U # T
      PROVE  IsSum(TheSum(f, U), f, U)
    BY <1>2, <1>3 DEF TheSum
<1> DEFINE of(U) == TheSum(f, U)[U]
           G == [s \in SUBSET T |-> IF s = {} THEN 0 ELSE f[AnyOf(s)] + of(Rest(s))]
<1>4. ASSUME NEW s \in SUBSET T, s # {}
      PROVE  G[Rest(s)] = of(Rest(s))
    <2> DEFINE u == Rest(s)
    <2>1. u \in SUBSET T /\ u # T
        BY <1>4, AnyOfIn
    <2>2. IsSum(TheSum(f, u), f, u)
        BY <1>3, <2>1
    <2>3. of(u) = IF u = {} THEN 0 ELSE f[AnyOf(u)] + TheSum(f, u)[Rest(u)]
        <3> HIDE DEF u
        <3>1. u \in SUBSET u
            OBVIOUS
        <3> QED BY <2>2, <3>1 DEF IsSum
    <2>4. CASE u = {}
        BY <2>1, <2>3, <2>4
    <2>5. CASE u # {}
        <3>1. Rest(u) \in SUBSET T /\ Rest(u) # T /\ Rest(u) \subseteq u
            BY <2>1, <2>5, AnyOfIn
        <3>2. IsSum(TheSum(f, Rest(u)), f, Rest(u))
            BY <1>3, <3>1
        <3>3. IsFiniteSet(u)
            BY <1>2, <2>1, FS_Subset
        <3>4. TheSum(f, u)[Rest(u)] = of(Rest(u))
            <4> HIDE DEF u
            <4> QED BY <2>2, <3>1, <3>2, <3>3, SumUnique
        <3> QED BY <2>1, <2>3, <2>5, <3>4
    <2> QED BY <2>4, <2>5
<1>5. IsSum(G, f, T)
    BY <1>4 DEF IsSum
<1> QED BY <1>2, <1>5

\* A sum is one summand and the sum of the rest.
LEMMA SumEquation ==
    ASSUME NEW S, IsFiniteSet(S), NEW f
    PROVE  SumFunctionOnSet(f, S) =
              IF S = {} THEN 0 ELSE f[AnyOf(S)] + SumFunctionOnSet(f, Rest(S))
<1>1. IsSum(TheSum(f, S), f, S)
    BY SumExists
<1>2. TheSum(f, S)[S] = IF S = {} THEN 0 ELSE f[AnyOf(S)] + TheSum(f, S)[Rest(S)]
    <2>1. S \in SUBSET S
        OBVIOUS
    <2> QED BY <1>1, <2>1 DEF IsSum
<1>3. ASSUME S # {}
      PROVE  TheSum(f, S)[Rest(S)] = TheSum(f, Rest(S))[Rest(S)]
    <2>1. Rest(S) \in SUBSET S
        BY <1>3, AnyOfIn
    <2>2. IsSum(TheSum(f, Rest(S)), f, Rest(S))
        BY <2>1, SumExists, FS_Subset
    <2> QED BY <1>1, <2>1, <2>2, SumUnique
<1> QED BY <1>2, <1>3, SumIsChosen

-----------------------------------------------------------------------------
(* What follows. *)

THEOREM SumEmpty == ASSUME NEW f PROVE SumFunctionOnSet(f, {}) = 0
BY SumEquation, FS_EmptySet

\* Sums of integers are integers, and not negative without negative summands.
THEOREM SumType ==
    ASSUME NEW S, IsFiniteSet(S), NEW f, \A x \in S : f[x] \in Int
    PROVE  /\ SumFunctionOnSet(f, S) \in Int
           /\ (\A x \in S : f[x] >= 0) => SumFunctionOnSet(f, S) >= 0
<1> DEFINE Bad == {T \in SUBSET S : ~ /\ SumFunctionOnSet(f, T) \in Int
                                      /\ (\A x \in S : f[x] >= 0) => SumFunctionOnSet(f, T) >= 0}
<1> SUFFICES ASSUME Bad # {} PROVE FALSE
    OBVIOUS
<1>1. Bad \in SUBSET SUBSET S
    OBVIOUS
<1>2. PICK T \in Bad : \A U \in Bad : U \subseteq T => U = T
    <2> HIDE DEF Bad
    <2> QED BY <1>1, SmallestCounterexample
<1>3. T # {} => Rest(T) \in SUBSET S /\ Rest(T) \notin Bad /\ f[AnyOf(T)] \in Int /\ AnyOf(T) \in S
    BY <1>2, AnyOfIn
<1>4. SumFunctionOnSet(f, T) = IF T = {} THEN 0 ELSE f[AnyOf(T)] + SumFunctionOnSet(f, Rest(T))
    BY <1>2, FS_Subset, SumEquation
<1> QED BY <1>2, <1>3, <1>4

\* Any element may be taken out first.
THEOREM SumRemove ==
    ASSUME NEW S, IsFiniteSet(S), NEW f, \A y \in S : f[y] \in Int, NEW x \in S
    PROVE  SumFunctionOnSet(f, S) = f[x] + SumFunctionOnSet(f, S \ {x})
<1> DEFINE W(T) == SumFunctionOnSet(f, T)
           Bad == {T \in SUBSET S : \E y \in T : W(T) # f[y] + W(T \ {y})}
<1> SUFFICES ASSUME Bad # {} PROVE FALSE
    OBVIOUS
<1>1. Bad \in SUBSET SUBSET S
    OBVIOUS
<1>2. PICK T \in Bad : \A U \in Bad : U \subseteq T => U = T
    <2> HIDE DEF Bad
    <2> QED BY <1>1, SmallestCounterexample
<1>3. PICK y \in T : W(T) # f[y] + W(T \ {y})
    BY <1>2
<1> DEFINE a == AnyOf(T)
<1>4. a \in T /\ T \in SUBSET S
    BY <1>2, <1>3, AnyOfIn
<1>5. \A U \in SUBSET S : IsFiniteSet(U) /\ W(U) \in Int
    <2> SUFFICES ASSUME NEW U \in SUBSET S PROVE IsFiniteSet(U) /\ W(U) \in Int
        OBVIOUS
    <2>1. IsFiniteSet(U)
        BY FS_Subset
    <2> QED BY <2>1, SumType
<1>6. W(T) = f[a] + W(T \ {a})
    BY <1>3, <1>4, <1>5, SumEquation DEF Rest
<1>7. a # y
    BY <1>3, <1>6
<1>8. \A U \in SUBSET T : U # T => \A z \in U : W(U) = f[z] + W(U \ {z})
    BY <1>2, <1>4
<1> HIDE DEF a
<1>9. /\ W(T \ {a}) = f[y] + W((T \ {a}) \ {y})
      /\ W(T \ {y}) = f[a] + W((T \ {y}) \ {a})
    BY <1>3, <1>4, <1>7, <1>8
<1>10. (T \ {a}) \ {y} = (T \ {y}) \ {a}
    OBVIOUS
<1>11. f[a] \in Int /\ f[y] \in Int /\ W((T \ {a}) \ {y}) \in Int
    BY <1>3, <1>4, <1>5
<1>12. f[a] + (f[y] + W((T \ {a}) \ {y})) = f[y] + (f[a] + W((T \ {a}) \ {y}))
    BY <1>11
<1> QED BY <1>3, <1>6, <1>9, <1>10, <1>12

\* The sum of a set and what is disjoint from it.
THEOREM SumUnion ==
    ASSUME NEW S, IsFiniteSet(S), NEW T, IsFiniteSet(T), S \cap T = {},
           NEW f, \A x \in S \cup T : f[x] \in Int
    PROVE  SumFunctionOnSet(f, S \cup T) = SumFunctionOnSet(f, S) + SumFunctionOnSet(f, T)
<1> DEFINE W(U) == SumFunctionOnSet(f, U)
           Bad == {U \in SUBSET T : W(S \cup U) # W(S) + W(U)}
<1> SUFFICES ASSUME Bad # {} PROVE FALSE
    OBVIOUS
<1>1. Bad \in SUBSET SUBSET T
    OBVIOUS
<1>2. PICK U \in Bad : \A V \in Bad : V \subseteq U => V = U
    <2> HIDE DEF Bad
    <2> QED BY <1>1, SmallestCounterexample
<1>3. \A V \in SUBSET T : IsFiniteSet(V) /\ IsFiniteSet(S \cup V) /\ W(V) \in Int /\ W(S \cup V) \in Int
    <2> SUFFICES ASSUME NEW V \in SUBSET T
                 PROVE  IsFiniteSet(V) /\ IsFiniteSet(S \cup V) /\ W(V) \in Int /\ W(S \cup V) \in Int
        OBVIOUS
    <2>1. IsFiniteSet(V)
        BY FS_Subset
    <2>2. IsFiniteSet(S \cup V)
        BY <2>1, FS_Union
    <2> QED BY <2>1, <2>2, SumType
<1>4. W(S) \in Int /\ W({}) = 0
    BY SumType, SumEmpty
<1>5. U # {}
    <2>1. S \cup {} = S
        OBVIOUS
    <2>2. W(S) = W(S) + W({})
        BY <1>4
    <2> QED BY <1>2, <2>1, <2>2
<1>6. PICK x \in U : TRUE
    BY <1>5
<1>7. (S \cup U) \ {x} = S \cup (U \ {x}) /\ x \in S \cup U
    BY <1>2, <1>6
<1>8. W(S \cup U) = f[x] + W(S \cup (U \ {x})) /\ W(U) = f[x] + W(U \ {x})
    <2>1. U \in SUBSET T /\ IsFiniteSet(U) /\ IsFiniteSet(S \cup U)
        BY <1>2, <1>3
    <2>2. (\A y \in S \cup U : f[y] \in Int) /\ (\A y \in U : f[y] \in Int)
        BY <2>1
    <2>3. W(U) = f[x] + W(U \ {x})
        BY <1>6, <2>1, <2>2, SumRemove
    <2>4. W(S \cup U) = f[x] + W((S \cup U) \ {x})
        BY <1>7, <2>1, <2>2, SumRemove
    <2> QED BY <1>7, <2>3, <2>4
<1> HIDE DEF W
<1>9. W(S \cup (U \ {x})) = W(S) + W(U \ {x})
    BY <1>2, <1>6
<1>10. f[x] \in Int /\ W(U \ {x}) \in Int
    BY <1>2, <1>3, <1>6
<1> QED BY <1>2, <1>4, <1>8, <1>9, <1>10

\* Without negative summands a larger set has no smaller sum.
THEOREM SumMonotonic ==
    ASSUME NEW T, IsFiniteSet(T), NEW S \in SUBSET T, NEW f, \A x \in T : f[x] \in Nat
    PROVE  /\ SumFunctionOnSet(f, S) \in Nat
           /\ SumFunctionOnSet(f, T) \in Nat
           /\ SumFunctionOnSet(f, S) <= SumFunctionOnSet(f, T)
<1>1. IsFiniteSet(S) /\ IsFiniteSet(T \ S)
    BY FS_Subset
<1>2. /\ SumFunctionOnSet(f, S) \in Nat
      /\ SumFunctionOnSet(f, T) \in Nat
      /\ SumFunctionOnSet(f, T \ S) \in Nat
    BY <1>1, SumType
<1>3. S \cup (T \ S) = T /\ S \cap (T \ S) = {}
    OBVIOUS
<1>4. SumFunctionOnSet(f, T) = SumFunctionOnSet(f, S) + SumFunctionOnSet(f, T \ S)
    BY <1>1, <1>3, SumUnion
<1> QED BY <1>2, <1>4

\* A sum depends on its summands alone.
THEOREM SumCongruent ==
    ASSUME NEW S, IsFiniteSet(S), NEW f, NEW g, \A x \in S : f[x] = g[x]
    PROVE  SumFunctionOnSet(f, S) = SumFunctionOnSet(g, S)
<1> DEFINE Bad == {T \in SUBSET S : SumFunctionOnSet(f, T) # SumFunctionOnSet(g, T)}
<1> SUFFICES ASSUME Bad # {} PROVE FALSE
    OBVIOUS
<1>1. Bad \in SUBSET SUBSET S
    OBVIOUS
<1>2. PICK T \in Bad : \A U \in Bad : U \subseteq T => U = T
    <2> HIDE DEF Bad
    <2> QED BY <1>1, SmallestCounterexample
<1>3. T # {} => Rest(T) \in SUBSET S /\ Rest(T) \notin Bad /\ AnyOf(T) \in S
    BY <1>2, AnyOfIn
<1>4. \A h : SumFunctionOnSet(h, T) =
                IF T = {} THEN 0 ELSE h[AnyOf(T)] + SumFunctionOnSet(h, Rest(T))
    BY <1>2, FS_Subset, SumEquation
<1> QED BY <1>2, <1>3, <1>4

-----------------------------------------------------------------------------
(* Taking elements in order until enough is taken. *)

\* R orders S strictly and totally.
IsStrictOrder(R, S) ==
    /\ \A x \in S : <<x, x>> \notin R
    /\ \A x, y \in S : x # y => <<x, y>> \in R \/ <<y, x>> \in R
    /\ \A x, y, z \in S : <<x, y>> \in R /\ <<y, z>> \in R => <<x, z>> \in R

\* Of a finite set that is not empty one element comes first, and one last.
LEMMA FirstExists ==
    ASSUME NEW S, IsFiniteSet(S), NEW R, IsStrictOrder(R, S), NEW T \in SUBSET S, T # {}
    PROVE  \E x \in T : \A y \in T : <<y, x>> \notin R
<1> DEFINE before(x) == {y \in T : <<y, x>> \in R}
           Bad == {U \in SUBSET T : \E x \in T : U = before(x)}
<1>1. Bad \in SUBSET SUBSET S /\ Bad # {}
    <2>1. PICK x \in T : TRUE
        OBVIOUS
    <2>2. before(x) \in Bad
        BY <2>1
    <2> QED BY <2>2
<1>2. PICK U \in Bad : \A V \in Bad : V \subseteq U => V = U
    <2> HIDE DEF Bad
    <2> QED BY <1>1, SmallestCounterexample
<1>3. PICK x \in T : U = before(x)
    BY <1>2
<1>4. ASSUME NEW y \in T, <<y, x>> \in R PROVE FALSE
    <2>1. before(y) \in Bad /\ before(y) \subseteq U
        BY <1>3, <1>4 DEF IsStrictOrder
    <2>2. y \in before(y)
        BY <1>2, <1>3, <1>4, <2>1
    <2> QED BY <2>2 DEF IsStrictOrder
<1> QED BY <1>4

LEMMA LastExists ==
    ASSUME NEW S, IsFiniteSet(S), NEW R, IsStrictOrder(R, S), NEW T \in SUBSET S, T # {}
    PROVE  \E x \in T : \A y \in T : <<x, y>> \notin R
<1> DEFINE C == {<<p[2], p[1]>> : p \in {q \in S \X S : q \in R}}
<1>1. \A x, y \in S : <<x, y>> \in C <=> <<y, x>> \in R
    OBVIOUS
<1> HIDE DEF C
<1>2. IsStrictOrder(C, S)
    BY <1>1 DEF IsStrictOrder
<1>3. PICK x \in T : \A y \in T : <<y, x>> \notin C
    BY <1>2, FirstExists
<1> QED BY <1>1, <1>3

\* A finite set of integers has a least element.
LEMMA MinIsLeast ==
    ASSUME NEW S \in SUBSET Int, IsFiniteSet(S), S # {}
    PROVE  Min(S) \in S /\ \A x \in S : Min(S) <= x
<1> DEFINE R == {p \in S \X S : p[1] < p[2]}
<1>1. \A x, y \in S : <<x, y>> \in R <=> x < y
    OBVIOUS
<1> HIDE DEF R
<1>2. IsStrictOrder(R, S)
    BY <1>1 DEF IsStrictOrder
<1>3. PICK x \in S : \A y \in S : <<y, x>> \notin R
    BY <1>2, FirstExists
<1>4. \A y \in S : x \in Int /\ y \in Int /\ ~(y < x)
    BY <1>1, <1>3
<1>5. \A y \in S : x <= y
    BY <1>4
<1> QED BY <1>5 DEF Min

\* And a greatest one.
LEMMA MaxIsGreatest ==
    ASSUME NEW S \in SUBSET Int, IsFiniteSet(S), S # {}
    PROVE  Max(S) \in S /\ \A x \in S : x <= Max(S)
<1> DEFINE R == {p \in S \X S : p[1] < p[2]}
<1>1. \A x, y \in S : <<x, y>> \in R <=> x < y
    OBVIOUS
<1> HIDE DEF R
<1>2. IsStrictOrder(R, S)
    BY <1>1 DEF IsStrictOrder
<1>3. PICK x \in S : \A y \in S : <<x, y>> \notin R
    BY <1>2, LastExists
<1>4. \A y \in S : x \in Int /\ y \in Int /\ ~(x < y)
    BY <1>1, <1>3
<1>5. \A y \in S : x >= y
    BY <1>4
<1>6. Max(S) \in S /\ \A y \in S : Max(S) >= y
    BY <1>5 DEF Max
<1> QED BY <1>6

\* What is taken of S: everything before which less than need is taken.
Taken(S, R, m, need) == {x \in S : m[{y \in S : <<y, x>> \in R}] < need}

\* Nothing is taken before what comes first, enough is taken if there is enough,
\* and without the last one it would not be; m need not be a sum.
THEOREM TakenIsEnough ==
    ASSUME NEW S, IsFiniteSet(S), NEW R, IsStrictOrder(R, S),
           NEW m \in [SUBSET S -> Int], \A A, B \in SUBSET S : A \subseteq B => m[A] <= m[B],
           NEW need \in Int
    PROVE  LET T == Taken(S, R, m, need)
           IN  /\ \A x \in T, y \in S : <<y, x>> \in R => y \in T
               /\ T = S \/ m[T] >= need
               /\ T # {} => \E x \in T : m[T \ {x}] < need
<1> DEFINE T == Taken(S, R, m, need)
           before(x) == {y \in S : <<y, x>> \in R}
<1>1. \A x \in S : x \in T <=> m[before(x)] < need
    BY DEF Taken
<1>2. T \in SUBSET S
    BY DEF Taken
<1>3. \A x \in S : before(x) \in SUBSET S
    OBVIOUS
<1>4. \A x \in S : T \in SUBSET S /\ T \ {x} \in SUBSET S /\ m[T] \in Int
                   /\ m[T \ {x}] \in Int /\ m[before(x)] \in Int
    <2>1. \A A \in SUBSET S : m[A] \in Int
        OBVIOUS
    <2> QED BY <1>2, <1>3, <2>1
<1> HIDE DEF T
<1>5. ASSUME NEW x \in T, NEW y \in S, <<y, x>> \in R PROVE y \in T
    <2>1. before(y) \subseteq before(x)
        BY <1>2, <1>5 DEF IsStrictOrder
    <2>2. m[before(y)] <= m[before(x)]
        BY <1>2, <1>3, <2>1
    <2>3. m[before(x)] < need
        BY <1>1, <1>2
    <2>4. m[before(x)] \in Int /\ m[before(y)] \in Int
        <3>1. x \in S /\ y \in S
            BY <1>2, <1>5
        <3> QED BY <1>4, <3>1
    <2>5. m[before(y)] < need
        BY <2>2, <2>3, <2>4
    <2> QED BY <1>1, <2>5
<1>6. ASSUME T # S PROVE m[T] >= need
    <2>1. S \ T \in SUBSET S /\ S \ T # {}
        BY <1>2, <1>6
    <2>2. PICK x \in S \ T : \A y \in S \ T : <<y, x>> \notin R
        BY <2>1, FirstExists
    <2>3. before(x) \subseteq T
        BY <2>2
    <2>4. m[before(x)] <= m[T]
        BY <1>2, <1>3, <2>3
    <2>5. ~ (m[before(x)] < need)
        BY <1>1, <2>2
    <2> QED BY <1>4, <2>2, <2>4, <2>5
<1>7. ASSUME T # {} PROVE \E x \in T : m[T \ {x}] < need
    <2>1. PICK x \in T : \A y \in T : <<x, y>> \notin R
        BY <1>2, <1>7, LastExists
    <2>2. T \ {x} \subseteq before(x)
        BY <1>2, <2>1 DEF IsStrictOrder
    <2>3. m[T \ {x}] <= m[before(x)]
        BY <1>2, <1>3, <1>4, <2>2
    <2>4. m[before(x)] < need
        BY <1>1, <1>2
    <2> QED BY <1>2, <1>4, <2>3, <2>4
<1> QED BY <1>5, <1>6, <1>7 DEF T

\* The elements with fewer than n before them are the first n, or all.
LEMMA FirstCount ==
    ASSUME NEW S, IsFiniteSet(S), NEW R, IsStrictOrder(R, S), NEW n \in Int
    PROVE  LET T == {x \in S : Cardinality({y \in S : <<y, x>> \in R}) < n}
           IN  /\ n <= 0 => T = {}
               /\ n >= Cardinality(S) => T = S
               /\ 0 <= n /\ n <= Cardinality(S) => Cardinality(T) = n
<1> DEFINE m == [U \in SUBSET S |-> Cardinality(U)]
           T == {x \in S : Cardinality({y \in S : <<y, x>> \in R}) < n}
<1>1. \A U \in SUBSET S : IsFiniteSet(U) /\ Cardinality(U) \in Nat
    BY FS_Subset, FS_CardinalityType
<1>2. m \in [SUBSET S -> Int] /\ \A U \in SUBSET S : m[U] = Cardinality(U)
    BY <1>1
<1>3. \A A, B \in SUBSET S : A \subseteq B => m[A] <= m[B]
    BY <1>1, <1>2, FS_Subset
<1>4. T = Taken(S, R, m, n)
    BY <1>2 DEF Taken
<1> HIDE DEF m
<1>5. /\ T = S \/ m[T] >= n
      /\ T # {} => \E x \in T : m[T \ {x}] < n
    BY <1>2, <1>3, <1>4, TakenIsEnough
<1>6. T \in SUBSET S /\ IsFiniteSet(T) /\ Cardinality(T) \in Nat /\ m[T] = Cardinality(T)
    BY <1>1, <1>2
<1>7. n <= 0 => T = {}
    <2> SUFFICES ASSUME n <= 0, NEW x \in S PROVE x \notin T
        OBVIOUS
    <2>1. {y \in S : <<y, x>> \in R} \in SUBSET S
        OBVIOUS
    <2>2. Cardinality({y \in S : <<y, x>> \in R}) \in Nat
        BY <1>1, <2>1
    <2> QED BY <2>2
<1>8. n >= Cardinality(S) => T = S
    <2> SUFFICES ASSUME n >= Cardinality(S), T # S PROVE FALSE
        OBVIOUS
    <2> HIDE DEF T
    <2>1. Cardinality(T) <= Cardinality(S) /\ (Cardinality(S) = Cardinality(T) => S = T)
        BY <1>6, FS_Subset
    <2>2. Cardinality(S) \in Nat
        BY FS_CardinalityType
    <2>3. Cardinality(T) >= n
        BY <1>5, <1>6
    <2> QED BY <1>6, <2>1, <2>2, <2>3
<1>9. ASSUME 0 <= n, n <= Cardinality(S)
      PROVE  Cardinality(T) = n
    <2> HIDE DEF T
    <2>1. Cardinality(T) >= n
        BY <1>5, <1>6, <1>9
    <2>2. CASE T = {}
        BY <1>6, <1>9, <2>1, <2>2, FS_EmptySet
    <2>3. CASE T # {}
        <3>1. PICK x \in T : m[T \ {x}] < n
            BY <1>5, <2>3
        <3>2. T \ {x} \in SUBSET S
            BY <1>6
        <3>3. Cardinality(T \ {x}) < n
            BY <1>2, <3>1, <3>2
        <3>4. Cardinality(T \ {x}) = Cardinality(T) - 1
            BY <1>6, FS_RemoveElement
        <3> QED BY <1>6, <2>1, <3>3, <3>4
    <2> QED BY <2>2, <2>3
<1> QED BY <1>7, <1>8, <1>9
=============================================================================
